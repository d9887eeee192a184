------------------------------ MODULE RecvList ------------------------------
(****************************************************************************)
(* The block list of RecvQueue.imp.inl as a list: RecvQueueUpdateStreamPos, *)
(* RecvQueueAddToBlocks with its search from the latest block, and          *)
(* RecvQueueBlocksMerge with its two loops.  RecvQueue.tla views the list   *)
(* as a set of ranges; RecvQueueList.tla runs both side by side.            *)
(****************************************************************************)
EXTENDS Integers, Sequences, FiniteSets, SequencesExt

CONSTANT InitStreamPos

VARIABLES
    ackStreamPos,
    list,          \* recvBlock.blocks
    latest         \* index of the block recvBlock.latest points to, 0 for NULL

vars == <<ackStreamPos, list, latest>>

Init ==
    /\ ackStreamPos = InitStreamPos
    /\ list = <<>>
    /\ latest = 0

MaxPos(x, y) == IF x < y THEN y ELSE x
MinPos(x, y) == IF x < y THEN x ELSE y

SizeOf(r) == r.end - r.start

(* RecvQueueRecvBlockCalcRelaPos: where other lies relative to base.       *)
RelativePos(base, other) ==
    LET maxOffset == MaxPos(base.end, other.end) - MinPos(base.start, other.start)
    IN  CASE maxOffset = MaxPos(SizeOf(base), SizeOf(other)) -> "INCLUDE"
          [] /\ maxOffset # MaxPos(SizeOf(base), SizeOf(other))
             /\ maxOffset <= SizeOf(base) + SizeOf(other) -> "INTERSECT"
          [] maxOffset > SizeOf(base) + SizeOf(other) ->
               IF other.start < base.start THEN "PREV" ELSE "NEXT"

Joins(base, other) == RelativePos(base, other) \in {"INCLUDE", "INTERSECT"}

Hull(r, s) == [start |-> MinPos(r.start, s.start), end |-> MaxPos(r.end, s.end)]

\* Mutant of DeleteBlocks: the latest block is forgotten whichever are deleted.
DeleteForgetful(l, lo, hi) ==
    [blocks |-> SubSeq(l.blocks, 1, lo - 1) \o SubSeq(l.blocks, hi + 1, Len(l.blocks)),
     latest |-> 0]

(* RecvQueueDeleteBlock of the blocks lo .. hi of a list, with the latest  *)
(* index: a deleted latest is forgotten, one behind them moves up.         *)
DeleteBlocks(l, lo, hi) ==
    [blocks |-> SubSeq(l.blocks, 1, lo - 1) \o SubSeq(l.blocks, hi + 1, Len(l.blocks)),
     latest |-> CASE l.latest < lo -> l.latest
                  [] l.latest \in lo .. hi -> 0
                  [] l.latest > hi -> l.latest - (hi - lo + 1)]

\* What the blocks lo .. hi become when they are joined one after the other.
HullOf(bs, lo, hi) ==
    [start |-> Min({bs[k].start : k \in lo .. hi}), end |-> Max({bs[k].end : k \in lo .. hi})]

(* RecvQueueBlocksMerge: the block at i takes in its successors, then its  *)
(* predecessors, while what it has become touches the next one.            *)
LastJoined(bs, i) ==
    CHOOSE n \in i .. Len(bs) :
        /\ \A k \in i .. (n - 1) : Joins(HullOf(bs, i, k), bs[k + 1])
        /\ n < Len(bs) => ~Joins(HullOf(bs, i, n), bs[n + 1])

MergeNext(l, i) ==
    LET to == LastJoined(l.blocks, i)
    IN  DeleteBlocks([l EXCEPT !.blocks[i] = HullOf(l.blocks, i, to)], i + 1, to)

FirstJoined(bs, i) ==
    CHOOSE n \in 1 .. i :
        /\ \A k \in (n + 1) .. i : Joins(HullOf(bs, k, i), bs[k - 1])
        /\ n > 1 => ~Joins(HullOf(bs, n, i), bs[n - 1])

MergePrev(l, i) ==
    LET from == FirstJoined(l.blocks, i)
    IN  DeleteBlocks([l EXCEPT !.blocks[i] = HullOf(l.blocks, from, i)], from, i - 1)

BlocksMerge(l, i) == MergePrev(MergeNext(l, i), i)

(* The loop of RecvQueueAddToBlocks: the first block at or behind start    *)
(* that does not lie before r.                                             *)
SearchFrom(start, r) ==
    CHOOSE i \in start .. (Len(list) + 1) :
        /\ \A j \in start .. (i - 1) : RelativePos(list[j], r) = "NEXT"
        /\ i <= Len(list) => RelativePos(list[i], r) # "NEXT"

(* RecvQueueAddToBlocks.  The search starts at the latest block unless the *)
(* range ends before it.  A new block goes before the one found, or to the *)
(* end, and is the latest; a block that the range includes is the latest   *)
(* as well.                                                                *)
AddToBlocks(r) ==
    LET l    == [blocks |-> list, latest |-> latest]
        i    == SearchFrom(IF latest = 0 \/ r.end < list[latest].start THEN 1 ELSE latest, r)
        wide == [l EXCEPT !.blocks[i] = Hull(@, r)]
    IN  IF i > Len(list) \/ RelativePos(list[i], r) = "PREV"
        THEN [blocks |-> InsertAt(list, i, r), latest |-> i]
        ELSE IF list[i].start <= r.start /\ r.end <= list[i].end THEN l
        ELSE IF RelativePos(list[i], r) = "INCLUDE"
        THEN BlocksMerge([wide EXCEPT !.latest = i], i)
        ELSE BlocksMerge(wide, i)

(* RecvQueueUpdateStreamPos                                                *)
UpdateStreamPos(r) ==
    \/ /\ r.end <= ackStreamPos
       /\ UNCHANGED vars
    \/ /\ r.end > ackStreamPos /\ r.start <= ackStreamPos
       /\ IF list # <<>> /\ Joins(Head(list), r)
          THEN LET l == DeleteBlocks([blocks |-> list, latest |-> latest], 1, 1) IN
               /\ ackStreamPos' = MaxPos(r.end, Head(list).end)
               /\ list' = l.blocks
               /\ latest' = l.latest
          ELSE /\ ackStreamPos' = r.end
               /\ UNCHANGED <<list, latest>>
    \/ /\ r.start > ackStreamPos
       /\ LET l == AddToBlocks(r) IN
           /\ list' = l.blocks
           /\ latest' = l.latest
       /\ UNCHANGED ackStreamPos
=============================================================================
