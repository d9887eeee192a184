------------------------------ MODULE SendList ------------------------------
(****************************************************************************)
(* The lists of SendQueue.imp.inl as lists: flight and lost blocks, and the *)
(* buffers with their offsets and the curr pointer.  The two operations     *)
(* that loop over the block lists take one step per turn of the loop; they  *)
(* hold lockSendContext, so no other operation on those lists comes         *)
(* between.  The buffers are under lockSendingBuffers, so in the code       *)
(* AddBuffer and PopCompleteBuffers may fall between two turns; here they   *)
(* fall between two operations.  AddBuffer touches nothing a loop reads.  A *)
(* pop reads ackStreamPos, which ConfirmRange raises before its walk: a pop *)
(* during the walk may return a buffer whose blocks the walk has yet to     *)
(* reach.  It frees each of them without a look at the payload and holds    *)
(* the lock all others need to see them, so the pop may as well come after. *)
(* SendQueue.tla views each list as a set of ranges and every operation as  *)
(* one step; SendQueueList.tla shows that view to be right.                 *)
(****************************************************************************)
EXTENDS SendQueueParams, Sequences, FiniteSets, SequencesExt

VARIABLES
    ctx,              \* sendContext, a record with the code's field names
    buffers,          \* sendingBuffers.buffers, in stream order
    curr,             \* index of the buffer curr points to, 0 for NULL
    bufferStreamPos,  \* sendingBuffers.streamPos
    unSendLength,
    acked,            \* history: positions some processed ack or sack covered
    \* the operation that holds lockSendContext: "idle", "walk" (the loop of
    \* SendQueueConfirmRange), "mark" (that of SendQueueMarkRangeTimeout),
    \* "splice" (that of MoveFlightToLost); and its arguments and locals
    step,
    flightRest,       \* flightBlocks and lostBlocks swapped out, what is left
    lostRest,
    ackArg,           \* ackStreamPos and sackArray
    sackArg,
    lateRest,         \* lostBlocks of SendQueueMarkRangeTimeout
    place,            \* index of block, or of prev: 0 for NULL
    total             \* totalTimeout

bufferVars == <<buffers, curr, bufferStreamPos, unSendLength>>
locals == <<step, flightRest, lostRest, ackArg, sackArg, lateRest, place, total>>

\* SendQueueCreate
Init ==
    /\ ctx = [ackStreamPos |-> InitStreamPos, streamPos |-> InitStreamPos,
              flightBlocks |-> <<>>, lostBlocks |-> <<>>, flight |-> 0, lost |-> 0,
              latest |-> 0, prevDup |-> 0, dup |-> 0]
    /\ buffers = <<>>
    /\ curr = 0
    /\ bufferStreamPos = InitStreamPos
    /\ unSendLength = 0
    /\ acked = {}
    /\ step = "idle"
    /\ flightRest = <<>> /\ lostRest = <<>> /\ lateRest = <<>>
    /\ ackArg = InitStreamPos /\ sackArg = <<>>
    /\ place = 0 /\ total = 0

\* The operation returns.
LocalsGone ==
    /\ step' = "idle"
    /\ flightRest' = <<>> /\ lostRest' = <<>> /\ lateRest' = <<>>
    /\ ackArg' = InitStreamPos /\ sackArg' = <<>>
    /\ place' = 0 /\ total' = 0

SizeOf(b) == b.end - b.start

-----------------------------------------------------------------------------
(* SendQueueAddBuffer *)
AddBuffer(len) ==
    /\ step = "idle"
    /\ bufferStreamPos + len <= MaxStreamPos
    /\ buffers' = Append(buffers, [start |-> bufferStreamPos, offset |-> bufferStreamPos,
                                   end |-> bufferStreamPos + len])
    /\ curr' = IF curr = 0 THEN Len(buffers) + 1 ELSE curr
    /\ unSendLength' = unSendLength + len
    /\ bufferStreamPos' = bufferStreamPos + len
    /\ UNCHANGED <<ctx, acked, locals>>

\* Mutant of MoveLostToFlight: to the end of the flight list.
MoveLostToEnd(list, b) == Append(list, b)

(* SendQueueMoveLostToFlight: behind the last flight block that does not   *)
(* start after it.                                                         *)
MoveLostToFlight(list, b) ==
    LET at == CHOOSE i \in 0 .. Len(list) :
                  /\ \A j \in 1 .. i : list[j].start <= b.start
                  /\ i < Len(list) => b.start < list[i + 1].start
    IN  InsertAt(list, at + 1, b)

(* SendQueueFillPayload: the first lost block, or else a block cut from    *)
(* curr (SendQueueGenerateBlock).                                          *)
FillLostPayload ==
    /\ step = "idle"
    /\ ctx.lostBlocks # <<>>
    /\ LET b == Head(ctx.lostBlocks) IN
        ctx' = [ctx EXCEPT !.lostBlocks = Tail(@),
                           !.flightBlocks = MoveLostToFlight(@, b),
                           !.flight = @ + SizeOf(b), !.lost = @ - SizeOf(b)]
    /\ UNCHANGED <<bufferVars, acked, locals>>

FillNewPayload ==
    /\ step = "idle"
    /\ ctx.lostBlocks = <<>>
    /\ unSendLength > 0
    /\ LET left == buffers[curr].end - buffers[curr].offset
           size == IF left <= Mtu THEN left ELSE Mtu
           b    == [start |-> buffers[curr].offset, end |-> buffers[curr].offset + size]
       IN  /\ buffers' = [buffers EXCEPT ![curr].offset = b.end]
           /\ curr' = CASE left > Mtu -> curr
                        [] left <= Mtu /\ curr < Len(buffers) -> curr + 1
                        [] left <= Mtu /\ curr = Len(buffers) -> 0
           /\ unSendLength' = unSendLength - size
           /\ ctx' = [ctx EXCEPT !.flightBlocks = Append(@, b),
                                 !.flight = @ + size, !.streamPos = @ + size]
    /\ UNCHANGED <<bufferStreamPos, acked, locals>>

-----------------------------------------------------------------------------
\* Mutant of CheckBlockStateByAck: only the first range of the SACK is read.
CheckFirstRange(b, ack, sack) ==
    CASE b.end <= ack -> "ACK"
      [] b.end > ack /\ b.start < ack -> "LOST"
      [] b.start >= ack /\ b.end > ack ->
           IF sack = <<>> THEN "OUT_OF_RANGE"
           ELSE IF b.end <= sack[1].start THEN "PREV"
           ELSE IF b.start >= sack[1].start /\ b.end <= sack[1].end THEN "ACK"
           ELSE "OUT_OF_RANGE"

\* Mutant of CheckBlockStateByAck: a block confirmed in part counts as confirmed.
PartIsAck(b, ack, sack) ==
    IF b.start < ack \/ \E i \in DOMAIN sack : sack[i].start <= b.start /\ b.end <= sack[i].end
    THEN "ACK"
    ELSE IF \E i \in DOMAIN sack : b.end <= sack[i].start THEN "PREV" ELSE "OUT_OF_RANGE"

(* CheckBlockStateByAck: the loop stops at the first range that lies       *)
(* behind the block or contains it.                                        *)
CheckBlockStateByAck(b, ack, sack) ==
    LET stops == {i \in DOMAIN sack :
                    \/ b.end <= sack[i].start
                    \/ b.start >= sack[i].start /\ b.end <= sack[i].end}
        at    == CHOOSE i \in stops : \A j \in stops : i <= j
    IN  CASE b.end <= ack -> "ACK"
          [] b.end > ack /\ b.start < ack -> "LOST"
          [] b.start >= ack /\ b.end > ack /\ stops = {} -> "OUT_OF_RANGE"
          [] b.start >= ack /\ b.end > ack /\ stops # {} ->
               IF b.end <= sack[at].start THEN "PREV" ELSE "ACK"

\* Mutant of Counted: a position that was hit before is counted again.
CountedAgain(ack) ==
    CASE ctx.latest < ack -> [ctx EXCEPT !.latest = ack, !.dup = 1]
      [] ctx.latest = ack -> [ctx EXCEPT !.dup = (@ + 1) % DupAckModulus]
      [] ctx.latest > ack -> ctx

(* SendQueueConfirmRange counts duplicate acks before it walks the lists.  *)
Counted(ack) ==
    CASE ctx.prevDup < ack /\ ctx.latest < ack -> [ctx EXCEPT !.latest = ack, !.dup = 1]
      [] ctx.prevDup < ack /\ ctx.latest = ack -> [ctx EXCEPT !.dup = (@ + 1) % DupAckModulus]
      [] ctx.prevDup >= ack \/ ctx.latest > ack -> ctx

(* SendQueueConfirmRange until the loop: both lists are swapped out.  The  *)
(* early return on an old ack without a sack is tested before the lock is  *)
(* taken, so any ack can come this far.                                    *)
ConfirmBegin(ack, sack) ==
    /\ step = "idle"
    /\ step' = "walk"
    /\ flightRest' = ctx.flightBlocks
    /\ lostRest' = ctx.lostBlocks
    /\ ackArg' = ack
    /\ sackArg' = sack
    /\ ctx' = [Counted(ack) EXCEPT !.ackStreamPos = IF @ < ack THEN ack ELSE @,
                                   !.flightBlocks = <<>>, !.lostBlocks = <<>>]
    /\ UNCHANGED <<lateRest, place, total, bufferVars, acked>>

(* The block the loop takes next, and the state it gives it: the fourth    *)
(* equal ack declares the block at that position lost.                     *)
FromFlight ==
    flightRest # <<>> /\ (lostRest = <<>> \/ Head(flightRest).start < Head(lostRest).start)

NextBlock == IF FromFlight THEN Head(flightRest) ELSE Head(lostRest)

HitByDup(b) == b.start = ctx.latest /\ ctx.dup = 4

NextState ==
    IF HitByDup(NextBlock) THEN "LOST"
    ELSE CheckBlockStateByAck(NextBlock, ctx.ackStreamPos, sackArg)

WalkIsOver == flightRest # <<>> \/ lostRest # <<>> => NextState = "OUT_OF_RANGE"

(* The context after the block: the switch of the loop.                    *)
Handled(c) ==
    CASE NextState = "ACK" /\ FromFlight -> [c EXCEPT !.flight = @ - SizeOf(NextBlock)]
      [] NextState = "ACK" /\ ~FromFlight -> [c EXCEPT !.lost = @ - SizeOf(NextBlock)]
      [] NextState = "PREV" /\ FromFlight -> [c EXCEPT !.flightBlocks = Append(@, NextBlock)]
      [] NextState = "LOST" /\ FromFlight ->
           [c EXCEPT !.lostBlocks = Append(@, NextBlock),
                     !.flight = @ - SizeOf(NextBlock), !.lost = @ + SizeOf(NextBlock)]
      [] NextState \in {"PREV", "LOST"} /\ ~FromFlight ->
           [c EXCEPT !.lostBlocks = Append(@, NextBlock)]

(* One turn of the loop.                                                   *)
ConfirmBlock ==
    /\ step = "walk"
    /\ ~WalkIsOver
    /\ ctx' = Handled(IF HitByDup(NextBlock)
                      THEN [ctx EXCEPT !.prevDup = ctx.latest, !.latest = 0, !.dup = 0]
                      ELSE ctx)
    /\ flightRest' = IF FromFlight THEN Tail(flightRest) ELSE flightRest
    /\ lostRest' = IF FromFlight THEN lostRest ELSE Tail(lostRest)
    /\ UNCHANGED <<step, ackArg, sackArg, lateRest, place, total, bufferVars, acked>>

(* Behind the loop: what is left of both lists goes back to their ends.    *)
ConfirmEnd ==
    /\ step = "walk"
    /\ WalkIsOver
    /\ ctx' = [ctx EXCEPT !.flightBlocks = @ \o flightRest, !.lostBlocks = @ \o lostRest]
    /\ acked' = acked \cup (InitStreamPos .. (ackArg - 1))
                      \cup UNION {sackArg[i].start .. (sackArg[i].end - 1) : i \in DOMAIN sackArg}
    /\ LocalsGone
    /\ UNCHANGED bufferVars

-----------------------------------------------------------------------------
(* SendQueueMarkRangeTimeout: a walk over the flight list from its front.  *)
MarkBegin ==
    /\ step = "idle"
    /\ ctx.flightBlocks # <<>>
    /\ step' = "mark"
    /\ place' = 1
    /\ UNCHANGED <<ctx, flightRest, lostRest, ackArg, sackArg, lateRest, total, bufferVars, acked>>

(* A block is erased and put aside or stays: which one depends on its send *)
(* time and on the rto estimate.                                           *)
MarkLate ==
    /\ step = "mark"
    /\ place <= Len(ctx.flightBlocks)
    /\ LET b == ctx.flightBlocks[place] IN
        /\ lateRest' = Append(lateRest, b)
        /\ total' = total + SizeOf(b)
    /\ ctx' = [ctx EXCEPT !.flightBlocks = RemoveAt(@, place)]
    /\ UNCHANGED <<step, flightRest, lostRest, ackArg, sackArg, place, bufferVars, acked>>

MarkStays ==
    /\ step = "mark"
    /\ place <= Len(ctx.flightBlocks)
    /\ place' = place + 1
    /\ UNCHANGED <<ctx, step, flightRest, lostRest, ackArg, sackArg, lateRest, total, bufferVars, acked>>

(* MoveFlightToLost begins at the front of the lost list.                  *)
MarkEnd ==
    /\ step = "mark"
    /\ place > Len(ctx.flightBlocks)
    /\ step' = "splice"
    /\ place' = 0
    /\ UNCHANGED <<ctx, flightRest, lostRest, ackArg, sackArg, lateRest, total, bufferVars, acked>>

(* The inner loop of MoveFlightToLost: from prev on, over the lost blocks  *)
(* that begin before the end of b.                                         *)
PlaceFor(list, from, b) ==
    CHOOSE i \in from .. Len(list) :
        /\ \A j \in (from + 1) .. i : b.end > list[j].start
        /\ i < Len(list) => b.end <= list[i + 1].start

(* One turn of the outer loop: place is the index of prev, 0 for NULL.     *)
SpliceBlock ==
    /\ step = "splice"
    /\ lateRest # <<>>
    /\ LET at == PlaceFor(ctx.lostBlocks, place, Head(lateRest)) IN
        /\ ctx' = [ctx EXCEPT !.lostBlocks = InsertAt(@, at + 1, Head(lateRest))]
        /\ place' = at + 1
    /\ lateRest' = Tail(lateRest)
    /\ UNCHANGED <<step, flightRest, lostRest, ackArg, sackArg, total, bufferVars, acked>>

\* Mutant of MarkCounted: the lost counter is not raised.
MarkUncounted(c) == [c EXCEPT !.flight = @ - total]

MarkCounted(c) == [c EXCEPT !.flight = @ - total, !.lost = @ + total]

SpliceEnd ==
    /\ step = "splice"
    /\ lateRest = <<>>
    /\ ctx' = MarkCounted(ctx)
    /\ LocalsGone
    /\ UNCHANGED <<bufferVars, acked>>

-----------------------------------------------------------------------------
\* Mutant of PopCompleteBuffers: a buffer goes back once its first byte is acked.
PopBegunBuffers(seen) ==
    /\ step = "idle"
    /\ \E n \in 1 .. Len(buffers) :
            /\ \A i \in 1 .. n : buffers[i].start < seen
            /\ n < Len(buffers) => buffers[n + 1].start >= seen
            /\ buffers' = SubSeq(buffers, n + 1, Len(buffers))
            /\ curr' = IF curr <= n THEN 0 ELSE curr - n
    /\ UNCHANGED <<ctx, bufferStreamPos, unSendLength, acked, locals>>

(* SendQueuePopCompleteBuffers: off the front while the end is below the   *)
(* ack position.  A popped curr has no successor any more: curr is NULL.   *)
PopCompleteBuffers(seen) ==
    /\ step = "idle"
    /\ \E n \in 1 .. Len(buffers) :
            /\ \A i \in 1 .. n : buffers[i].end <= seen
            /\ n < Len(buffers) => buffers[n + 1].end > seen
            /\ buffers' = SubSeq(buffers, n + 1, Len(buffers))
            /\ curr' = IF curr <= n THEN 0 ELSE curr - n
    /\ UNCHANGED <<ctx, bufferStreamPos, unSendLength, acked, locals>>

-----------------------------------------------------------------------------
BlockSet(list) == {list[i] : i \in DOMAIN list}

Ascending(list) == \A i \in 1 .. (Len(list) - 1) : list[i].end <= list[i + 1].start

=============================================================================
