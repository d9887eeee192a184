------------------------------ MODULE RecvQueue ------------------------------
(****************************************************************************)
(* The receive side of a package connection: RecvQueue.imp.inl and the part *)
(* of PackageConnection.imp.inl that feeds it and hands buffers back to the *)
(* application (PushPackage, RecvTimerCallback, NotifyRecvReadyBuffers).    *)
(*                                                                          *)
(* Packages are handled by several threads.  Saving the payload, moving the *)
(* ack position, taking complete buffers off the queue and queueing them    *)
(* for the callbacks are separate lock sections, so every thread goes       *)
(* through them as separate steps.                                          *)
(*                                                                          *)
(* The byte at stream position p is represented by p itself: a buffer's     *)
(* data maps an offset to the position whose byte was copied there, 0 if    *)
(* none was.  The blocks received ahead of the ack position are a set of    *)
(* ranges (RecvList.tla shows that the list code has this effect).          *)
(****************************************************************************)
EXTENDS Integers, Sequences, FiniteSets

CONSTANTS
    InitStreamPos,  \* first stream position, PackageConnectionCreate passes 1
    Mtu,            \* longest payload of one package
    Segments,       \* the payloads [start, end) the peer's send queue cut
    BufferIds,      \* the application's receive buffers
    BufferLen,      \* BufferLen[id] is the length of a buffer
    Threads,        \* the threads that run package and timer callbacks
    MaxSackRanges   \* PACKAGE_SESSIONDATA_SACK_RANGE_MAX_COUNT, 10 in the code

ASSUME RecvQueueAssumption ==
    /\ InitStreamPos \in Nat \ {0}
    /\ Mtu \in Nat \ {0}
    /\ \A s \in Segments : s \in [start : Nat, end : Nat] /\ s.start < s.end
    /\ \A s \in Segments : InitStreamPos <= s.start /\ s.end - s.start <= Mtu
    /\ \A s, u \in Segments : s = u \/ s.end <= u.start \/ u.end <= s.start
    /\ BufferLen \in [BufferIds -> Nat \ {0}]
    /\ MaxSackRanges \in Nat \ {0}

VARIABLES
    ackStreamPos, blocks, latest,              \* recvBlock, under lockRecvBlock
    readStreamPos, endStreamPos, buffers,      \* recvStream, under lockRecvStream
    ready, readyStreamPos, onNotifying,        \* recvReadyQueue
    recvTimer,                                 \* TRUE while the receive timer is armed
    pc, job,                                   \* per thread: next step, its package
    delivered                                  \* what the callbacks handed over

blockVars == <<ackStreamPos, blocks, latest>>
streamVars == <<readStreamPos, endStreamPos, buffers>>
readyVars == <<ready, readyStreamPos, onNotifying>>
vars == <<blockVars, streamVars, readyVars, recvTimer, pc, job, delivered>>

-----------------------------------------------------------------------------
BytesOf(r) == r.start .. (r.end - 1)

First(S) == CHOOSE r \in S : \A s \in S : r.start <= s.start

MaxPos(x, y) == IF x < y THEN y ELSE x
MinPos(x, y) == IF x < y THEN x ELSE y

\* RECV_BLOCK_RELATIVE_POS_INCLUDE or _INTERSECT: overlapping or adjacent.
Touches(r, s) == r.start <= s.end /\ s.start <= r.end

NoJob == [start |-> 0, end |-> 0, part |-> FALSE, force |-> FALSE, seen |-> 0, bufs |-> <<>>]

\* recvBlock.latest points to no block.
NoBlock == [start |-> 0, end |-> 0]

(* RecvQueueCreate                                                         *)
Init ==
    /\ ackStreamPos = InitStreamPos
    /\ blocks = {}
    /\ latest = NoBlock
    /\ readStreamPos = InitStreamPos
    /\ endStreamPos = InitStreamPos
    /\ buffers = <<>>
    /\ ready = <<>>
    /\ readyStreamPos = InitStreamPos
    /\ onNotifying = FALSE
    /\ recvTimer = FALSE
    /\ pc = [t \in Threads |-> "idle"]
    /\ job = [t \in Threads |-> NoJob]
    /\ delivered = <<>>

(* RecvQueueAddBuffer: refused with ALREADY_EXISTS while id is queued.  The *)
(* application offers a buffer again only after its callback.              *)
IsQueued(id, list) == \E i \in DOMAIN list : list[i].id = id

AddBuffer(id) ==
    /\ ~IsQueued(id, buffers)
    /\ ~IsQueued(id, ready)
    /\ \A t \in Threads : ~IsQueued(id, job[t].bufs)
    /\ buffers' = Append(buffers, [id |-> id, len |-> BufferLen[id], start |-> 0, end |-> 0,
                                   data |-> [o \in 0 .. (BufferLen[id] - 1) |-> 0]])
    /\ UNCHANGED <<blockVars, readStreamPos, endStreamPos, readyVars, recvTimer, pc, job, delivered>>

-----------------------------------------------------------------------------
(* RecvQueueSavePayload                                                    *)

(* Where buffer i begins: buffers follow each other from readStreamPos, so  *)
(* it is as far from there as the buffers before i have places.            *)
BufferBegin(i) ==
    readStreamPos + Cardinality(UNION {{k} \X (0 .. (buffers[k].len - 1)) : k \in 1 .. (i - 1)})

BufferSpace == BufferBegin(Len(buffers) + 1)

\* Mutant of SavedEnd: the whole payload counts as saved.
WholeSavedEnd(s) == s.end

(* The bytes of a payload that are kept: those below readStreamPos were    *)
(* handed over before and count as saved, the others need a buffer.        *)
SavedEnd(s) == MaxPos(MinPos(s.end, readStreamPos), MinPos(s.end, BufferSpace))

\* Mutant of SaveInto: the copy is not cut at the end of the buffer.
SavePastEnd(i, s) ==
    LET b     == buffers[i]
        begin == BufferBegin(i)
        at    == {p - begin : p \in {q \in BytesOf(s) : q >= begin}}
    IN  IF begin >= s.end \/ begin + b.len <= s.start THEN b
        ELSE [b EXCEPT !.data = [o \in DOMAIN b.data \cup at |->
                                     IF o \in at THEN begin + o ELSE b.data[o]],
                       !.end  = MaxPos(b.end, s.end)]

SaveInto(i, s) ==
    LET b     == buffers[i]
        begin == BufferBegin(i)
        hit   == {p \in BytesOf(s) : p >= begin /\ p < begin + b.len}
    IN  IF hit = {} THEN b
        ELSE [b EXCEPT !.data = [o \in DOMAIN b.data |->
                                     IF begin + o \in hit THEN begin + o ELSE b.data[o]],
                       !.end  = MaxPos(b.end, MinPos(s.end, begin + b.len))]

(* RecvQueueWriteData, first half.  A package that is old by the ack       *)
(* position seen before the lock stops there; one that was not old then    *)
(* may be overtaken, so every package can come this far.  A payload that   *)
(* finds no buffer is dropped (OUT_OF_BUFFER).                             *)
SavePayload(t, s) ==
    /\ pc[t] = "idle"
    /\ s.start < SavedEnd(s)
    /\ buffers' = [i \in DOMAIN buffers |-> SaveInto(i, s)]
    /\ endStreamPos' = IF SavedEnd(s) > readStreamPos
                       THEN MaxPos(endStreamPos, SavedEnd(s)) ELSE endStreamPos
    /\ job' = [job EXCEPT ![t] = [NoJob EXCEPT
                  !.start = s.start, !.end = SavedEnd(s),
                  !.part = SavedEnd(s) < s.end, !.force = s.end - s.start < Mtu]]
    /\ pc' = [pc EXCEPT ![t] = "update"]
    /\ UNCHANGED <<blockVars, readStreamPos, readyVars, recvTimer, delivered>>

-----------------------------------------------------------------------------
(* RecvQueueUpdateStreamPos and the block list                             *)

(* In order: the ack position moves to the end of what was saved, and over *)
(* the first block when that touches it.  Only the first block is tried.   *)
InOrder(r) ==
    LET f     == First(blocks)
        joins == blocks # {} /\ Touches(f, r)
    IN  /\ ackStreamPos' = IF joins THEN MaxPos(r.end, f.end) ELSE r.end
        /\ blocks' = IF joins THEN blocks \ {f} ELSE blocks
        /\ latest' = IF joins /\ latest = f THEN NoBlock ELSE latest

(* RecvQueueAddToBlocks and RecvQueueBlocksMerge: join the range with all  *)
(* blocks it touches.  Only a new block, or one the range includes, is     *)
(* made the latest; a latest block that is joined stays the latest.        *)
Merged(r, touched) ==
    LET lo == First(touched)
        hi == CHOOSE b \in touched : \A c \in touched : c.end <= b.end
    IN  [start |-> MinPos(r.start, lo.start), end |-> MaxPos(r.end, hi.end)]

AddToBlocks(r) ==
    LET touched == {b \in blocks : Touches(b, r)}
        merged  == IF touched = {} THEN r ELSE Merged(r, touched)
        found   == First(touched)
    IN  /\ blocks' = (blocks \ touched) \cup {merged}
        /\ latest' = IF \/ touched = {}
                        \/ latest \in touched
                        \/ r.start <= found.start /\ found.end <= r.end
                     THEN merged ELSE latest

InOldBlock(r) == \E b \in blocks : b.start <= r.start /\ r.end <= b.end

(* RecvQueueUpdateStreamPos, then the branch of PackageConnectionPushPackage *)
(* on the type: an old package that was saved whole ends here, the others  *)
(* (IN_ORDER, LOST_ORDER, PART) restart the receive timer and go on.       *)
UpdateStreamPos(t) ==
    LET r     == job[t]
        isOld == r.end <= ackStreamPos \/ (r.start > ackStreamPos /\ InOldBlock(r))
        goOn  == ~isOld \/ r.part
    IN  /\ pc[t] = "update"
        /\ \/ isOld /\ UNCHANGED blockVars
           \/ ~isOld /\ r.start <= ackStreamPos
                     /\ InOrder([start |-> r.start, end |-> r.end])
           \/ ~isOld /\ r.start > ackStreamPos
                     /\ AddToBlocks([start |-> r.start, end |-> r.end])
                     /\ UNCHANGED ackStreamPos
        /\ recvTimer' = (recvTimer \/ goOn)
        /\ pc' = [pc EXCEPT ![t] = IF goOn THEN "pop" ELSE "idle"]
        /\ job' = [job EXCEPT ![t] = IF goOn THEN [r EXCEPT !.seen = ackStreamPos'] ELSE NoJob]
        /\ UNCHANGED <<streamVars, readyVars, delivered>>

(* RecvQueueGetAckInfo: the ack position and at most MaxSackRanges blocks, *)
(* the first ones and, if it is not among them, the latest one.            *)
FirstBlocks(n) == {b \in blocks : Cardinality({c \in blocks : c.start < b.start}) < n}

AckInfo ==
    [ack  |-> ackStreamPos,
     sack |-> IF latest = NoBlock \/ latest \in FirstBlocks(MaxSackRanges)
              THEN FirstBlocks(MaxSackRanges)
              ELSE FirstBlocks(MaxSackRanges - 1) \cup {latest}]

-----------------------------------------------------------------------------
\* Mutant of RecvTimerFires: only full buffers are popped.
RecvTimerUnforced(t) ==
    /\ recvTimer
    /\ pc[t] = "idle"
    /\ recvTimer' = FALSE
    /\ pc' = [pc EXCEPT ![t] = "pop"]
    /\ job' = [job EXCEPT ![t] = [NoJob EXCEPT !.seen = ackStreamPos]]
    /\ UNCHANGED <<blockVars, streamVars, readyVars, delivered>>

(* PackageConnectionRecvTimerCallback: one shot, pops by force.            *)
RecvTimerFires(t) ==
    /\ recvTimer
    /\ pc[t] = "idle"
    /\ recvTimer' = FALSE
    /\ pc' = [pc EXCEPT ![t] = "pop"]
    /\ job' = [job EXCEPT ![t] = [NoJob EXCEPT !.force = TRUE, !.seen = ackStreamPos]]
    /\ UNCHANGED <<blockVars, streamVars, readyVars, delivered>>

(* PackageConnectionPushPackage on a FIN without payload: type IN_ORDER, so *)
(* the timer restarts and the buffers are popped by force.                 *)
FinPackage(t) ==
    /\ pc[t] = "idle"
    /\ recvTimer' = TRUE
    /\ pc' = [pc EXCEPT ![t] = "pop"]
    /\ job' = [job EXCEPT ![t] = [NoJob EXCEPT !.force = TRUE, !.seen = ackStreamPos]]
    /\ UNCHANGED <<blockVars, streamVars, readyVars, delivered>>

(* RecvQueuePopCompleteBuffers: take buffers off the front while they are  *)
(* full and in order, or, by force, while everything stored is in order.   *)
(* The ack position used was read before the lock was taken.               *)
PopStart(i) == IF i = 1 THEN readStreamPos ELSE buffers[i - 1].end

CanPop(i, ack, force) ==
    \/ buffers[i].end = PopStart(i) + buffers[i].len /\ buffers[i].end <= ack
    \/ force /\ buffers[i].end # 0 /\ endStreamPos <= ack

PopCompleteBuffers(t) ==
    \E ack \in job[t].seen .. ackStreamPos :
    \E n \in 0 .. Len(buffers) :
        /\ pc[t] = "pop"
        /\ \A i \in 1 .. n : CanPop(i, ack, job[t].force)
        /\ n < Len(buffers) => ~CanPop(n + 1, ack, job[t].force)
        /\ buffers' = SubSeq(buffers, n + 1, Len(buffers))
        /\ readStreamPos' = IF n = 0 THEN readStreamPos ELSE buffers[n].end
        /\ job' = [job EXCEPT ![t] = [NoJob EXCEPT
                      !.bufs = [i \in 1 .. n |-> [buffers[i] EXCEPT !.start = PopStart(i)]]]]
        /\ pc' = [pc EXCEPT ![t] = IF n = 0 THEN "idle" ELSE "queue"]
        /\ UNCHANGED <<blockVars, endStreamPos, readyVars, recvTimer, delivered>>

-----------------------------------------------------------------------------
(* PackageConnectionNotifyRecvReadyBuffers                                 *)

\* Mutant of QueueReady: popped buffers go to the end of the queue.
QueueReadyLast(t) ==
    /\ pc[t] = "queue"
    /\ ready' = ready \o job[t].bufs
    /\ onNotifying' = TRUE
    /\ pc' = [pc EXCEPT ![t] = IF onNotifying THEN "idle" ELSE "notify"]
    /\ job' = [job EXCEPT ![t] = NoJob]
    /\ UNCHANGED <<blockVars, streamVars, readyStreamPos, recvTimer, delivered>>

(* Queue the popped buffers behind the last ready buffer that ends before  *)
(* them.  One thread at a time runs the callbacks.                         *)
QueueReady(t) ==
    LET bufs == job[t].bufs
        at   == CHOOSE i \in 0 .. Len(ready) :
                    /\ i > 0 => bufs[1].start >= ready[i].end
                    /\ \A j \in (i + 1) .. Len(ready) : bufs[1].start < ready[j].end
    IN  /\ pc[t] = "queue"
        /\ ready' = SubSeq(ready, 1, at) \o bufs \o SubSeq(ready, at + 1, Len(ready))
        /\ onNotifying' = TRUE
        /\ pc' = [pc EXCEPT ![t] = IF onNotifying THEN "idle" ELSE "notify"]
        /\ job' = [job EXCEPT ![t] = NoJob]
        /\ UNCHANGED <<blockVars, streamVars, readyStreamPos, recvTimer, delivered>>

\* Mutants of NotifyNext: the first buffer is taken whatever its position;
\* onNotifying is never cleared.
NotifyAny(t) ==
    /\ pc[t] = "notify"
    /\ IF ready # <<>>
       THEN /\ ready' = Tail(ready)
            /\ readyStreamPos' = Head(ready).end
            /\ job' = [job EXCEPT ![t] = [NoJob EXCEPT !.bufs = <<Head(ready)>>]]
            /\ pc' = [pc EXCEPT ![t] = "callback"]
            /\ UNCHANGED onNotifying
       ELSE /\ onNotifying' = FALSE
            /\ pc' = [pc EXCEPT ![t] = "idle"]
            /\ UNCHANGED <<ready, readyStreamPos, job>>
    /\ UNCHANGED <<blockVars, streamVars, recvTimer, delivered>>

NotifyForever(t) ==
    /\ pc[t] = "notify"
    /\ IF ready # <<>> /\ Head(ready).start = readyStreamPos
       THEN /\ ready' = Tail(ready)
            /\ readyStreamPos' = Head(ready).end
            /\ job' = [job EXCEPT ![t] = [NoJob EXCEPT !.bufs = <<Head(ready)>>]]
            /\ pc' = [pc EXCEPT ![t] = "callback"]
       ELSE /\ pc' = [pc EXCEPT ![t] = "idle"]
            /\ UNCHANGED <<ready, readyStreamPos, job>>
    /\ UNCHANGED <<onNotifying, blockVars, streamVars, recvTimer, delivered>>

(* Take the next buffer if it is the one the stream continues with.        *)
NotifyNext(t) ==
    /\ pc[t] = "notify"
    /\ IF ready # <<>> /\ Head(ready).start = readyStreamPos
       THEN /\ ready' = Tail(ready)
            /\ readyStreamPos' = Head(ready).end
            /\ job' = [job EXCEPT ![t] = [NoJob EXCEPT !.bufs = <<Head(ready)>>]]
            /\ pc' = [pc EXCEPT ![t] = "callback"]
            /\ UNCHANGED onNotifying
       ELSE /\ onNotifying' = FALSE
            /\ pc' = [pc EXCEPT ![t] = "idle"]
            /\ UNCHANGED <<ready, readyStreamPos, job>>
    /\ UNCHANGED <<blockVars, streamVars, recvTimer, delivered>>

(* The receive callback, outside every lock.                               *)
Callback(t) ==
    LET b == job[t].bufs[1] IN
    /\ pc[t] = "callback"
    /\ delivered' = delivered \o [i \in 1 .. (b.end - b.start) |-> b.data[i - 1]]
    /\ pc' = [pc EXCEPT ![t] = "notify"]
    /\ job' = [job EXCEPT ![t] = NoJob]
    /\ UNCHANGED <<blockVars, streamVars, readyVars, recvTimer>>

ThreadStep(t) ==
    \/ UpdateStreamPos(t)
    \/ PopCompleteBuffers(t)
    \/ QueueReady(t)
    \/ NotifyNext(t)
    \/ Callback(t)

Next ==
    \/ \E id \in BufferIds : AddBuffer(id)
    \/ \E t \in Threads, s \in Segments : SavePayload(t, s)
    \/ \E t \in Threads : RecvTimerFires(t)
    \/ \E t \in Threads : FinPackage(t)
    \/ \E t \in Threads : ThreadStep(t)

(* A thread inside a package or timer callback runs on.  An armed timer    *)
(* fires although packages keep arriving: the loop that runs the callbacks *)
(* serves its timers on every turn.  The peer sends a payload again until  *)
(* it is acknowledged and the network does not lose every copy.            *)
Fairness ==
    /\ \A t \in Threads : WF_vars(ThreadStep(t))
    /\ \A s \in Segments :
        SF_vars(s.end > ackStreamPos /\ \E t \in Threads : SavePayload(t, s))
    /\ SF_vars(\E t \in Threads : RecvTimerFires(t))

Spec == Init /\ [][Next]_vars /\ Fairness

-----------------------------------------------------------------------------
(* Properties                                                              *)

StreamRange == [start : Nat, end : Nat]

BufferType(b) ==
    /\ b.id \in BufferIds
    /\ b.len = BufferLen[b.id]
    /\ b.start \in Nat /\ b.end \in Nat
    /\ b.data \in [0 .. (b.len - 1) -> Nat]

TypeOK ==
    /\ {ackStreamPos, readStreamPos, endStreamPos, readyStreamPos} \subseteq Nat
    /\ blocks \subseteq StreamRange
    /\ latest \in StreamRange
    /\ {onNotifying, recvTimer} \subseteq BOOLEAN
    /\ \A i \in DOMAIN buffers : BufferType(buffers[i])
    /\ \A i \in DOMAIN ready : BufferType(ready[i])
    /\ pc \in [Threads -> {"idle", "update", "pop", "queue", "notify", "callback"}]
    /\ \A t \in Threads : \A i \in DOMAIN job[t].bufs : BufferType(job[t].bufs[i])
    /\ \A i \in DOMAIN delivered : delivered[i] \in Nat

(* The application receives the bytes of the stream in order, without gap, *)
(* repetition or a byte that was never written into the buffer, however    *)
(* packages are duplicated and reordered and threads interleave.           *)
DeliveredInOrder ==
    \A i \in DOMAIN delivered : delivered[i] = InitStreamPos + i - 1

(* What the peer is told is received is really kept: every position below  *)
(* ackStreamPos that was not taken off the queue, and every position of a  *)
(* block reported in a SACK, is in a queued buffer at its place.  The peer *)
(* drops these blocks and will never send them again.                      *)
AcknowledgedIsStored ==
    \A p \in (readStreamPos .. (ackStreamPos - 1)) \cup UNION {BytesOf(b) : b \in blocks} :
        \E i \in DOMAIN buffers :
            /\ p >= BufferBegin(i) /\ p < BufferBegin(i) + buffers[i].len
            /\ buffers[i].data[p - BufferBegin(i)] = p

(* The blocks ahead of ackStreamPos never touch it or each other, so trying *)
(* only the first block when a package is in order is enough: no received  *)
(* range stays behind unacknowledged.                                      *)
BlocksAheadOfAck ==
    /\ \A b \in blocks : ackStreamPos < b.start /\ b.start < b.end
    /\ \A b, c \in blocks : b = c \/ ~Touches(b, c)

(* When every thread has returned nothing is left to hand over: a thread   *)
(* that found onNotifying set relied on another one to see its buffers.    *)
(* And when the timer is not armed and no block waits for an earlier       *)
(* payload, what was acknowledged was delivered, to the last byte: the     *)
(* timer fires once, and a payload that arrives while its callback pops    *)
(* has armed it again.                                                     *)
NothingStranded ==
    (\A t \in Threads : pc[t] = "idle") =>
        /\ ready = <<>>
        /\ ~recvTimer /\ blocks = {} => Len(delivered) = ackStreamPos - InitStreamPos

(* Every byte that was acknowledged to the peer is handed to the           *)
(* application in the end, also from a buffer that never fills: again and  *)
(* again the callbacks catch up with the ack position.                     *)
AcknowledgedIsDelivered == []<>(Len(delivered) = ackStreamPos - InitStreamPos)

=============================================================================
