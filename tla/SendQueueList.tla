---------------------------- MODULE SendQueueList ----------------------------
(****************************************************************************)
(* The lists of SendList.tla seen as the sets of SendQueue.tla: only the    *)
(* lists move by the code, and the variables of SendQueue.tla show, after   *)
(* every operation, what the lists contain.  That these variables then      *)
(* follow the specification of SendQueue.tla, in which an operation is one  *)
(* step, is the refinement.  bufferStreamPos, unSendLength and the history  *)
(* are the same in both.                                                    *)
(****************************************************************************)
EXTENDS SendQueue, Sequences

VARIABLES
    ctx,         \* sendContext with its two block lists
    bufferList,  \* sendingBuffers.buffers
    curr,        \* index of the buffer sendingBuffers.curr points to
    \* the operation that holds lockSendContext, its arguments and locals
    step, flightRest, lostRest, ackArg, sackArg, lateRest, place, total

L == INSTANCE SendList WITH buffers <- bufferList

listVars == <<ctx, bufferList, curr, step, flightRest, lostRest, ackArg, sackArg, lateRest, place, total>>

\* The SACK lists RecvQueueGetAckInfo produces: separate ranges, ascending.
SackLists(ack) ==
    {s \in UNION {[1 .. n -> {r \in Ranges(streamPos) : r.start > ack}] : n \in 0 .. MaxSackRanges} :
        \A i, j \in DOMAIN s : i < j => s[i].end < s[j].start}

\* After the step the sets are those of the lists.
ShowsLists ==
    /\ ackStreamPos' = ctx'.ackStreamPos
    /\ streamPos' = ctx'.streamPos
    /\ flightBlocks' = L!BlockSet(ctx'.flightBlocks)
    /\ lostBlocks' = L!BlockSet(ctx'.lostBlocks)
    /\ flight' = ctx'.flight
    /\ lost' = ctx'.lost
    /\ latestAckStreamPos' = ctx'.latest
    /\ prevDupAckStreamPos' = ctx'.prevDup
    /\ dupAckTimes' = ctx'.dup
    /\ offsetStreamPos' = IF curr' = 0 THEN bufferStreamPos' ELSE bufferList'[curr'].offset
    /\ buffers' = {[start |-> b.start, end |-> b.end] : b \in L!BlockSet(bufferList')}

ListInit == L!Init /\ Init

(* The steps with which an operation ends, and those in its middle.        *)
ListOperation ==
    \/ \E len \in 1 .. (MaxStreamPos - bufferStreamPos) : L!AddBuffer(len)
    \/ L!FillNewPayload
    \/ L!FillLostPayload
    \/ L!ConfirmEnd
    \/ L!SpliceEnd
    \/ \E seen \in InitStreamPos .. ctx.ackStreamPos : L!PopCompleteBuffers(seen)

ListLoop ==
    \/ \E ack \in InitStreamPos .. ctx.streamPos : \E sack \in SackLists(ack) : L!ConfirmBegin(ack, sack)
    \/ L!ConfirmBlock
    \/ L!MarkBegin
    \/ L!MarkLate
    \/ L!MarkStays
    \/ L!MarkEnd
    \/ L!SpliceBlock

ListNext == (ListOperation /\ ShowsLists) \/ (ListLoop /\ UNCHANGED vars)

ListSpec == ListInit /\ [][ListNext]_<<vars, listVars>>

-----------------------------------------------------------------------------
(* Both block lists stay in stream order without overlap through every     *)
(* walk, splice and sorted insertion: the walk of SendQueueConfirmRange    *)
(* stops at the first block out of range and would miss blocks otherwise.  *)
ListsAscending == L!Ascending(ctx.flightBlocks) /\ L!Ascending(ctx.lostBlocks)

(* Every operation on the lists has the effect SendQueue.tla gives it on   *)
(* the sets of blocks and buffers, and on all counters.                    *)
ImplementsSendQueue == Spec

=============================================================================
