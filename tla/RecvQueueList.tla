---------------------------- MODULE RecvQueueList ----------------------------
(****************************************************************************)
(* The receive queue with its block list kept twice: as the set of ranges   *)
(* of RecvQueue.tla and as the list of RecvList.tla.  Every operation that  *)
(* touches the list does so to both.                                        *)
(****************************************************************************)
EXTENDS RecvQueue

VARIABLES
    listAck,      \* recvBlock.ackStreamPos as the list code computes it
    list,         \* recvBlock.blocks
    listLatest    \* index of recvBlock.latest

L == INSTANCE RecvList WITH ackStreamPos <- listAck, latest <- listLatest

listVars == <<listAck, list, listLatest>>

ListedInit == Init /\ L!Init

ListUpdateStreamPos(t) ==
    UpdateStreamPos(t) /\ L!UpdateStreamPos([start |-> job[t].start, end |-> job[t].end])

ListedNext ==
    \/ \E t \in Threads : ListUpdateStreamPos(t)
    \/ /\ \/ \E id \in BufferIds : AddBuffer(id)
          \/ \E t \in Threads, s \in Segments : SavePayload(t, s)
          \/ \E t \in Threads :
                \/ RecvTimerFires(t)
                \/ FinPackage(t)
                \/ PopCompleteBuffers(t)
                \/ QueueReady(t)
                \/ NotifyNext(t)
                \/ Callback(t)
       /\ UNCHANGED listVars

ListedSpec == ListedInit /\ [][ListedNext]_<<vars, listVars>> /\ Fairness

(* The walk from the latest block and the two merge loops keep the list in *)
(* stream order with gaps between its blocks, and have the effect that     *)
(* RecvQueue.tla gives RecvQueueUpdateStreamPos on the set of blocks, on   *)
(* the ack position and on recvBlock.latest, which never points to a block *)
(* that was deleted.  All blocks lie ahead of the ack position, so trying  *)
(* only the first one when a package is in order is enough.                *)
ListIsBlocks ==
    /\ BlocksAheadOfAck
    /\ listAck = ackStreamPos
    /\ blocks = {list[i] : i \in DOMAIN list}
    /\ \A i \in 1 .. (Len(list) - 1) : list[i].end < list[i + 1].start
    /\ IF listLatest = 0 THEN latest = NoBlock
       ELSE listLatest \in DOMAIN list /\ latest = list[listLatest]

=============================================================================
