------------------------------ MODULE SendQueue ------------------------------
(****************************************************************************)
(* The send side of a package connection: SendQueue.imp.inl.                *)
(*                                                                          *)
(* The application hands over buffers; the queue cuts them into blocks of   *)
(* at most one mtu, moves every block between a flight list and a lost list *)
(* until the peer acknowledges it, and gives a buffer back to the           *)
(* application when everything below its end is acknowledged.               *)
(*                                                                          *)
(* Both block lists and the buffer list are kept in stream order by the     *)
(* code; here they are sets of ranges and the head of a list is the range   *)
(* with the least start. (SendQueueList.tla shows that the list code has    *)
(* this effect.) A range [start, end) stands for a block or a buffer; its   *)
(* bytes are the stream positions start .. end-1, so the number of          *)
(* positions of a set of disjoint ranges is the sum of their lengths.       *)
(****************************************************************************)
EXTENDS SendQueueParams, FiniteSets

VARIABLES
    \* sendContext, under lockSendContext
    ackStreamPos, streamPos, flightBlocks, lostBlocks, flight, lost,
    latestAckStreamPos, prevDupAckStreamPos, dupAckTimes,
    \* sendingBuffers, under lockSendingBuffers
    bufferStreamPos, unSendLength, offsetStreamPos, buffers,
    \* history: the positions some processed ack or sack has covered
    acked

contextVars == <<ackStreamPos, streamPos, flightBlocks, lostBlocks, flight, lost,
                 latestAckStreamPos, prevDupAckStreamPos, dupAckTimes>>
bufferVars == <<bufferStreamPos, unSendLength, offsetStreamPos, buffers>>
vars == <<contextVars, bufferVars, acked>>

-----------------------------------------------------------------------------
(* Ranges of stream positions.                                             *)

StreamRange == [start : Nat, end : Nat]

\* What a peer can name: non-empty ranges of positions the bound allows.
Ranges(hi) ==
    {r \in [start : InitStreamPos .. hi, end : InitStreamPos .. hi] : r.start < r.end}

BytesOf(r) == r.start .. (r.end - 1)

Bytes(S) == UNION {BytesOf(r) : r \in S}

\* Sum of the lengths of a set of disjoint ranges.
TotalLength(S) == Cardinality(Bytes(S))

\* r is the head of the list S, which is kept in stream order.
IsFirst(r, S) == r \in S /\ \A s \in S : r.start <= s.start

Blocks == flightBlocks \cup lostBlocks

-----------------------------------------------------------------------------
(* SendQueueCreate                                                         *)

Init ==
    /\ ackStreamPos = InitStreamPos
    /\ streamPos = InitStreamPos
    /\ flightBlocks = {}
    /\ lostBlocks = {}
    /\ flight = 0
    /\ lost = 0
    /\ latestAckStreamPos = 0
    /\ prevDupAckStreamPos = 0
    /\ dupAckTimes = 0
    /\ bufferStreamPos = InitStreamPos
    /\ unSendLength = 0
    /\ offsetStreamPos = InitStreamPos
    /\ buffers = {}
    /\ acked = {}

(* SendQueueAddBuffer: append a buffer of len bytes.                       *)
AddBuffer(len) ==
    /\ len > 0
    /\ bufferStreamPos + len <= MaxStreamPos
    /\ buffers' = buffers \cup {[start |-> bufferStreamPos, end |-> bufferStreamPos + len]}
    /\ unSendLength' = unSendLength + len
    /\ bufferStreamPos' = bufferStreamPos + len
    /\ UNCHANGED <<contextVars, offsetStreamPos, acked>>

(* sendingBuffers.curr: the buffer that still has bytes in no block.       *)
IsCurr(b) == b \in buffers /\ b.start <= offsetStreamPos /\ offsetStreamPos < b.end

(* SendQueueGenerateBlock: at most one mtu, never across a buffer's end.   *)
GeneratedBlock(curr) ==
    [start |-> offsetStreamPos,
     end   |-> IF curr.end - offsetStreamPos <= Mtu
               THEN curr.end ELSE offsetStreamPos + Mtu]

(* SendQueueFillPayload with an empty lost list: a new block goes to the   *)
(* end of the flight list.                                                 *)
FillNewPayload ==
    /\ lostBlocks = {}
    /\ unSendLength > 0
    /\ \E curr \in buffers :
        /\ IsCurr(curr)
        /\ LET b == GeneratedBlock(curr) IN
            /\ flightBlocks' = flightBlocks \cup {b}
            /\ flight' = flight + (b.end - b.start)
            /\ streamPos' = streamPos + (b.end - b.start)
            /\ offsetStreamPos' = b.end
            /\ unSendLength' = unSendLength - (b.end - b.start)
    /\ UNCHANGED <<ackStreamPos, lostBlocks, lost, latestAckStreamPos,
                   prevDupAckStreamPos, dupAckTimes, bufferStreamPos, buffers, acked>>

(* SendQueueFillPayload with a lost block: it goes back to flight first.   *)
FillLostPayload ==
    /\ \E b \in lostBlocks :
        /\ IsFirst(b, lostBlocks)
        /\ lostBlocks' = lostBlocks \ {b}
        /\ flightBlocks' = flightBlocks \cup {b}
        /\ flight' = flight + (b.end - b.start)
        /\ lost' = lost - (b.end - b.start)
    /\ UNCHANGED <<ackStreamPos, streamPos, latestAckStreamPos, prevDupAckStreamPos,
                   dupAckTimes, bufferVars, acked>>

-----------------------------------------------------------------------------
(* SendQueueConfirmRange and its helper.                                   *)

\* Mutant of CheckBlockStateByAck: a block confirmed in part counts as confirmed.
PartIsAck(b, ack, sack) ==
    IF b.start < ack \/ \E r \in sack : r.start <= b.start /\ b.end <= r.end THEN "ACK"
    ELSE IF \E r \in sack : b.end <= r.start THEN "PREV"
    ELSE "OUT_OF_RANGE"

(* CheckBlockStateByAck.  The ranges of a SACK are disjoint and ascending, *)
(* so the loop over them finds a containing range if there is one, and     *)
(* else stops at the first range that lies behind the block.               *)
CheckBlockStateByAck(b, ack, sack) ==
    CASE b.end <= ack -> "ACK"
      [] b.end > ack /\ b.start < ack -> "LOST"
      [] b.start >= ack /\ b.end > ack ->
           IF \E r \in sack : r.start <= b.start /\ b.end <= r.end THEN "ACK"
           ELSE IF \E r \in sack : b.end <= r.start THEN "PREV"
           ELSE "OUT_OF_RANGE"

(* The duplicate-ack counter after one more ack: <<latest, times>>.        *)
CountDupAck(ack) ==
    IF prevDupAckStreamPos >= ack \/ latestAckStreamPos > ack
    THEN <<latestAckStreamPos, dupAckTimes>>
    ELSE IF latestAckStreamPos < ack
    THEN <<ack, 1>>
    ELSE <<latestAckStreamPos, (dupAckTimes + 1) % DupAckModulus>>

(* The state the walk gives to a block: the fourth equal ack declares the  *)
(* block at that position lost, whatever the sack says.                    *)
WalkState(b, count, ack, sack) ==
    IF b.start = count[1] /\ count[2] = 4
    THEN "LOST" ELSE CheckBlockStateByAck(b, ack, sack)

(* The blocks the walk handles: it visits both lists in stream order and   *)
(* stops at the first block that is out of range.                          *)
Walked(count, ack, sack) ==
    {b \in Blocks : \A c \in Blocks :
        c.start <= b.start => WalkState(c, count, ack, sack) # "OUT_OF_RANGE"}

MaxPos(x, y) == IF x < y THEN y ELSE x

(* SendQueueConfirmRange.  An ack below ackStreamPos that carries no sack  *)
(* returns at once, but that test runs before lockSendContext is taken, so *)
(* another thread may have raised ackStreamPos from the value seen there.  *)
ConfirmRange(ack, sack) ==
    /\ \E seen \in InitStreamPos .. ackStreamPos : ack >= seen \/ sack # {}
    /\ LET count   == CountDupAck(ack)
           newAck  == MaxPos(ackStreamPos, ack)
           walked  == Walked(count, newAck, sack)
           isAcked == {b \in walked : WalkState(b, count, newAck, sack) = "ACK"}
           isLost  == {b \in walked : WalkState(b, count, newAck, sack) = "LOST"}
           dupHit  == count[2] = 4 /\ \E b \in walked : b.start = count[1]
       IN /\ ackStreamPos' = newAck
          /\ flightBlocks' = flightBlocks \ (isAcked \cup isLost)
          /\ lostBlocks' = (lostBlocks \ isAcked) \cup isLost
          /\ flight' = flight - TotalLength(flightBlocks \cap (isAcked \cup isLost))
          /\ lost' = lost - TotalLength(lostBlocks \cap isAcked)
                          + TotalLength(flightBlocks \cap isLost)
          /\ latestAckStreamPos' = IF dupHit THEN 0 ELSE count[1]
          /\ prevDupAckStreamPos' = IF dupHit THEN count[1] ELSE prevDupAckStreamPos
          /\ dupAckTimes' = IF dupHit THEN 0 ELSE count[2]
          /\ acked' = acked \cup (InitStreamPos .. (ack - 1)) \cup Bytes(sack)
    /\ UNCHANGED <<streamPos, bufferVars>>

-----------------------------------------------------------------------------
(* SendQueueMarkRangeTimeout and MoveFlightToLost: the blocks sent longer  *)
(* than rto ago become lost.  Which blocks that are depends on send times  *)
(* and on the rto estimate: any non-empty part of the flight list.         *)
MarkRangeTimeout(late) ==
    /\ late # {}
    /\ flightBlocks' = flightBlocks \ late
    /\ lostBlocks' = lostBlocks \cup late
    /\ flight' = flight - TotalLength(late)
    /\ lost' = lost + TotalLength(late)
    /\ UNCHANGED <<ackStreamPos, streamPos, latestAckStreamPos, prevDupAckStreamPos,
                   dupAckTimes, bufferVars, acked>>

\* Mutant of PopCompleteBuffers: a buffer goes back once its first byte is acked.
PopBegunBuffers(seen) ==
    /\ \E b \in buffers : b.start < seen
    /\ buffers' = {b \in buffers : b.start >= seen}
    /\ UNCHANGED <<contextVars, bufferStreamPos, unSendLength, offsetStreamPos, acked>>

(* SendQueuePopCompleteBuffers: buffers below the ack position go back to  *)
(* the application.  ackStreamPos is read before the lock is taken.        *)
PopCompleteBuffers(seen) ==
    /\ \E b \in buffers : b.end <= seen
    /\ buffers' = {b \in buffers : b.end > seen}
    /\ UNCHANGED <<contextVars, bufferStreamPos, unSendLength, offsetStreamPos, acked>>

-----------------------------------------------------------------------------
(* What a peer can acknowledge: a position up to streamPos and separate    *)
(* ranges above it.                                                        *)
Sacks(ack) ==
    {S \in SUBSET {r \in Ranges(streamPos) : r.start > ack} :
        /\ Cardinality(S) <= MaxSackRanges
        /\ \A r, s \in S : r = s \/ r.end < s.start \/ s.end < r.start}

Next ==
    \/ \E len \in 1 .. (MaxStreamPos - bufferStreamPos) : AddBuffer(len)
    \/ FillNewPayload
    \/ FillLostPayload
    \/ \E ack \in InitStreamPos .. streamPos : \E sack \in Sacks(ack) : ConfirmRange(ack, sack)
    \/ \E late \in SUBSET flightBlocks : MarkRangeTimeout(late)
    \/ \E seen \in InitStreamPos .. ackStreamPos : PopCompleteBuffers(seen)

Spec == Init /\ [][Next]_vars

-----------------------------------------------------------------------------
(* Properties                                                              *)

TypeOK ==
    /\ ackStreamPos \in Nat
    /\ streamPos \in Nat
    /\ flightBlocks \in SUBSET StreamRange
    /\ lostBlocks \in SUBSET StreamRange
    /\ flight \in Nat
    /\ lost \in Nat
    /\ latestAckStreamPos \in Nat
    /\ prevDupAckStreamPos \in Nat
    /\ dupAckTimes \in 0 .. (DupAckModulus - 1)
    /\ bufferStreamPos \in Nat
    /\ unSendLength \in Nat
    /\ offsetStreamPos \in Nat
    /\ buffers \in SUBSET StreamRange
    /\ acked \in SUBSET Nat

(* The counters agree with the lists, as the debug asserts around the walk *)
(* of SendQueueConfirmRange say: flight and lost are the sums of the       *)
(* lengths of the blocks on their lists.  They gate the congestion window  *)
(* and the send loop, so a drift starves or floods the connection.         *)
FlightLostAccounting ==
    /\ flight = TotalLength(flightBlocks)
    /\ lost = TotalLength(lostBlocks)

(* No two blocks overlap, no block is on both lists, and no block is empty *)
(* or reaches beyond what was sent: what the walk in stream order and the  *)
(* sums above rely on.                                                     *)
BlocksDisjoint ==
    /\ flightBlocks \cap lostBlocks = {}
    /\ \A b \in Blocks : b.start < b.end /\ b.end <= streamPos
    /\ \A b, c \in Blocks : b = c \/ b.end <= c.start \/ c.end <= b.start

(* No byte is forgotten: every position that was sent once is in a block   *)
(* that will be sent again or timed out, unless an ack or sack covered it. *)
OutstandingTracked ==
    \A p \in InitStreamPos .. (streamPos - 1) : p \in Bytes(Blocks) \/ p \in acked

(* A block's data pointer points into the application's buffer, which the  *)
(* send callback gives back: a block on a list always lies inside a buffer *)
(* that is still queued.                                                   *)
BlocksInQueuedBuffers ==
    \A b \in Blocks : \E u \in buffers : u.start <= b.start /\ b.end <= u.end

(* The three positions agree, and while bytes are unsent the current       *)
(* buffer is queued and has bytes left: assert(leftLen) of                 *)
(* SendQueueGenerateBlock never fails and curr is never given back early.  *)
UnsentInCurrBuffer ==
    /\ streamPos = offsetStreamPos
    /\ unSendLength = bufferStreamPos - offsetStreamPos
    /\ unSendLength > 0 => \E b \in buffers : IsCurr(b)

(* Duplicate acks trigger a fast retransmission of a position at most      *)
(* once: whenever the counter is reset by a hit, the position remembered   *)
(* in prevDupAckStreamPos has moved forward, however many late copies of   *)
(* the same ack still arrive.                                              *)
FastRetransmitOnce ==
    [][(latestAckStreamPos # 0 /\ latestAckStreamPos' = 0)
         \/ prevDupAckStreamPos' # prevDupAckStreamPos
         => prevDupAckStreamPos' > prevDupAckStreamPos]_vars

=============================================================================
