--------------------------- MODULE SendQueueProofs ---------------------------
(****************************************************************************)
(* Proofs about SendQueue.tla for every stream length, mtu and sequence of  *)
(* acks: the counters agree with the lists, no byte is forgotten, no block  *)
(* outlives the buffer it points into.                                      *)
(****************************************************************************)
EXTENDS SendQueue, FiniteSetTheorems, TLAPS

(* A set of non-empty disjoint ranges below hi.                            *)
WellFormed(S, hi) ==
    /\ S \subseteq StreamRange
    /\ \A b \in S : InitStreamPos <= b.start /\ b.start < b.end /\ b.end <= hi
    /\ \A b, c \in S : b = c \/ b.end <= c.start \/ c.end <= b.start

-----------------------------------------------------------------------------
(* The lengths of sets of disjoint ranges.                                 *)

\* The positions of a well-formed set are finitely many.
LEMMA BytesFinite ==
    ASSUME NEW S, NEW hi \in Nat, WellFormed(S, hi)
    PROVE  /\ IsFiniteSet(Bytes(S))
           /\ TotalLength(S) \in Nat
<1>1. Bytes(S) \subseteq 0 .. hi
  BY DEF WellFormed, Bytes, BytesOf, StreamRange
<1>2. IsFiniteSet(0 .. hi)
  BY FS_Interval
<1>3. IsFiniteSet(Bytes(S))
  BY <1>1, <1>2, FS_Subset
<1> QED
  BY <1>3, FS_CardinalityType DEF TotalLength

\* Taking a part A out of a well-formed set takes its length out.
LEMMA LengthSplit ==
    ASSUME NEW S, NEW hi \in Nat, WellFormed(S, hi), NEW A \in SUBSET S
    PROVE  TotalLength(S) = TotalLength(A) + TotalLength(S \ A)
<1>1. WellFormed(A, hi) /\ WellFormed(S \ A, hi)
  BY DEF WellFormed
<1>2. Bytes(S) = Bytes(A) \cup Bytes(S \ A)
  BY DEF Bytes
<1>3. Bytes(A) \cap Bytes(S \ A) = {}
  <2> SUFFICES ASSUME NEW a \in A, NEW b \in S \ A, NEW p \in BytesOf(a), p \in BytesOf(b)
               PROVE  FALSE
    BY DEF Bytes
  <2>1. a.end <= b.start \/ b.end <= a.start
    BY DEF WellFormed
  <2>2. a \in StreamRange /\ b \in StreamRange
    BY DEF WellFormed
  <2> QED
    BY <2>1, <2>2 DEF BytesOf, StreamRange
<1>4. IsFiniteSet(Bytes(A)) /\ IsFiniteSet(Bytes(S \ A))
  BY <1>1, BytesFinite
<1>5. TotalLength(A) \in Nat /\ TotalLength(S \ A) \in Nat
  BY <1>1, BytesFinite
<1>6. Cardinality(Bytes(A) \cup Bytes(S \ A))
        = Cardinality(Bytes(A)) + Cardinality(Bytes(S \ A)) - Cardinality(Bytes(A) \cap Bytes(S \ A))
  BY <1>4, FS_Union
<1>7. Cardinality(Bytes(A) \cap Bytes(S \ A)) = 0
  BY <1>3, FS_EmptySet
<1> QED
  BY <1>2, <1>5, <1>6, <1>7 DEF TotalLength

\* The length of one range.
LEMMA LengthOne ==
    ASSUME NEW b \in StreamRange, b.start < b.end
    PROVE  TotalLength({b}) = b.end - b.start
<1>1. Bytes({b}) = b.start .. (b.end - 1)
  BY DEF Bytes, BytesOf
<1>2. b.start \in Int /\ b.end - 1 \in Int
  BY DEF StreamRange
<1>3. Cardinality(b.start .. (b.end - 1)) = b.end - 1 - b.start + 1
  BY <1>2, FS_Interval DEF StreamRange
<1> QED
  BY <1>1, <1>2, <1>3 DEF TotalLength, StreamRange

\* Adding a range that was not there adds its length.
LEMMA LengthAdd ==
    ASSUME NEW S, NEW b, b \notin S, NEW hi \in Nat, WellFormed(S \cup {b}, hi)
    PROVE  TotalLength(S \cup {b}) = TotalLength(S) + (b.end - b.start)
<1>1. (S \cup {b}) \ {b} = S
  OBVIOUS
<1>2. TotalLength(S \cup {b}) = TotalLength({b}) + TotalLength((S \cup {b}) \ {b})
  BY LengthSplit
<1>3. b \in StreamRange /\ b.start < b.end
  BY DEF WellFormed
<1>4. TotalLength({b}) = b.end - b.start
  BY <1>3, LengthOne
<1>5. WellFormed(S, hi)
  BY DEF WellFormed
<1>6. TotalLength(S) \in Nat
  BY <1>5, BytesFinite
<1> QED
  BY <1>1, <1>2, <1>3, <1>4, <1>6 DEF StreamRange

-----------------------------------------------------------------------------
(* The inductive invariant.                                                *)

(* Positions are ordered, and everything from the ack position to the end  *)
(* of the last buffer lies in some queued buffer.                          *)
PositionsOrdered ==
    /\ InitStreamPos <= ackStreamPos
    /\ ackStreamPos <= streamPos
    /\ streamPos = offsetStreamPos
    /\ offsetStreamPos <= bufferStreamPos
    /\ unSendLength = bufferStreamPos - offsetStreamPos
    /\ \A u \in buffers : u.end <= bufferStreamPos
    /\ \A p \in ackStreamPos .. (bufferStreamPos - 1) :
         \E u \in buffers : u.start <= p /\ p < u.end

(* A block is never below the ack position as a whole.                     *)
BlocksUnacked == \A b \in Blocks : b.end > ackStreamPos

(* Everything below the ack position counts as acknowledged.               *)
AckedBelow == InitStreamPos .. (ackStreamPos - 1) \subseteq acked

(* The duplicate-ack counter counts for the present ack position, or it is *)
(* reset and the last fast retransmission was at that position.            *)
DupAckCounter ==
    \/ latestAckStreamPos = ackStreamPos /\ prevDupAckStreamPos < ackStreamPos
    \/ /\ latestAckStreamPos = 0 /\ dupAckTimes = 0
       /\ \/ prevDupAckStreamPos = ackStreamPos
          \/ prevDupAckStreamPos = 0 /\ ackStreamPos = InitStreamPos

IndInv ==
    /\ TypeOK
    /\ PositionsOrdered
    /\ flightBlocks \cap lostBlocks = {}
    /\ WellFormed(Blocks, streamPos)
    /\ BlocksUnacked
    /\ FlightLostAccounting
    /\ AckedBelow
    /\ OutstandingTracked
    /\ BlocksInQueuedBuffers
    /\ DupAckCounter

\* Both lists are well-formed, so the lemmas on lengths apply to them.
LEMMA ListsWellFormed ==
    ASSUME WellFormed(Blocks, streamPos)
    PROVE  WellFormed(flightBlocks, streamPos) /\ WellFormed(lostBlocks, streamPos)
BY DEF WellFormed, Blocks

\* The initial state satisfies the invariant.
LEMMA InitInv == Init => IndInv
<1> SUFFICES ASSUME Init PROVE IndInv
  OBVIOUS
<1> USE SendQueueAssumption DEF Init
<1>1. Bytes({}) = {} /\ TotalLength({}) = 0
  BY FS_EmptySet DEF Bytes, TotalLength
<1>2. TypeOK
  BY DEF TypeOK
<1>3. PositionsOrdered
  BY DEF PositionsOrdered
<1>4. FlightLostAccounting
  BY <1>1 DEF FlightLostAccounting
<1>5. WellFormed(Blocks, streamPos) /\ flightBlocks \cap lostBlocks = {}
  BY DEF WellFormed, Blocks
<1>6. BlocksUnacked /\ BlocksInQueuedBuffers
  BY DEF BlocksUnacked, BlocksInQueuedBuffers, Blocks
<1>7. AckedBelow /\ OutstandingTracked /\ DupAckCounter
  BY DEF AckedBelow, OutstandingTracked, DupAckCounter
<1> QED
  BY <1>2, <1>3, <1>4, <1>5, <1>6, <1>7 DEF IndInv

\* Adding a buffer keeps the invariant.
LEMMA AddBufferInv ==
    ASSUME IndInv, NEW len \in Nat, AddBuffer(len)
    PROVE  IndInv'
<1> USE SendQueueAssumption DEF AddBuffer, contextVars
<1>1. TypeOK'
  BY DEF IndInv, TypeOK, StreamRange
<1>2. PositionsOrdered'
  <2>1. ASSUME NEW p \in ackStreamPos .. (bufferStreamPos + len - 1)
        PROVE  \E u \in buffers' : u.start <= p /\ p < u.end
    <3>1. CASE p < bufferStreamPos
      <4>1. p \in ackStreamPos .. (bufferStreamPos - 1)
        BY <3>1 DEF IndInv, TypeOK
      <4>2. PICK u \in buffers : u.start <= p /\ p < u.end
        BY <4>1 DEF IndInv, PositionsOrdered
      <4> QED
        BY <4>2
    <3>2. CASE p >= bufferStreamPos
      <4> DEFINE u == [start |-> bufferStreamPos, end |-> bufferStreamPos + len]
      <4>1. u \in buffers' /\ u.start <= p /\ p < u.end
        BY <3>2 DEF IndInv, TypeOK
      <4> QED
        BY <4>1
    <3> QED
      BY <3>1, <3>2 DEF IndInv, TypeOK
  <2>2. \A u \in buffers' : u.end <= bufferStreamPos + len
    BY DEF IndInv, PositionsOrdered, TypeOK, StreamRange
  <2> QED
    BY <2>1, <2>2 DEF IndInv, PositionsOrdered, TypeOK
<1>3. Blocks' = Blocks
  BY DEF Blocks
<1>4. BlocksInQueuedBuffers'
  BY <1>3 DEF IndInv, BlocksInQueuedBuffers
<1>5. (WellFormed(Blocks, streamPos) /\ BlocksUnacked /\ FlightLostAccounting)'
  BY <1>3 DEF IndInv, WellFormed, BlocksUnacked, FlightLostAccounting, TotalLength, Bytes
<1>6. (AckedBelow /\ OutstandingTracked /\ DupAckCounter)'
  BY <1>3 DEF IndInv, AckedBelow, OutstandingTracked, DupAckCounter, Bytes
<1> QED
  BY <1>1, <1>2, <1>4, <1>5, <1>6 DEF IndInv

\* Sending a new block keeps the invariant.
LEMMA FillNewPayloadInv ==
    ASSUME IndInv, FillNewPayload
    PROVE  IndInv'
<1> USE SendQueueAssumption
<1>1. PICK curr \in buffers :
        /\ IsCurr(curr)
        /\ flightBlocks' = flightBlocks \cup {GeneratedBlock(curr)}
        /\ flight' = flight + (GeneratedBlock(curr).end - GeneratedBlock(curr).start)
        /\ streamPos' = streamPos + (GeneratedBlock(curr).end - GeneratedBlock(curr).start)
        /\ offsetStreamPos' = GeneratedBlock(curr).end
        /\ unSendLength' = unSendLength - (GeneratedBlock(curr).end - GeneratedBlock(curr).start)
  BY DEF FillNewPayload
<1> DEFINE b == GeneratedBlock(curr)
<1>2. UNCHANGED <<ackStreamPos, lostBlocks, lost, latestAckStreamPos,
                  prevDupAckStreamPos, dupAckTimes, bufferStreamPos, buffers, acked>>
  BY DEF FillNewPayload
<1>3. /\ b \in StreamRange
      /\ b.start = streamPos
      /\ b.start < b.end
      /\ curr.start <= b.start
      /\ b.end <= curr.end
      /\ b.end = streamPos'
      /\ curr \in StreamRange
      /\ b.end <= bufferStreamPos
  BY <1>1 DEF IndInv, TypeOK, PositionsOrdered, StreamRange, IsCurr, GeneratedBlock
<1> HIDE DEF b
<1>4. Blocks' = Blocks \cup {b}
  BY <1>1, <1>2 DEF Blocks, b
<1>5. WellFormed(Blocks, streamPos)'
  BY <1>3, <1>4 DEF IndInv, TypeOK, PositionsOrdered, WellFormed, StreamRange
<1>6. b \notin Blocks
  BY <1>3 DEF IndInv, TypeOK, WellFormed, StreamRange
<1>7. TypeOK'
  BY <1>1, <1>2, <1>3 DEF IndInv, TypeOK, PositionsOrdered, StreamRange, b
<1>8. PositionsOrdered'
  BY <1>1, <1>2, <1>3 DEF IndInv, TypeOK, PositionsOrdered, StreamRange, b
<1>9. (flightBlocks \cap lostBlocks = {})'
  BY <1>1, <1>2, <1>6 DEF IndInv, Blocks, b
<1>10. FlightLostAccounting'
  <2>1. WellFormed(flightBlocks \cup {b}, streamPos')
    BY <1>5, <1>1 DEF WellFormed, Blocks, b
  <2>2. TotalLength(flightBlocks \cup {b}) = TotalLength(flightBlocks) + (b.end - b.start)
    BY <2>1, <1>6, <1>7, LengthAdd DEF Blocks, TypeOK
  <2> QED
    BY <2>2, <1>1, <1>2 DEF IndInv, FlightLostAccounting, TotalLength, Bytes, b
<1>11. BlocksUnacked'
  BY <1>2, <1>3, <1>4 DEF IndInv, BlocksUnacked, TypeOK, PositionsOrdered, StreamRange
<1>12. BlocksInQueuedBuffers'
  BY <1>2, <1>3, <1>4 DEF IndInv, BlocksInQueuedBuffers
<1>13. OutstandingTracked'
  <2> SUFFICES ASSUME NEW p \in InitStreamPos .. (streamPos' - 1)
               PROVE  p \in Bytes(Blocks') \/ p \in acked'
    BY DEF OutstandingTracked, Bytes
  <2>1. Bytes(Blocks') = Bytes(Blocks) \cup BytesOf(b)
    BY <1>4 DEF Bytes
  <2>2. CASE p < streamPos
    BY <2>1, <2>2, <1>2 DEF IndInv, OutstandingTracked, TypeOK
  <2>3. CASE p >= streamPos
    BY <2>1, <2>3, <1>3 DEF BytesOf, TypeOK, IndInv, StreamRange
  <2> QED
    BY <2>2, <2>3 DEF IndInv, TypeOK
<1>14. (AckedBelow /\ DupAckCounter)'
  BY <1>2 DEF IndInv, AckedBelow, DupAckCounter
<1> QED
  BY <1>5, <1>7, <1>8, <1>9, <1>10, <1>11, <1>12, <1>13, <1>14 DEF IndInv

\* Sending a lost block again keeps the invariant.
LEMMA FillLostPayloadInv ==
    ASSUME IndInv, FillLostPayload
    PROVE  IndInv'
<1> USE SendQueueAssumption
<1>1. PICK b \in lostBlocks :
        /\ lostBlocks' = lostBlocks \ {b}
        /\ flightBlocks' = flightBlocks \cup {b}
        /\ flight' = flight + (b.end - b.start)
        /\ lost' = lost - (b.end - b.start)
  BY DEF FillLostPayload
<1>2. UNCHANGED <<ackStreamPos, streamPos, latestAckStreamPos, prevDupAckStreamPos,
                  dupAckTimes, bufferStreamPos, unSendLength, offsetStreamPos, buffers, acked>>
  BY DEF FillLostPayload, bufferVars
<1>3. Blocks' = Blocks
  BY <1>1 DEF Blocks
<1>4. WellFormed(Blocks, streamPos)'
  BY <1>2, <1>3 DEF IndInv, WellFormed
<1>5. b \notin flightBlocks /\ b \in StreamRange /\ b.start < b.end
  BY DEF IndInv, WellFormed, Blocks
<1>6. TotalLength(flightBlocks \cup {b}) = TotalLength(flightBlocks) + (b.end - b.start)
  <2>1. WellFormed(flightBlocks \cup {b}, streamPos)
    BY DEF IndInv, WellFormed, Blocks
  <2> QED
    BY <2>1, <1>5, LengthAdd DEF IndInv, TypeOK
<1>7. TotalLength(lostBlocks) = (b.end - b.start) + TotalLength(lostBlocks \ {b})
  <2>1. WellFormed(lostBlocks, streamPos)
    BY ListsWellFormed DEF IndInv
  <2>2. TotalLength(lostBlocks) = TotalLength({b}) + TotalLength(lostBlocks \ {b})
    BY <2>1, LengthSplit DEF IndInv, TypeOK
  <2> QED
    BY <2>2, <1>5, LengthOne
<1>8. TotalLength(lostBlocks \ {b}) \in Nat
  <2>1. WellFormed(lostBlocks \ {b}, streamPos)
    BY DEF IndInv, WellFormed, Blocks
  <2> QED
    BY <2>1, BytesFinite DEF IndInv, TypeOK
<1>9. FlightLostAccounting'
  <2>1. flight' = TotalLength(flightBlocks') /\ lost' = TotalLength(lostBlocks')
    BY <1>1, <1>5, <1>6, <1>7, <1>8 DEF IndInv, FlightLostAccounting, StreamRange
  <2> QED
    BY <2>1 DEF FlightLostAccounting, TotalLength, Bytes
<1>10. lost' = TotalLength(lostBlocks \ {b})
  BY <1>1, <1>5, <1>7, <1>8 DEF IndInv, FlightLostAccounting, StreamRange
<1>11. TypeOK'
  BY <1>1, <1>2, <1>5, <1>8, <1>10 DEF IndInv, TypeOK, StreamRange
<1>12. (PositionsOrdered /\ AckedBelow /\ DupAckCounter)'
  BY <1>2 DEF IndInv, PositionsOrdered, AckedBelow, DupAckCounter
<1>13. (flightBlocks \cap lostBlocks = {})'
  BY <1>1 DEF IndInv
<1>14. (BlocksUnacked /\ BlocksInQueuedBuffers /\ OutstandingTracked)'
  BY <1>2, <1>3 DEF IndInv, BlocksUnacked, BlocksInQueuedBuffers, OutstandingTracked, Bytes
<1> QED
  BY <1>4, <1>9, <1>11, <1>12, <1>13, <1>14 DEF IndInv

\* A timeout moves blocks from flight to lost and keeps the invariant.
LEMMA MarkRangeTimeoutInv ==
    ASSUME IndInv, NEW late \in SUBSET flightBlocks, MarkRangeTimeout(late)
    PROVE  IndInv'
<1> USE SendQueueAssumption
<1>1. /\ flightBlocks' = flightBlocks \ late
      /\ lostBlocks' = lostBlocks \cup late
      /\ flight' = flight - TotalLength(late)
      /\ lost' = lost + TotalLength(late)
  BY DEF MarkRangeTimeout
<1>2. UNCHANGED <<ackStreamPos, streamPos, latestAckStreamPos, prevDupAckStreamPos,
                  dupAckTimes, bufferStreamPos, unSendLength, offsetStreamPos, buffers, acked>>
  BY DEF MarkRangeTimeout, bufferVars
<1>3. Blocks' = Blocks
  BY <1>1 DEF Blocks
<1>4. WellFormed(Blocks, streamPos)'
  BY <1>2, <1>3 DEF IndInv, WellFormed
<1>5. TotalLength(flightBlocks) = TotalLength(late) + TotalLength(flightBlocks \ late)
  <2>1. WellFormed(flightBlocks, streamPos)
    BY ListsWellFormed DEF IndInv
  <2> QED
    BY <2>1, LengthSplit DEF IndInv, TypeOK
<1>6. TotalLength(lostBlocks \cup late) = TotalLength(lostBlocks) + TotalLength(late)
  <2>1. WellFormed(lostBlocks \cup late, streamPos)
    BY DEF IndInv, WellFormed, Blocks
  <2>2. (lostBlocks \cup late) \ late = lostBlocks
    <3>1. \A b \in late : b \notin lostBlocks
      BY DEF IndInv
    <3> QED
      BY <3>1
  <2>3. TotalLength(lostBlocks \cup late)
          = TotalLength(late) + TotalLength((lostBlocks \cup late) \ late)
    BY <2>1, LengthSplit DEF IndInv, TypeOK
  <2>4. WellFormed(lostBlocks, streamPos) /\ WellFormed(late, streamPos)
    BY DEF IndInv, WellFormed, Blocks
  <2>5. TotalLength(lostBlocks) \in Nat /\ TotalLength(late) \in Nat
    BY <2>4, BytesFinite DEF IndInv, TypeOK
  <2>6. TotalLength(lostBlocks \cup late) = TotalLength(late) + TotalLength(lostBlocks)
    BY <2>2, <2>3, Zenon
  <2> QED
    BY <2>5, <2>6
<1>7. /\ TotalLength(late) \in Nat
      /\ TotalLength(flightBlocks \ late) \in Nat
  <2>1. WellFormed(late, streamPos) /\ WellFormed(flightBlocks \ late, streamPos)
    BY DEF IndInv, WellFormed, Blocks
  <2> QED
    BY <2>1, BytesFinite DEF IndInv, TypeOK
<1>8. flight' = TotalLength(flightBlocks') /\ lost' = TotalLength(lostBlocks')
  BY <1>1, <1>5, <1>6, <1>7 DEF IndInv, FlightLostAccounting
<1>9. FlightLostAccounting'
  BY <1>8 DEF FlightLostAccounting, TotalLength, Bytes
<1>10. TypeOK'
  BY <1>1, <1>2, <1>7, <1>8 DEF IndInv, TypeOK
<1>11. (PositionsOrdered /\ AckedBelow /\ DupAckCounter)'
  BY <1>2 DEF IndInv, PositionsOrdered, AckedBelow, DupAckCounter
<1>12. (flightBlocks \cap lostBlocks = {})'
  BY <1>1 DEF IndInv
<1>13. (BlocksUnacked /\ BlocksInQueuedBuffers /\ OutstandingTracked)'
  BY <1>2, <1>3 DEF IndInv, BlocksUnacked, BlocksInQueuedBuffers, OutstandingTracked, Bytes
<1> QED
  BY <1>4, <1>9, <1>10, <1>11, <1>12, <1>13 DEF IndInv

\* Giving complete buffers back keeps the invariant: a buffer that holds a
\* block or an unsent byte ends above the ack position.
LEMMA PopCompleteBuffersInv ==
    ASSUME IndInv, NEW seen \in InitStreamPos .. ackStreamPos, PopCompleteBuffers(seen)
    PROVE  IndInv'
<1> USE SendQueueAssumption
<1>1. /\ buffers' = {b \in buffers : b.end > seen}
      /\ UNCHANGED <<ackStreamPos, streamPos, flightBlocks, lostBlocks, flight, lost,
                     latestAckStreamPos, prevDupAckStreamPos, dupAckTimes>>
      /\ UNCHANGED <<bufferStreamPos, unSendLength, offsetStreamPos, acked>>
  BY DEF PopCompleteBuffers, contextVars
<1>2. Blocks' = Blocks
  BY <1>1 DEF Blocks
<1>3. seen \in Nat /\ seen <= ackStreamPos
  BY DEF IndInv, TypeOK
<1>4. PositionsOrdered'
  <2>1. ASSUME NEW p \in ackStreamPos .. (bufferStreamPos - 1)
        PROVE  \E u \in buffers' : u.start <= p /\ p < u.end
    <3>1. PICK u \in buffers : u.start <= p /\ p < u.end
      BY DEF IndInv, PositionsOrdered
    <3>2. u.end > seen
      BY <1>3, <3>1 DEF IndInv, TypeOK, StreamRange
    <3> QED
      BY <1>1, <3>1, <3>2
  <2> QED
    BY <2>1, <1>1 DEF IndInv, PositionsOrdered
<1>5. BlocksInQueuedBuffers'
  <2>1. ASSUME NEW b \in Blocks
        PROVE  \E u \in buffers' : u.start <= b.start /\ b.end <= u.end
    <3>1. PICK u \in buffers : u.start <= b.start /\ b.end <= u.end
      BY DEF IndInv, BlocksInQueuedBuffers
    <3>2. b.end > ackStreamPos /\ b \in StreamRange /\ u \in StreamRange
      BY DEF IndInv, BlocksUnacked, TypeOK, Blocks
    <3>3. u.end > seen
      BY <1>3, <3>1, <3>2 DEF IndInv, TypeOK, StreamRange
    <3> QED
      BY <1>1, <3>1, <3>3
  <2> QED
    BY <2>1, <1>2 DEF BlocksInQueuedBuffers
<1>6. TypeOK'
  BY <1>1 DEF IndInv, TypeOK
<1>7. (WellFormed(Blocks, streamPos) /\ FlightLostAccounting)'
  BY <1>1, <1>2 DEF IndInv, WellFormed, FlightLostAccounting, TotalLength, Bytes
<1>8. (BlocksUnacked /\ AckedBelow /\ OutstandingTracked /\ DupAckCounter)'
  BY <1>1, <1>2 DEF IndInv, BlocksUnacked, AckedBelow, OutstandingTracked, DupAckCounter, Bytes
<1>9. (flightBlocks \cap lostBlocks = {})'
  BY <1>1 DEF IndInv
<1> QED
  BY <1>4, <1>5, <1>6, <1>7, <1>8, <1>9 DEF IndInv

\* Counting one more ack: the counter is for the new ack position, or it is
\* still reset and the ack position did not move.
LEMMA CountDupAckInv ==
    ASSUME IndInv, NEW ack \in InitStreamPos .. streamPos
    PROVE  LET count  == CountDupAck(ack)
               newAck == MaxPos(ackStreamPos, ack)
           IN  /\ count[1] \in Nat
               /\ count[2] \in 0 .. (DupAckModulus - 1)
               /\ \/ count[1] = newAck /\ prevDupAckStreamPos < newAck
                  \/ /\ count[1] = 0 /\ count[2] = 0
                     /\ prevDupAckStreamPos = newAck
<1> USE SendQueueAssumption DEF IndInv, TypeOK, PositionsOrdered, DupAckCounter, CountDupAck, MaxPos
<1>1. ack \in Nat /\ ack > 0
  OBVIOUS
<1>2. (dupAckTimes + 1) % DupAckModulus \in 0 .. (DupAckModulus - 1)
  OBVIOUS
<1>3. CASE prevDupAckStreamPos >= ack \/ latestAckStreamPos > ack
  BY <1>1, <1>3
<1>4. CASE ~(prevDupAckStreamPos >= ack \/ latestAckStreamPos > ack) /\ latestAckStreamPos < ack
  BY <1>1, <1>4
<1>5. CASE ~(prevDupAckStreamPos >= ack \/ latestAckStreamPos > ack) /\ ~(latestAckStreamPos < ack)
  BY <1>1, <1>2, <1>5
<1> QED
  BY <1>3, <1>4, <1>5

\* A block the new ack position covers as a whole is reached by the walk and
\* acknowledged, also when duplicate acks were counted.
LEMMA CoveredIsAcked ==
    ASSUME IndInv, NEW count, NEW newAck \in Nat, NEW sack,
           count[1] = newAck \/ (count[1] = 0 /\ count[2] = 0),
           NEW b \in Blocks, b.end <= newAck
    PROVE  b \in Walked(count, newAck, sack) /\ WalkState(b, count, newAck, sack) = "ACK"
<1> USE SendQueueAssumption
<1>1. ASSUME NEW c \in Blocks, c.end <= newAck
      PROVE  WalkState(c, count, newAck, sack) = "ACK"
  <2>1. c.start < c.end /\ c \in StreamRange
    BY DEF IndInv, WellFormed
  <2>2. ~(c.start = count[1] /\ count[2] = 4)
    BY <1>1, <2>1 DEF StreamRange
  <2> QED
    BY <1>1, <2>1, <2>2 DEF WalkState, CheckBlockStateByAck, StreamRange
<1>2. ASSUME NEW c \in Blocks, c.start <= b.start
      PROVE  c.end <= newAck
  <2>1. /\ c \in StreamRange /\ b \in StreamRange
        /\ b.start < b.end
        /\ b = c \/ b.end <= c.start \/ c.end <= b.start
    BY DEF IndInv, WellFormed
  <2> QED
    BY <1>2, <2>1 DEF StreamRange
<1>3. \A c \in Blocks : c.start <= b.start => WalkState(c, count, newAck, sack) # "OUT_OF_RANGE"
  BY <1>1, <1>2
<1> QED
  BY <1>1, <1>3 DEF Walked

\* A block the walk acknowledges lies below the ack position or in a sack range.
LEMMA AckedIsCovered ==
    ASSUME IndInv, NEW count, NEW newAck \in Nat, NEW sack \in SUBSET StreamRange,
           NEW b \in Blocks, WalkState(b, count, newAck, sack) = "ACK",
           NEW p \in BytesOf(b)
    PROVE  p \in InitStreamPos .. (newAck - 1) \/ p \in Bytes(sack)
<1> USE SendQueueAssumption
<1>1. b \in StreamRange /\ InitStreamPos <= b.start
  BY DEF IndInv, WellFormed
<1>2. b.end <= newAck \/ \E r \in sack : r.start <= b.start /\ b.end <= r.end
  BY <1>1 DEF WalkState, CheckBlockStateByAck, StreamRange
<1>3. CASE b.end <= newAck
  BY <1>1, <1>3 DEF BytesOf, StreamRange
<1>4. CASE \E r \in sack : r.start <= b.start /\ b.end <= r.end
  <2>1. PICK r \in sack : r.start <= b.start /\ b.end <= r.end
    BY <1>4
  <2>2. p \in BytesOf(r)
    BY <1>1, <2>1 DEF BytesOf, StreamRange
  <2> QED
    BY <2>2 DEF Bytes
<1> QED
  BY <1>2, <1>3, <1>4

\* Processing an ack keeps the invariant.
LEMMA ConfirmRangeInv ==
    ASSUME IndInv, NEW ack \in InitStreamPos .. streamPos,
           NEW sack \in SUBSET Ranges(streamPos), ConfirmRange(ack, sack)
    PROVE  IndInv'
<1> USE SendQueueAssumption
<1> DEFINE count   == CountDupAck(ack)
           newAck  == MaxPos(ackStreamPos, ack)
           walked  == Walked(count, newAck, sack)
           isAcked == {b \in walked : WalkState(b, count, newAck, sack) = "ACK"}
           isLost  == {b \in walked : WalkState(b, count, newAck, sack) = "LOST"}
           dupHit  == count[2] = 4 /\ \E b \in walked : b.start = count[1]
           gone    == flightBlocks \cap (isAcked \cup isLost)
           late    == flightBlocks \cap isLost
<1>1. /\ ackStreamPos' = newAck
      /\ flightBlocks' = flightBlocks \ (isAcked \cup isLost)
      /\ lostBlocks' = (lostBlocks \ isAcked) \cup isLost
      /\ flight' = flight - TotalLength(gone)
      /\ lost' = lost - TotalLength(lostBlocks \cap isAcked) + TotalLength(late)
      /\ acked' = acked \cup (InitStreamPos .. (ack - 1)) \cup Bytes(sack)
  BY DEF ConfirmRange
<1>2. /\ latestAckStreamPos' = IF dupHit THEN 0 ELSE count[1]
      /\ prevDupAckStreamPos' = IF dupHit THEN count[1] ELSE prevDupAckStreamPos
      /\ dupAckTimes' = IF dupHit THEN 0 ELSE count[2]
  BY DEF ConfirmRange
<1>3. UNCHANGED <<streamPos, bufferStreamPos, unSendLength, offsetStreamPos, buffers>>
  BY DEF ConfirmRange, bufferVars
<1>4. /\ count[1] \in Nat
      /\ count[2] \in 0 .. (DupAckModulus - 1)
      /\ \/ count[1] = newAck /\ prevDupAckStreamPos < newAck
         \/ count[1] = 0 /\ count[2] = 0 /\ prevDupAckStreamPos = newAck
  BY CountDupAckInv
<1>5. newAck \in Nat /\ ackStreamPos <= newAck /\ ack <= newAck /\ newAck <= streamPos
        /\ newAck \in {ackStreamPos, ack}
  BY DEF MaxPos, IndInv, TypeOK, PositionsOrdered
<1>6. sack \in SUBSET StreamRange
  BY DEF Ranges, StreamRange
<1>7. /\ isAcked \subseteq Blocks
      /\ isLost \subseteq Blocks
      /\ \A b \in isLost : b \notin isAcked
  BY DEF Walked
<1>8. \A b \in Blocks : b.end <= newAck => b \in isAcked
  BY <1>4, <1>5, CoveredIsAcked
<1>9. \A b \in isAcked : \A p \in BytesOf(b) : p \in InitStreamPos .. (newAck - 1) \/ p \in Bytes(sack)
  BY <1>5, <1>6, <1>7, AckedIsCovered
<1>10. dupHit => count[1] # 0
  <2>1. \A b \in walked : b.start >= InitStreamPos /\ b \in StreamRange
    BY DEF Walked, IndInv, WellFormed
  <2> QED
    BY <2>1 DEF StreamRange
<1> HIDE DEF count, newAck, walked, isAcked, isLost, dupHit
<1>11. Blocks' = Blocks \ isAcked
  <2>1. Blocks' = (flightBlocks \ (isAcked \cup isLost)) \cup ((lostBlocks \ isAcked) \cup isLost)
    BY <1>1 DEF Blocks
  <2> QED
    BY <2>1, <1>7 DEF Blocks
<1>12. (flightBlocks \cap lostBlocks = {})'
  BY <1>1 DEF IndInv
<1>13. WellFormed(Blocks, streamPos)'
  BY <1>3, <1>11 DEF IndInv, WellFormed
<1>14. BlocksUnacked'
  <2>1. \A b \in Blocks : b \in StreamRange
    BY DEF IndInv, WellFormed
  <2> QED
    BY <2>1, <1>1, <1>5, <1>8, <1>11 DEF BlocksUnacked, StreamRange
<1>15. /\ flight' = TotalLength(flightBlocks')
       /\ flight' \in Nat
  <2>1. WellFormed(flightBlocks, streamPos)
    BY ListsWellFormed DEF IndInv
  <2>2. flightBlocks \ gone = flightBlocks'
    BY <1>1
  <2>3. TotalLength(flightBlocks) = TotalLength(gone) + TotalLength(flightBlocks \ gone)
    BY <2>1, LengthSplit DEF IndInv, TypeOK
  <2>4. WellFormed(gone, streamPos) /\ WellFormed(flightBlocks', streamPos)
    BY <2>1, <2>2 DEF WellFormed
  <2>5. TotalLength(gone) \in Nat /\ TotalLength(flightBlocks') \in Nat
    BY <2>4, BytesFinite DEF IndInv, TypeOK
  <2>6. TotalLength(flightBlocks) = TotalLength(gone) + TotalLength(flightBlocks')
    BY <2>2, <2>3, Zenon
  <2> HIDE DEF gone
  <2> QED
    BY <1>1, <2>5, <2>6 DEF IndInv, FlightLostAccounting
<1>16. /\ lost' = TotalLength(lostBlocks')
       /\ lost' \in Nat
  <2> DEFINE kept == lostBlocks \ isAcked
             taken == lostBlocks \cap isAcked
  <2>1. WellFormed(lostBlocks, streamPos)
    BY ListsWellFormed DEF IndInv
  <2>2. lostBlocks \ taken = kept
    OBVIOUS
  <2>3. TotalLength(lostBlocks) = TotalLength(taken) + TotalLength(lostBlocks \ taken)
    BY <2>1, LengthSplit DEF IndInv, TypeOK
  <2>4. lostBlocks' \subseteq Blocks
    BY <1>1, <1>7 DEF Blocks
  <2>5. WellFormed(lostBlocks', streamPos)
    BY <2>4 DEF IndInv, WellFormed
  <2>6. late \subseteq lostBlocks' /\ lostBlocks' \ late = kept
    <3>1. late \subseteq lostBlocks'
      BY <1>1
    <3>2. \A b \in lostBlocks' \ late : b \in kept
      BY <1>1, <1>7 DEF Blocks
    <3>3. \A b \in kept : b \in lostBlocks' /\ b \notin late
      BY <1>1 DEF IndInv
    <3> QED
      BY <3>1, <3>2, <3>3
  <2>7. TotalLength(lostBlocks') = TotalLength(late) + TotalLength(lostBlocks' \ late)
    BY <2>5, <2>6, LengthSplit DEF IndInv, TypeOK
  <2>8. WellFormed(taken, streamPos) /\ WellFormed(kept, streamPos) /\ WellFormed(late, streamPos)
    BY <2>1, <2>5, <2>6 DEF WellFormed
  <2>9. TotalLength(taken) \in Nat /\ TotalLength(kept) \in Nat /\ TotalLength(late) \in Nat
    BY <2>8, BytesFinite DEF IndInv, TypeOK
  <2>10. TotalLength(lostBlocks) = TotalLength(taken) + TotalLength(kept)
    BY <2>2, <2>3, Zenon
  <2>11. TotalLength(lostBlocks') = TotalLength(late) + TotalLength(kept)
    BY <2>6, <2>7, Zenon
  <2>12. lost' = lost - TotalLength(taken) + TotalLength(late)
    BY <1>1
  <2>13. lost = TotalLength(lostBlocks)
    BY DEF IndInv, FlightLostAccounting
  <2> HIDE DEF taken, kept, late
  <2> QED
    BY <2>9, <2>10, <2>11, <2>12, <2>13
<1>17. FlightLostAccounting'
  BY <1>15, <1>16 DEF FlightLostAccounting, TotalLength, Bytes
<1>18. TypeOK'
  <2>1. acked' \in SUBSET Nat
    <3>1. acked \in SUBSET Nat
      BY DEF IndInv, TypeOK
    <3>2. ASSUME NEW p \in InitStreamPos .. (ack - 1)
          PROVE  p \in Nat
      BY SendQueueAssumption
    <3>3. ASSUME NEW r \in sack, NEW p \in BytesOf(r)
          PROVE  p \in Nat
      <4>1. r \in StreamRange
        BY <1>6
      <4> QED
        BY <4>1 DEF BytesOf, StreamRange
    <3>4. Bytes(sack) \subseteq Nat
      BY <3>3 DEF Bytes
    <3>5. acked' = acked \cup (InitStreamPos .. (ack - 1)) \cup Bytes(sack)
      BY <1>1
    <3> QED
      BY <3>1, <3>2, <3>4, <3>5
  <2>2. flightBlocks' \in SUBSET StreamRange /\ lostBlocks' \in SUBSET StreamRange
    BY <1>13 DEF WellFormed, Blocks
  <2> QED
    BY <2>1, <2>2, <1>1, <1>2, <1>3, <1>4, <1>5, <1>15, <1>16 DEF IndInv, TypeOK
<1>19. PositionsOrdered'
  BY <1>1, <1>3, <1>5 DEF IndInv, PositionsOrdered, TypeOK
<1>20. BlocksInQueuedBuffers'
  BY <1>3, <1>11 DEF IndInv, BlocksInQueuedBuffers
<1>21. \A p \in InitStreamPos .. (newAck - 1) : p \in acked'
  <2>1. CASE newAck = ackStreamPos
    BY <2>1, <1>1 DEF IndInv, AckedBelow
  <2>2. CASE newAck = ack
    BY <2>2, <1>1
  <2> QED
    BY <2>1, <2>2, <1>5
<1>22. AckedBelow'
  BY <1>1, <1>21 DEF AckedBelow
<1>23. OutstandingTracked'
  <2> SUFFICES ASSUME NEW p \in InitStreamPos .. (streamPos - 1), p \notin acked'
               PROVE  p \in Bytes(Blocks')
    BY <1>3 DEF OutstandingTracked, Bytes
  <2>1. p \in Bytes(Blocks)
    BY <1>1 DEF IndInv, OutstandingTracked
  <2>2. PICK b \in Blocks : p \in BytesOf(b)
    BY <2>1 DEF Bytes
  <2>3. b \notin isAcked
    BY <2>2, <1>1, <1>9, <1>21
  <2> QED
    BY <2>2, <2>3, <1>11 DEF Bytes
<1>24. DupAckCounter'
  BY <1>1, <1>2, <1>4, <1>5, <1>10 DEF DupAckCounter
<1> QED
  BY <1>12, <1>13, <1>14, <1>17, <1>18, <1>19, <1>20, <1>22, <1>23, <1>24 DEF IndInv

-----------------------------------------------------------------------------
(* What other modules need to know of a step.                              *)

\* The walk of SendQueueConfirmRange removes blocks and adds none.
LEMMA ConfirmEffect ==
    ASSUME IndInv, NEW ack \in InitStreamPos .. streamPos, NEW sack, ConfirmRange(ack, sack)
    PROVE  /\ ackStreamPos' \in {ackStreamPos, ack}
           /\ ackStreamPos <= ackStreamPos' /\ ack <= ackStreamPos'
           /\ Blocks' \subseteq Blocks
           /\ acked' = acked \cup (InitStreamPos .. (ack - 1)) \cup Bytes(sack)
           /\ UNCHANGED <<streamPos, bufferStreamPos, unSendLength, offsetStreamPos, buffers>>
<1> USE SendQueueAssumption
<1>1. ackStreamPos' = MaxPos(ackStreamPos, ack)
  BY DEF ConfirmRange
<1>2. acked' = acked \cup (InitStreamPos .. (ack - 1)) \cup Bytes(sack)
  BY DEF ConfirmRange
<1>3. \E X, Y \in SUBSET Blocks : flightBlocks' = flightBlocks \ X /\ lostBlocks' = (lostBlocks \ X) \cup Y
  <2> DEFINE count   == CountDupAck(ack)
             newAck  == MaxPos(ackStreamPos, ack)
             walked  == Walked(count, newAck, sack)
             isAcked == {b \in walked : WalkState(b, count, newAck, sack) = "ACK"}
             isLost  == {b \in walked : WalkState(b, count, newAck, sack) = "LOST"}
  <2>1. /\ flightBlocks' = flightBlocks \ (isAcked \cup isLost)
        /\ lostBlocks' = (lostBlocks \ isAcked) \cup isLost
    BY DEF ConfirmRange
  <2>2. isAcked \subseteq Blocks /\ isLost \subseteq Blocks
    BY DEF Walked
  <2> HIDE DEF isAcked, isLost
  <2>3. lostBlocks' = (lostBlocks \ (isAcked \cup isLost)) \cup isLost
    BY <2>1
  <2> QED
    BY <2>1, <2>2, <2>3
<1>4. Blocks' \subseteq Blocks
  BY <1>3 DEF Blocks
<1>5. UNCHANGED <<streamPos, bufferStreamPos, unSendLength, offsetStreamPos, buffers>>
  BY DEF ConfirmRange, bufferVars
<1>6. /\ ackStreamPos' \in {ackStreamPos, ack}
      /\ ackStreamPos <= ackStreamPos' /\ ack <= ackStreamPos'
  BY <1>1 DEF MaxPos, IndInv, TypeOK
<1> QED
  BY <1>2, <1>4, <1>5, <1>6

\* A new block begins where the last one ended and is sent at once.
LEMMA NewPayloadEffect ==
    ASSUME IndInv, FillNewPayload
    PROVE  \E b \in StreamRange :
              /\ b.start = streamPos /\ b.end = streamPos' /\ streamPos < streamPos'
              /\ Blocks' = Blocks \cup {b} /\ flightBlocks' = flightBlocks \cup {b}
              /\ UNCHANGED <<ackStreamPos, bufferStreamPos, buffers, acked>>
<1> USE SendQueueAssumption
<1>1. PICK curr \in buffers :
        /\ IsCurr(curr)
        /\ flightBlocks' = flightBlocks \cup {GeneratedBlock(curr)}
        /\ streamPos' = streamPos + (GeneratedBlock(curr).end - GeneratedBlock(curr).start)
  BY DEF FillNewPayload
<1>2. UNCHANGED <<ackStreamPos, lostBlocks, bufferStreamPos, buffers, acked>>
  BY DEF FillNewPayload
<1> DEFINE b == GeneratedBlock(curr)
<1>3. curr \in StreamRange /\ streamPos \in Nat /\ streamPos = offsetStreamPos
  BY DEF IndInv, TypeOK, PositionsOrdered
<1>4. b \in StreamRange /\ b.start = streamPos /\ b.start < b.end
  BY <1>1, <1>3 DEF GeneratedBlock, IsCurr, StreamRange
<1>5. flightBlocks' = flightBlocks \cup {b} /\ streamPos' = streamPos + (b.end - b.start)
  BY <1>1
<1> HIDE DEF b
<1>6. b.end = streamPos' /\ streamPos < streamPos'
  BY <1>3, <1>4, <1>5 DEF StreamRange
<1>7. Blocks' = Blocks \cup {b}
  BY <1>2, <1>5 DEF Blocks
<1> QED
  BY <1>2, <1>4, <1>5, <1>6, <1>7

\* Sending a lost block again, and a timeout, only move blocks.
LEMMA MoveEffect ==
    ASSUME IndInv, FillLostPayload \/ \E late \in SUBSET flightBlocks : MarkRangeTimeout(late)
    PROVE  Blocks' = Blocks /\ UNCHANGED <<ackStreamPos, streamPos, bufferVars, acked>>
<1>1. CASE FillLostPayload
  BY <1>1 DEF FillLostPayload, Blocks
<1>2. CASE \E late \in SUBSET flightBlocks : MarkRangeTimeout(late)
  BY <1>2 DEF MarkRangeTimeout, Blocks
<1> QED
  BY <1>1, <1>2

\* The counters say whether a byte is outstanding.
LEMMA OutstandingCounted ==
    ASSUME IndInv
    PROVE  flight + lost > 0 <=> Bytes(Blocks) # {}
<1>1. WellFormed(flightBlocks, streamPos) /\ WellFormed(lostBlocks, streamPos) /\ streamPos \in Nat
  BY ListsWellFormed DEF IndInv, TypeOK
<1>2. /\ IsFiniteSet(Bytes(flightBlocks)) /\ TotalLength(flightBlocks) \in Nat
      /\ IsFiniteSet(Bytes(lostBlocks)) /\ TotalLength(lostBlocks) \in Nat
  BY <1>1, BytesFinite
<1>3. /\ TotalLength(flightBlocks) = 0 <=> Bytes(flightBlocks) = {}
      /\ TotalLength(lostBlocks) = 0 <=> Bytes(lostBlocks) = {}
  BY <1>2, FS_EmptySet DEF TotalLength
<1>4. flight = TotalLength(flightBlocks) /\ lost = TotalLength(lostBlocks)
  BY DEF IndInv, FlightLostAccounting
<1>5. Bytes(Blocks) = Bytes(flightBlocks) \cup Bytes(lostBlocks)
  BY DEF Bytes, Blocks
<1>6. flight + lost > 0 <=> TotalLength(flightBlocks) # 0 \/ TotalLength(lostBlocks) # 0
  BY <1>2, <1>4
<1> QED
  BY <1>3, <1>5, <1>6

-----------------------------------------------------------------------------
(* The theorems.                                                           *)

\* Every step keeps the invariant.
LEMMA NextInv == IndInv /\ [Next]_vars => IndInv'
<1> SUFFICES ASSUME IndInv, [Next]_vars PROVE IndInv'
  OBVIOUS
<1>1. ASSUME NEW len \in 1 .. (MaxStreamPos - bufferStreamPos), AddBuffer(len)
      PROVE  IndInv'
  <2>1. len \in Nat
    OBVIOUS
  <2> QED
    BY <1>1, <2>1, AddBufferInv
<1>2. CASE FillNewPayload
  BY <1>2, FillNewPayloadInv
<1>3. CASE FillLostPayload
  BY <1>3, FillLostPayloadInv
<1>4. ASSUME NEW ack \in InitStreamPos .. streamPos, NEW sack \in Sacks(ack),
             ConfirmRange(ack, sack)
      PROVE  IndInv'
  <2>1. sack \in SUBSET Ranges(streamPos)
    BY DEF Sacks
  <2> QED
    BY <1>4, <2>1, ConfirmRangeInv
<1>5. ASSUME NEW late \in SUBSET flightBlocks, MarkRangeTimeout(late)
      PROVE  IndInv'
  BY <1>5, MarkRangeTimeoutInv
<1>6. ASSUME NEW seen \in InitStreamPos .. ackStreamPos, PopCompleteBuffers(seen)
      PROVE  IndInv'
  BY <1>6, PopCompleteBuffersInv
<1>7. CASE UNCHANGED vars
  <2>1. UNCHANGED <<ackStreamPos, streamPos, flightBlocks, lostBlocks, flight, lost,
                    latestAckStreamPos, prevDupAckStreamPos, dupAckTimes,
                    bufferStreamPos, unSendLength, offsetStreamPos, buffers, acked>>
    BY <1>7 DEF vars, contextVars, bufferVars
  <2>2. TypeOK' /\ PositionsOrdered'
    BY <2>1 DEF IndInv, TypeOK, PositionsOrdered
  <2>3. WellFormed(Blocks, streamPos)' /\ BlocksUnacked' /\ (flightBlocks \cap lostBlocks = {})'
    BY <2>1 DEF IndInv, WellFormed, Blocks, BlocksUnacked
  <2>4. FlightLostAccounting'
    BY <2>1 DEF IndInv, FlightLostAccounting, TotalLength, Bytes
  <2>5. AckedBelow' /\ OutstandingTracked' /\ BlocksInQueuedBuffers' /\ DupAckCounter'
    BY <2>1 DEF IndInv, AckedBelow, OutstandingTracked, BlocksInQueuedBuffers, DupAckCounter,
                Blocks, Bytes
  <2> QED
    BY <2>2, <2>3, <2>4, <2>5 DEF IndInv
<1> QED
  BY <1>1, <1>2, <1>3, <1>4, <1>5, <1>6, <1>7 DEF Next

\* IndInv holds in every reachable state of the send queue.
THEOREM Invariance == Spec => []IndInv
BY InitInv, NextInv, PTL DEF Spec

\* The send queue's variables keep their types.
THEOREM TypeCorrect == Spec => []TypeOK
<1>1. IndInv => TypeOK
  BY DEF IndInv
<1> QED
  BY <1>1, Invariance, PTL

\* The counters flight and lost are always the sums over their lists: the
\* debug asserts of SendQueueConfirmRange never fail.
THEOREM AccountingCorrect == Spec => []FlightLostAccounting
<1>1. IndInv => FlightLostAccounting
  BY DEF IndInv
<1> QED
  BY <1>1, Invariance, PTL

\* Blocks never overlap and never sit on both lists.
THEOREM DisjointCorrect == Spec => []BlocksDisjoint
<1>1. IndInv => BlocksDisjoint
  BY DEF IndInv, BlocksDisjoint, WellFormed
<1> QED
  BY <1>1, Invariance, PTL

\* A sent byte that no ack covered is always in a block: ConfirmRange,
\* MarkRangeTimeout and FillPayload never forget one.
THEOREM NothingForgotten == Spec => []OutstandingTracked
<1>1. IndInv => OutstandingTracked
  BY DEF IndInv
<1> QED
  BY <1>1, Invariance, PTL

\* No block outlives the buffer its data pointer points into.
THEOREM NoDanglingPayload == Spec => []BlocksInQueuedBuffers
<1>1. IndInv => BlocksInQueuedBuffers
  BY DEF IndInv
<1> QED
  BY <1>1, Invariance, PTL

\* While bytes are unsent, SendQueueGenerateBlock finds them in curr.
THEOREM UnsentCorrect == Spec => []UnsentInCurrBuffer
<1>1. IndInv => UnsentInCurrBuffer
  <2> SUFFICES ASSUME IndInv PROVE UnsentInCurrBuffer
    OBVIOUS
  <2>1. /\ streamPos = offsetStreamPos
        /\ unSendLength = bufferStreamPos - offsetStreamPos
    BY DEF IndInv, PositionsOrdered
  <2>2. ASSUME unSendLength > 0
        PROVE  \E b \in buffers : IsCurr(b)
    <3>1. offsetStreamPos \in ackStreamPos .. (bufferStreamPos - 1)
      BY <2>2 DEF IndInv, PositionsOrdered, TypeOK
    <3>2. PICK u \in buffers : u.start <= offsetStreamPos /\ offsetStreamPos < u.end
      BY <3>1 DEF IndInv, PositionsOrdered
    <3> QED
      BY <3>2 DEF IsCurr
  <2> QED
    BY <2>1, <2>2 DEF UnsentInCurrBuffer
<1> QED
  BY <1>1, Invariance, PTL

\* A duplicate-ack retransmission never fires twice for one position.
THEOREM FastRetransmitCorrect == Spec => FastRetransmitOnce
<1> DEFINE Hit == (latestAckStreamPos # 0 /\ latestAckStreamPos' = 0)
                    \/ prevDupAckStreamPos' # prevDupAckStreamPos
<1>1. ASSUME IndInv, Next, Hit
      PROVE  prevDupAckStreamPos' > prevDupAckStreamPos
  <2>1. PICK ack \in InitStreamPos .. streamPos : \E sack \in Sacks(ack) : ConfirmRange(ack, sack)
    BY <1>1 DEF Next, AddBuffer, FillNewPayload, FillLostPayload, MarkRangeTimeout,
                PopCompleteBuffers, contextVars
  <2>2. PICK sack \in Sacks(ack) : ConfirmRange(ack, sack)
    BY <2>1
  <2> DEFINE count  == CountDupAck(ack)
             newAck == MaxPos(ackStreamPos, ack)
             walked == Walked(count, newAck, sack)
             dupHit == count[2] = 4 /\ \E b \in walked : b.start = count[1]
  <2>3. /\ prevDupAckStreamPos' = IF dupHit THEN count[1] ELSE prevDupAckStreamPos
        /\ latestAckStreamPos' = IF dupHit THEN 0 ELSE count[1]
    BY <2>2 DEF ConfirmRange
  <2>4. \/ count[1] = newAck /\ prevDupAckStreamPos < newAck
        \/ count[1] = 0 /\ count[2] = 0 /\ prevDupAckStreamPos = newAck
    BY <1>1, CountDupAckInv
  <2>5. count[1] = latestAckStreamPos \/ count[1] = ack
    BY DEF CountDupAck
  <2>6. ack # 0
    BY SendQueueAssumption
  <2> HIDE DEF count, newAck, walked
  <2>7. dupHit
    BY <1>1, <2>3, <2>5, <2>6
  <2> QED
    BY <2>3, <2>4, <2>7
<1>2. IndInv /\ [Next]_vars
        => [Hit => prevDupAckStreamPos' > prevDupAckStreamPos]_vars
  BY <1>1
<1> QED
  BY <1>2, Invariance, PTL DEF Spec, FastRetransmitOnce

=============================================================================
