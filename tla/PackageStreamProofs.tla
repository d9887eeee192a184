------------------------- MODULE PackageStreamProofs -------------------------
(****************************************************************************)
(* Proofs about PackageStream.tla: over a network that loses, duplicates    *)
(* and reorders packages a package connection is a reliable ordered stream  *)
(* of bytes, its writer is a send queue and drops only what the reader has, *)
(* and when nothing is due on either side everything was delivered.         *)
(*                                                                          *)
(* The invariants of the two queues and the lemmas about their steps are    *)
(* those of SendQueueProofs and RecvQueueProofs.                            *)
(****************************************************************************)
EXTENDS PackageStream, FiniteSetTheorems, SequenceTheorems, TLAPS

SP == INSTANCE SendQueueProofs WITH
    ackStreamPos <- sAck, streamPos <- sPos, flightBlocks <- sFlight, lostBlocks <- sLost,
    flight <- sFlightLen, lost <- sLostLen, latestAckStreamPos <- sLatest,
    prevDupAckStreamPos <- sPrevDup, dupAckTimes <- sDup, bufferStreamPos <- sBufPos,
    unSendLength <- sUnsend, offsetStreamPos <- sOffset, buffers <- sBuffers, acked <- sAcked

\* A connection keeps the blocks as a set: RecvQueueList.tla's list is left empty.
RP == INSTANCE RecvQueueProofs WITH
    Segments <- {}, listAck <- 0, list <- <<>>, listLatest <- 0,
    ackStreamPos <- rAck, blocks <- rBlocks, latest <- rLatest, readStreamPos <- rRead,
    endStreamPos <- rEnd, buffers <- rBuffers, ready <- rReady, readyStreamPos <- rReadyPos,
    onNotifying <- rNotifying, recvTimer <- rTimer, pc <- rPc, job <- rJob

-----------------------------------------------------------------------------
(* The modules of the proofs contain the modules of the queues: what one    *)
(* calls S!A the other calls SP!A.                                          *)

(* The assumptions of the queues follow from those of the connection.      *)
LEMMA QueueAssumptions == SP!SendQueueAssumption /\ RP!RecvQueueAssumption
BY StreamAssumption DEF StreamAssumption, SP!SendQueueAssumption, RP!RecvQueueAssumption

(* The steps of the send queue.                                            *)
LEMMA SendSteps ==
  /\ S!Init => SP!Init
  /\ \A len : S!AddBuffer(len) => SP!AddBuffer(len)
  /\ S!FillNewPayload => SP!FillNewPayload
  /\ S!FillLostPayload => SP!FillLostPayload
  /\ \A late : S!MarkRangeTimeout(late) => SP!MarkRangeTimeout(late)
  /\ \A seen : S!PopCompleteBuffers(seen) => SP!PopCompleteBuffers(seen)
  /\ S!Blocks = SP!Blocks
<1> USE DEF S!contextVars, SP!contextVars, S!bufferVars, SP!bufferVars
<1>1. S!Init => SP!Init
  BY DEF S!Init, SP!Init
<1>2. \A len : S!AddBuffer(len) => SP!AddBuffer(len)
  BY Zenon DEF S!AddBuffer, SP!AddBuffer
<1>3. S!FillNewPayload => SP!FillNewPayload
  BY Zenon DEF S!FillNewPayload, SP!FillNewPayload, S!IsCurr, SP!IsCurr, S!GeneratedBlock, SP!GeneratedBlock
<1>4. S!FillLostPayload => SP!FillLostPayload
  BY Zenon DEF S!FillLostPayload, SP!FillLostPayload, S!IsFirst, SP!IsFirst
<1>5. \A late : S!MarkRangeTimeout(late) => SP!MarkRangeTimeout(late)
  BY Zenon DEF S!MarkRangeTimeout, SP!MarkRangeTimeout, S!TotalLength, SP!TotalLength,
       S!Bytes, SP!Bytes, S!BytesOf, SP!BytesOf, S!Cardinality, SP!Cardinality
<1>6. \A seen : S!PopCompleteBuffers(seen) => SP!PopCompleteBuffers(seen)
  BY Zenon DEF S!PopCompleteBuffers, SP!PopCompleteBuffers
<1>7. S!Blocks = SP!Blocks
  BY DEF S!Blocks, SP!Blocks
<1> QED
  BY <1>1, <1>2, <1>3, <1>4, <1>5, <1>6, <1>7

(* SendQueueConfirmRange, and the bytes of blocks.                         *)
LEMMA ConfirmStep ==
  /\ \A ack, sack : S!ConfirmRange(ack, sack) => SP!ConfirmRange(ack, sack)
  /\ \A X : S!Bytes(X) = SP!Bytes(X)
<1>1. ASSUME NEW ack, NEW sack, S!ConfirmRange(ack, sack) PROVE SP!ConfirmRange(ack, sack)
  BY <1>1, Zenon
     DEF S!ConfirmRange, SP!ConfirmRange, S!bufferVars, SP!bufferVars, S!CountDupAck, SP!CountDupAck,
         S!Walked, SP!Walked, S!WalkState, SP!WalkState, S!CheckBlockStateByAck,
         SP!CheckBlockStateByAck, S!TotalLength, SP!TotalLength, S!Bytes, SP!Bytes, S!BytesOf,
         SP!BytesOf, S!MaxPos, SP!MaxPos, S!Blocks, SP!Blocks, S!Cardinality, SP!Cardinality
<1>2. ASSUME NEW X PROVE S!Bytes(X) = SP!Bytes(X)
  BY Zenon DEF S!Bytes, SP!Bytes, S!BytesOf, SP!BytesOf
<1> QED
  BY <1>1, <1>2

(* The steps of the receive queue.                                         *)
LEMMA RecvSteps ==
  ASSUME NEW t
  PROVE  /\ R!UpdateStreamPos(t) => RP!UpdateStreamPos(t)
         /\ R!PopCompleteBuffers(t) => RP!PopCompleteBuffers(t)
         /\ R!QueueReady(t) => RP!QueueReady(t)
         /\ R!NotifyNext(t) => RP!NotifyNext(t)
         /\ R!Callback(t) => RP!Callback(t)
         /\ R!RecvTimerFires(t) => RP!RecvTimerFires(t)
<1> USE DEF R!blockVars, RP!blockVars, R!streamVars, RP!streamVars, R!readyVars, RP!readyVars,
            R!NoJob, RP!NoJob
<1>1. R!UpdateStreamPos(t) => RP!UpdateStreamPos(t)
  BY Zenon DEF R!UpdateStreamPos, RP!UpdateStreamPos, R!InOldBlock, RP!InOldBlock, R!InOrder, RP!InOrder,
       R!AddToBlocks, RP!AddToBlocks, R!First, RP!First, R!Touches, RP!Touches, R!MaxPos, RP!MaxPos,
       R!MinPos, RP!MinPos, R!Merged, RP!Merged, R!NoBlock, RP!NoBlock
<1>2. R!PopCompleteBuffers(t) => RP!PopCompleteBuffers(t)
  BY Zenon DEF R!PopCompleteBuffers, RP!PopCompleteBuffers, R!CanPop, RP!CanPop, R!PopStart, RP!PopStart
<1>3. R!QueueReady(t) => RP!QueueReady(t)
  BY Zenon DEF R!QueueReady, RP!QueueReady
<1>4. R!NotifyNext(t) => RP!NotifyNext(t)
  BY Zenon DEF R!NotifyNext, RP!NotifyNext
<1>5. R!Callback(t) => RP!Callback(t)
  BY Zenon DEF R!Callback, RP!Callback
<1>6. R!RecvTimerFires(t) => RP!RecvTimerFires(t)
  BY Zenon DEF R!RecvTimerFires, RP!RecvTimerFires
<1> QED
  BY <1>1, <1>2, <1>3, <1>4, <1>5, <1>6

(* RecvQueueCreate, RecvQueueAddBuffer, RecvQueueSavePayload and           *)
(* RecvQueueGetAckInfo.                                                    *)
LEMMA RecvCalls ==
  /\ R!Init => RP!Init
  /\ \A id : R!AddBuffer(id) => RP!AddBuffer(id)
  /\ \A t, s : R!SavePayload(t, s) => RP!SavePayload(t, s)
  /\ R!AckInfo = RP!AckInfo
<1> USE DEF R!blockVars, RP!blockVars, R!streamVars, RP!streamVars, R!readyVars, RP!readyVars,
            R!NoJob, RP!NoJob, R!NoBlock, RP!NoBlock
<1>1. R!Init => RP!Init
  BY Zenon DEF R!Init, RP!Init
<1>2. ASSUME NEW id PROVE R!AddBuffer(id) => RP!AddBuffer(id)
  BY Zenon DEF R!AddBuffer, RP!AddBuffer, R!IsQueued, RP!IsQueued
<1>3. ASSUME NEW t, NEW s PROVE R!SavePayload(t, s) => RP!SavePayload(t, s)
  BY Zenon DEF R!SavePayload, RP!SavePayload, R!SavedEnd, RP!SavedEnd, R!SaveInto, RP!SaveInto,
       R!BufferSpace, RP!BufferSpace, R!BufferBegin, RP!BufferBegin, R!MaxPos, RP!MaxPos,
       R!MinPos, RP!MinPos, R!BytesOf, RP!BytesOf, R!Cardinality, RP!Cardinality
<1>4. R!AckInfo = RP!AckInfo
  BY Zenon DEF R!AckInfo, RP!AckInfo, R!FirstBlocks, RP!FirstBlocks, R!Cardinality, RP!Cardinality
<1> QED
  BY <1>1, <1>2, <1>3, <1>4

-----------------------------------------------------------------------------
(* The inductive invariant.                                                *)

Datagrams == {m \in net : m.type = "data"}
Acks == {m \in net : m.type = "ack"}

RangeOf(x) == [start |-> x.start, end |-> x.end]

(* The ranges the stream was cut into, wherever they are now: on a list of *)
(* the writer, under way, or saved by a thread that has yet to enter them. *)
Payloads ==
    SP!Blocks \cup {RangeOf(m) : m \in Datagrams}
        \cup {RangeOf(rJob[t]) : t \in {u \in Threads : rPc[u] = "update"}}

(* The payloads P and the blocks B of the reader lie below top, and none   *)
(* of them begins inside a payload.                                        *)
CutOnce(P, B, top) ==
    /\ \A x \in P : /\ x \in SP!StreamRange /\ InitStreamPos <= x.start
                    /\ x.start < x.end /\ x.end <= top
                    /\ \A y \in P \cup B : y.start <= x.start \/ x.end <= y.start
    /\ \A b \in B : b.end <= top

(* The positions acknowledged to the writer or about to be, and those that *)
(* a SACK under way covers.                                                *)
AckPositions == {sAck} \cup {m.ack : m \in Acks}
SackPositions == UNION {SP!Bytes(m.sack) : m \in Acks}

(* What is acknowledged was received.  An ack position is never a position *)
(* that was SACKed: while the reader is at a position it does not have its *)
(* byte, and when the byte comes the ack position moves past it at once.   *)
AcksTrue ==
    /\ \A m \in Acks : m.sack \in SUBSET SP!Ranges(sPos)
    /\ \A v \in AckPositions : /\ v \in InitStreamPos .. rAck
                               /\ v \notin SackPositions
                               /\ v >= sAck => v \notin sAcked
    /\ \A p \in SackPositions \cup sAcked : RP!Received(rAck, rBlocks, p)

NetInv ==
    /\ CutOnce(Payloads, rBlocks, sPos)
    /\ rAck \in InitStreamPos .. sPos
    /\ AcksTrue

(* Send buffers do not overlap.                                            *)
BuffersApart ==
    /\ \A u \in sBuffers : u.start < u.end
    /\ \A u, v \in sBuffers : u = v \/ u.end <= v.start \/ v.end <= u.start

(* Bytes that wait to be sent always have something that will send them:   *)
(* a send loop that is due, or outstanding blocks.                         *)
UnsentHasDriver == sUnsend > 0 => sendDue \/ sFlightLen + sLostLen > 0

DriveInv ==
    /\ sendDue \in BOOLEAN
    /\ popDue \in SUBSET (InitStreamPos .. sAck)
    /\ BuffersApart
    /\ CompletionNotStranded
    /\ UnsentHasDriver

PipeInv == SP!IndInv /\ RP!RecvInv /\ DriveInv /\ NetInv

-----------------------------------------------------------------------------
(* How the cuts change.                                                    *)

(* Ranges may vanish, and the front part of a payload may be added.        *)
LEMMA CutPrefix ==
  ASSUME NEW P, NEW B, NEW top \in Nat, CutOnce(P, B, top), B \subseteq RP!StreamRange, NEW Q,
         NEW x \in P, NEW y \in SP!StreamRange, y.start = x.start, y.start < y.end, y.end <= x.end,
         Q \subseteq P \cup {y}
  PROVE  CutOnce(Q, B, top)
<1>1. \A z \in P : z.start \in Nat /\ z.end \in Nat
  BY DEF CutOnce, SP!StreamRange
<1>2. y.start \in Nat /\ y.end \in Nat
  BY DEF SP!StreamRange
<1>3. ASSUME NEW z \in Q
      PROVE  /\ z \in SP!StreamRange /\ InitStreamPos <= z.start /\ z.start < z.end /\ z.end <= top
             /\ \E w \in P : z.start = w.start /\ z.end <= w.end
  <2>1. CASE z = y
    BY <1>1, <1>2, <2>1 DEF CutOnce
  <2>2. CASE z \in P
    BY <1>1, <2>2 DEF CutOnce
  <2> QED
    BY <2>1, <2>2
<1>4. ASSUME NEW z \in Q, NEW u \in Q \cup B PROVE u.start <= z.start \/ z.end <= u.start
  <2>1. PICK w \in P : z.start = w.start /\ z.end <= w.end
    BY <1>3
  <2>2. PICK v \in P \cup B : u.start = v.start
    BY <1>3
  <2>3. v.start <= w.start \/ w.end <= v.start
    BY DEF CutOnce
  <2>4. CASE v.start <= w.start
    BY <2>1, <2>2, <2>4
  <2>5. CASE w.end <= v.start
    <3>1. v.start \in Nat
      BY <1>1 DEF RP!StreamRange
    <3> QED
      BY <1>1, <1>3, <2>1, <2>2, <2>5, <3>1 DEF SP!StreamRange
  <2> QED
    BY <2>3, <2>4, <2>5
<1> QED
  BY <1>3, <1>4 DEF CutOnce

(* Ranges may vanish.                                                      *)
LEMMA CutFewer ==
  ASSUME NEW P, NEW B, NEW top, CutOnce(P, B, top), NEW Q \in SUBSET P
  PROVE  CutOnce(Q, B, top)
BY DEF CutOnce

(* A new payload begins where the last one ended.                          *)
LEMMA CutNew ==
  ASSUME NEW P, NEW B, NEW top \in Nat, InitStreamPos <= top, CutOnce(P, B, top),
         B \subseteq RP!StreamRange, \A b \in B : b.start < b.end,
         NEW y \in SP!StreamRange, y.start = top, y.start < y.end, NEW Q, Q \subseteq P \cup {y}
  PROVE  CutOnce(Q, B, y.end)
<1>0. InitStreamPos \in Nat
  BY StreamAssumption DEF StreamAssumption
<1>1. \A z \in P : z.start \in Nat /\ z.end \in Nat
  BY DEF CutOnce, SP!StreamRange
<1>2. \A z \in B : z.start \in Nat /\ z.end \in Nat
  BY DEF RP!StreamRange
<1>3. y.start \in Nat /\ y.end \in Nat
  BY DEF SP!StreamRange
<1>4. \A z \in P \cup B : z.start <= top /\ z.end <= top
  BY <1>1, <1>2 DEF CutOnce
<1>5. \A z \in Q : /\ z \in SP!StreamRange /\ InitStreamPos <= z.start
                  /\ z.start < z.end /\ z.end <= y.end
  BY <1>0, <1>1, <1>3, <1>4 DEF CutOnce
<1>6. \A b \in B : b.end <= y.end
  BY <1>2, <1>3, <1>4
<1>7. ASSUME NEW z \in Q, NEW u \in Q \cup B PROVE u.start <= z.start \/ z.end <= u.start
  <2>1. CASE z = y
    BY <1>1, <1>2, <1>3, <1>4, <2>1
  <2>2. CASE z # y /\ u = y
    BY <1>1, <1>3, <1>4, <2>2
  <2>3. CASE z # y /\ u # y
    BY <2>3 DEF CutOnce
  <2> QED
    BY <2>1, <2>2, <2>3
<1> QED
  BY <1>5, <1>6, <1>7 DEF CutOnce

(* Blocks join with each other and with a payload.                         *)
LEMMA CutJoined ==
  ASSUME NEW P, NEW B, NEW top, CutOnce(P, B, top), NEW r, NEW x \in P, r.start = x.start, r.end = x.end,
         NEW a, NEW a2, NEW B2, RP!Grows(a, B, r, a2, B2), NEW Q \in SUBSET P
  PROVE  CutOnce(Q, B2, top)
<1>1. \A b \in B2 : \E c \in P \cup B : b.start = c.start
  BY DEF RP!Grows
<1>2. \A b \in B2 : b.end <= top
  BY DEF RP!Grows, CutOnce
<1>3. \A z \in Q, y \in Q \cup B2 : y.start <= z.start \/ z.end <= y.start
  BY <1>1 DEF CutOnce
<1> QED
  BY <1>2, <1>3 DEF CutOnce

-----------------------------------------------------------------------------
(* What the steps leave alone.                                             *)

(* The positions that a SACK under way covers are positions of the stream. *)
LEMMA SackIsPosition ==
  ASSUME AcksTrue, sPos \in Nat
  PROVE  SackPositions \subseteq Nat
<1> SUFFICES ASSUME NEW m \in Acks, NEW b \in m.sack, NEW p \in SP!BytesOf(b) PROVE p \in Nat
  BY DEF SackPositions, SP!Bytes
<1>1. b \in SP!Ranges(sPos)
  BY DEF AcksTrue
<1>2. b.start \in Nat /\ b.end \in Nat
  BY <1>1, StreamAssumption DEF SP!Ranges, StreamAssumption
<1> QED
  BY <1>2 DEF SP!BytesOf

(* Acks stay true while they vanish and the reader receives more.          *)
LEMMA AcksFrame ==
  ASSUME AcksTrue, Acks' \subseteq Acks, UNCHANGED <<sAck, sAcked>>, sAcked \subseteq Nat,
         sPos \in Nat, sPos' \in Nat, sPos <= sPos', rAck \in Nat, rAck' \in Nat, rAck <= rAck',
         \A p \in Nat : RP!Received(rAck, rBlocks, p) => RP!Received(rAck', rBlocks', p)
  PROVE  AcksTrue'
<1>1. AckPositions' \subseteq AckPositions /\ SackPositions' \subseteq SackPositions
  BY DEF AckPositions, SackPositions
<1>2. SackPositions \subseteq Nat
  BY SackIsPosition
<1>3. ASSUME NEW m \in Acks' PROVE m.sack \in SUBSET SP!Ranges(sPos')
  <2>1. m.sack \in SUBSET SP!Ranges(sPos)
    BY <1>3 DEF AcksTrue
  <2>2. SP!Ranges(sPos) \subseteq SP!Ranges(sPos')
    <3> SUFFICES ASSUME NEW r \in SP!Ranges(sPos) PROVE r \in SP!Ranges(sPos')
      OBVIOUS
    <3>1. InitStreamPos .. sPos \subseteq InitStreamPos .. sPos'
      BY StreamAssumption DEF StreamAssumption
    <3> QED
      BY <3>1 DEF SP!Ranges
  <2> QED
    BY <2>1, <2>2
<1>4. ASSUME NEW v \in AckPositions'
      PROVE  v \in InitStreamPos .. rAck' /\ v \notin SackPositions' /\ (v >= sAck' => v \notin sAcked')
  <2>1. v \in InitStreamPos .. rAck /\ v \notin SackPositions /\ (v >= sAck => v \notin sAcked)
    BY <1>1 DEF AcksTrue
  <2>2. v \in InitStreamPos .. rAck'
    BY <2>1, StreamAssumption DEF StreamAssumption
  <2> QED
    BY <1>1, <2>1, <2>2
<1>5. ASSUME NEW p \in SackPositions' \cup sAcked' PROVE RP!Received(rAck', rBlocks', p)
  <2>1. p \in Nat /\ p \in SackPositions \cup sAcked
    BY <1>1, <1>2
  <2> QED
    BY <2>1 DEF AcksTrue
<1> QED
  BY <1>3, <1>4, <1>5 DEF AcksTrue

(* The network keeps its invariant while packages vanish, the writer drops *)
(* blocks and no thread comes to hold a payload.                           *)
LEMMA NetFrame ==
  ASSUME NetInv, SP!IndInv, net' \subseteq net, UNCHANGED <<sAck, sPos, sAcked, rAck, rBlocks>>,
         SP!Blocks' \subseteq SP!Blocks, RP!Holds
  PROVE  NetInv'
<1>1. Acks' \subseteq Acks /\ Datagrams' \subseteq Datagrams
  BY DEF Acks, Datagrams
<1>2. Payloads' \subseteq Payloads
  BY <1>1 DEF Payloads, RP!Holds
<1>3. sPos \in Nat /\ sAcked \subseteq Nat
  BY DEF SP!IndInv, SP!TypeOK
<1>4. rAck \in Nat
  BY StreamAssumption DEF NetInv, StreamAssumption
<1>5. AcksTrue'
  BY <1>1, <1>3, <1>4, AcksFrame DEF NetInv
<1>6. CutOnce(Payloads, rBlocks, sPos)'
  BY <1>2, CutFewer DEF NetInv
<1> QED
  BY <1>5, <1>6 DEF NetInv

(* The queues and the send loop, when a step is not theirs.                *)
LEMMA SendFrame ==
  ASSUME SP!IndInv, UNCHANGED sendVars
  PROVE  SP!IndInv' /\ SP!Blocks' = SP!Blocks
<1>1. UNCHANGED SP!vars
  BY DEF sendVars, sendContext, SP!vars, SP!contextVars, SP!bufferVars
<1>2. SP!Blocks' = SP!Blocks
  BY DEF sendVars, sendContext, SP!Blocks
<1> QED
  BY <1>1, <1>2, QueueAssumptions, SP!NextInv

LEMMA RecvFrame ==
  ASSUME RP!RecvInv, UNCHANGED recvVars
  PROVE  RP!RecvInv' /\ RP!Holds
<1> USE DEF recvVars
<1>1. RP!RecvTypes'
  BY DEF RP!RecvInv, RP!RecvTypes
<1>2. /\ UNCHANGED <<RP!blockVars, RP!streamVars>> /\ UNCHANGED <<RP!readyVars, rRead, delivered>>
      /\ \A u \in Threads : rPc'[u] = rPc[u] /\ rJob'[u] = rJob[u]
  BY DEF RP!blockVars, RP!streamVars, RP!readyVars
<1>3. RP!StreamInv /\ RP!QueueInv /\ InitStreamPos <= rReadyPos' /\ rReadyPos' <= rRead
  BY DEF RP!RecvInv, RP!StreamInv, RP!Positions
<1>4. RP!StreamInv'
  BY <1>2, <1>3, QueueAssumptions, RP!StreamFrame
<1>5. RP!QueueInv'
  BY <1>2, <1>3, QueueAssumptions, RP!QueueFrame
<1> QED
  BY <1>1, <1>2, <1>4, <1>5 DEF RP!RecvInv, RP!Holds

LEMMA DriveFrame ==
  ASSUME DriveInv, UNCHANGED <<sendVars, driveVars>>
  PROVE  DriveInv'
<1> USE DEF sendVars, sendContext, driveVars
<1>1. BuffersApart' /\ CompletionNotStranded' /\ UnsentHasDriver'
  BY DEF DriveInv, BuffersApart, CompletionNotStranded, UnsentHasDriver
<1> QED
  BY <1>1 DEF DriveInv

-----------------------------------------------------------------------------
(* The steps of the writing side keep the invariant.                       *)

LEMMA WriteInv ==
  ASSUME PipeInv, NEW len \in 1 .. (MaxStreamPos - sBufPos), Write(len)
  PROVE  PipeInv'
<1>1. SP!IndInv /\ RP!RecvInv /\ DriveInv /\ NetInv
  BY DEF PipeInv
<1>2. len \in Nat /\ len > 0
  BY <1>1, StreamAssumption DEF StreamAssumption, SP!IndInv, SP!TypeOK
<1>3. SP!AddBuffer(len) /\ sendDue' = (sendDue \/ sUnsend = 0) /\ UNCHANGED <<popDue, recvVars, newAck, net>>
  BY SendSteps DEF Write
<1>4. /\ sBuffers' = sBuffers \cup {[start |-> sBufPos, end |-> sBufPos + len]}
      /\ sUnsend' = sUnsend + len /\ sBufPos' = sBufPos + len
      /\ UNCHANGED <<sAck, sPos, sFlight, sLost, sFlightLen, sLostLen, sAcked>>
  BY <1>3 DEF SP!AddBuffer, SP!contextVars
<1>5. SP!IndInv'
  BY <1>1, <1>2, <1>3, QueueAssumptions, SP!AddBufferInv
<1>6. RP!RecvInv' /\ RP!Holds
  BY <1>1, <1>3, RecvFrame
<1>7. NetInv'
  <2>1. SP!Blocks' = SP!Blocks /\ UNCHANGED <<rAck, rBlocks>>
    BY <1>3, <1>4 DEF SP!Blocks, recvVars
  <2> QED
    BY <1>1, <1>3, <1>4, <1>6, <2>1, NetFrame
<1>8. DriveInv'
  <2> DEFINE b == [start |-> sBufPos, end |-> sBufPos + len]
  <2>1. /\ sBufPos \in Nat /\ sAck \in Nat /\ sUnsend \in Nat /\ sAck <= sBufPos
        /\ \A u \in sBuffers : u.start \in Nat /\ u.end \in Nat /\ u.end <= sBufPos
    BY <1>1 DEF SP!IndInv, SP!TypeOK, SP!PositionsOrdered, SP!StreamRange
  <2>2. BuffersApart'
    BY <1>1, <1>2, <1>4, <2>1 DEF DriveInv, BuffersApart
  <2>3. CompletionNotStranded'
    <3> SUFFICES ASSUME NEW u \in sBuffers', u.end <= sAck' PROVE \E due \in popDue' : u.end <= due
      BY DEF CompletionNotStranded
    <3>1. u # b
      BY <1>2, <1>4, <2>1
    <3> QED
      BY <1>1, <1>3, <1>4, <3>1 DEF DriveInv, CompletionNotStranded
  <2>4. UnsentHasDriver'
    <3>1. sUnsend > 0 => sendDue \/ sFlightLen + sLostLen > 0
      BY <1>1 DEF DriveInv, UnsentHasDriver
    <3>2. sUnsend > 0 \/ sUnsend = 0
      BY <2>1
    <3>3. sendDue' \/ sFlightLen' + sLostLen' > 0
      BY <1>3, <1>4, <3>1, <3>2, Zenon
    <3> QED
      BY <3>3 DEF UnsentHasDriver
  <2>5. sendDue' \in BOOLEAN /\ popDue' \in SUBSET (InitStreamPos .. sAck')
    BY <1>1, <1>3, <1>4, Zenon DEF DriveInv
  <2> QED
    BY <2>2, <2>3, <2>4, <2>5 DEF DriveInv
<1> QED
  BY <1>5, <1>6, <1>7, <1>8 DEF PipeInv

LEMMA DriveEndsInv ==
  ASSUME PipeInv, DriveEnds
  PROVE  PipeInv'
<1>1. SP!IndInv /\ RP!RecvInv /\ DriveInv /\ NetInv
  BY DEF PipeInv
<1>2. /\ sUnsend + sLostLen = 0 \/ sFlightLen > Mtu
      /\ sendDue' = FALSE /\ UNCHANGED <<sendVars, popDue, recvVars, newAck, net>>
  BY DEF DriveEnds
<1>3. SP!IndInv' /\ SP!Blocks' = SP!Blocks
  BY <1>1, <1>2, SendFrame
<1>4. RP!RecvInv' /\ RP!Holds
  BY <1>1, <1>2, RecvFrame
<1>5. NetInv'
  BY <1>1, <1>2, <1>3, <1>4, NetFrame DEF sendVars, sendContext, recvVars
<1>6. DriveInv'
  <2>1. sUnsend \in Nat /\ sLostLen \in Nat /\ sFlightLen \in Nat
    BY <1>1 DEF SP!IndInv, SP!TypeOK
  <2>2. UnsentHasDriver'
    BY <1>2, <2>1, StreamAssumption DEF UnsentHasDriver, sendVars, sendContext, StreamAssumption
  <2>3. BuffersApart' /\ CompletionNotStranded' /\ popDue' \in SUBSET (InitStreamPos .. sAck')
    BY <1>1, <1>2 DEF DriveInv, BuffersApart, CompletionNotStranded, sendVars, sendContext
  <2> QED
    BY <1>2, <2>2, <2>3 DEF DriveInv
<1> QED
  BY <1>3, <1>4, <1>5, <1>6 DEF PipeInv

(* PackageConnectionRtoTimerCallback moves blocks from one list to the     *)
(* other.                                                                  *)
LEMMA RtoTimerInv ==
  ASSUME PipeInv, NEW late \in SUBSET sFlight, RtoTimer(late)
  PROVE  PipeInv'
<1>1. SP!IndInv /\ RP!RecvInv /\ DriveInv /\ NetInv
  BY DEF PipeInv
<1>2. SP!MarkRangeTimeout(late) /\ sendDue' = TRUE /\ UNCHANGED <<popDue, recvVars, newAck, net>>
  BY SendSteps DEF RtoTimer
<1>3. SP!IndInv'
  BY <1>1, <1>2, QueueAssumptions, SP!MarkRangeTimeoutInv
<1>4. SP!Blocks' = SP!Blocks /\ UNCHANGED <<sAck, sPos, sBufPos, sUnsend, sOffset, sBuffers, sAcked>>
  BY <1>1, <1>2, QueueAssumptions, SP!MoveEffect DEF SP!bufferVars
<1>5. RP!RecvInv' /\ RP!Holds
  BY <1>1, <1>2, RecvFrame
<1>6. NetInv'
  BY <1>1, <1>2, <1>4, <1>5, NetFrame DEF recvVars
<1>7. DriveInv'
  BY <1>1, <1>2, <1>4 DEF DriveInv, BuffersApart, CompletionNotStranded, UnsentHasDriver
<1> QED
  BY <1>3, <1>5, <1>6, <1>7 DEF PipeInv

(* A handler that pops gives back every buffer below the position its ack  *)
(* made: what stays behind is left to another handler.                     *)
LEMMA PopCompleteInv ==
  ASSUME PipeInv, NEW due \in popDue, PopComplete(due)
  PROVE  PipeInv'
<1>1. SP!IndInv /\ RP!RecvInv /\ DriveInv /\ NetInv
  BY DEF PipeInv
<1>2. popDue' = popDue \ {due} /\ UNCHANGED <<sendDue, recvVars, newAck, net>>
  BY DEF PopComplete
<1>3. PICK seen \in due .. sAck :
        \/ SP!PopCompleteBuffers(seen)
        \/ (\A b \in sBuffers : b.end > seen) /\ UNCHANGED sendVars
  BY SendSteps DEF PopComplete
<1>4. /\ due \in InitStreamPos .. sAck /\ InitStreamPos \in Nat /\ sAck \in Nat
      /\ \A b \in sBuffers : b.end \in Nat
  BY <1>1, StreamAssumption DEF DriveInv, StreamAssumption, SP!IndInv, SP!TypeOK, SP!StreamRange
<1>5. seen \in InitStreamPos .. sAck /\ due \in Nat /\ due <= seen
  BY <1>4
<1>6. SP!IndInv'
  BY <1>1, <1>3, <1>5, QueueAssumptions, SP!PopCompleteBuffersInv, SendFrame
<1>7. /\ sBuffers' = {b \in sBuffers : b.end > seen}
      /\ UNCHANGED <<sAck, sPos, sFlight, sLost, sFlightLen, sLostLen, sBufPos, sUnsend, sOffset, sAcked>>
  BY <1>3 DEF SP!PopCompleteBuffers, SP!contextVars, sendVars, sendContext
<1>8. RP!RecvInv' /\ RP!Holds
  BY <1>1, <1>2, RecvFrame
<1>9. NetInv'
  <2>1. SP!Blocks' = SP!Blocks /\ UNCHANGED <<rAck, rBlocks>>
    BY <1>2, <1>7 DEF SP!Blocks, recvVars
  <2> QED
    BY <1>1, <1>2, <1>7, <1>8, <2>1, NetFrame
<1>10. DriveInv'
  <2>1. CompletionNotStranded'
    <3> SUFFICES ASSUME NEW b \in sBuffers', b.end <= sAck' PROVE \E d \in popDue' : b.end <= d
      BY DEF CompletionNotStranded
    <3>1. b \in sBuffers /\ b.end > seen
      BY <1>7
    <3>2. PICK d \in popDue : b.end <= d
      BY <1>1, <1>7, <3>1 DEF DriveInv, CompletionNotStranded
    <3>3. d # due
      BY <1>4, <1>5, <3>1, <3>2
    <3> QED
      BY <1>2, <3>2, <3>3
  <2>2. BuffersApart'
    BY <1>1, <1>7 DEF DriveInv, BuffersApart
  <2> QED
    BY <1>1, <1>2, <1>7, <2>1, <2>2 DEF DriveInv, UnsentHasDriver
<1> QED
  BY <1>6, <1>8, <1>9, <1>10 DEF PipeInv

(* A package that is handed to the tunnel is under way with the others, or *)
(* without one of them.                                                    *)
LEMMA TransmitNet ==
  ASSUME NEW m, Transmit(m)
  PROVE  net' \subseteq net \cup {m}
BY DEF Transmit

(* A block that leaves is a payload already, or it begins where the stream *)
(* ended.                                                                  *)
LEMMA SendPayloadInv ==
  ASSUME PipeInv, SendPayload
  PROVE  PipeInv'
<1>1. SP!IndInv /\ RP!RecvInv /\ DriveInv /\ NetInv
  BY DEF PipeInv
<1>2. /\ sendDue /\ UNCHANGED <<driveVars, recvVars, newAck>>
      /\ SP!FillNewPayload \/ SP!FillLostPayload
  BY SendSteps DEF SendPayload
<1>3. PICK b \in sFlight' \ sFlight : Transmit(Data(b))
  BY DEF SendPayload
<1>4. SP!IndInv'
  BY <1>1, <1>2, QueueAssumptions, SP!FillNewPayloadInv, SP!FillLostPayloadInv
<1>5. RP!RecvInv' /\ RP!Holds
  BY <1>1, <1>2, RecvFrame
<1>6. /\ sPos \in Nat /\ sPos' \in Nat /\ sAcked \subseteq Nat
      /\ b \in SP!StreamRange /\ b \in SP!Blocks' /\ b.start \in Nat /\ b.end \in Nat
  BY <1>1, <1>4 DEF SP!IndInv, SP!TypeOK, SP!StreamRange, SP!Blocks
<1>7. Acks' \subseteq Acks /\ Datagrams' \subseteq Datagrams \cup {Data(b)}
  <2>1. net' \subseteq net \cup {Data(b)}
    BY <1>3, TransmitNet
  <2> QED
    BY <2>1 DEF Acks, Datagrams, Data
<1>8. RangeOf(Data(b)) = b
  BY <1>6 DEF RangeOf, Data, SP!StreamRange
<1>9. SP!Blocks' \subseteq SP!Blocks \cup {b} => Payloads' \subseteq Payloads \cup {b}
  BY <1>2, <1>7, <1>8 DEF Payloads, recvVars
<1>10. /\ UNCHANGED <<sAck, sBufPos, sBuffers, sAcked, rAck, rBlocks>> /\ sPos <= sPos'
       /\ CutOnce(Payloads', rBlocks', sPos')
  <2>1. rBlocks \subseteq RP!StreamRange /\ \A c \in rBlocks : c.start < c.end
    BY <1>1 DEF RP!RecvInv, RP!RecvTypes, RP!StreamInv, RP!BlocksAheadOfAck
  <2>2. CASE SP!FillNewPayload
    <3>1. PICK y \in SP!StreamRange :
            /\ y.start = sPos /\ y.end = sPos' /\ sPos < sPos'
            /\ SP!Blocks' = SP!Blocks \cup {y} /\ sFlight' = sFlight \cup {y}
            /\ UNCHANGED <<sAck, sBufPos, sBuffers, sAcked>>
      BY <1>1, <2>2, QueueAssumptions, SP!NewPayloadEffect
    <3>2. b = y
      BY <3>1
    <3>3. Payloads' \subseteq Payloads \cup {y}
      BY <1>9, <3>1, <3>2
    <3>4. CutOnce(Payloads, rBlocks, sPos) /\ InitStreamPos <= sPos
      BY <1>1, <1>6, StreamAssumption DEF NetInv, StreamAssumption
    <3>5. CutOnce(Payloads', rBlocks, y.end)
      BY <1>6, <2>1, <3>1, <3>3, <3>4, CutNew
    <3>6. UNCHANGED <<rAck, rBlocks>>
      BY <1>2 DEF recvVars
    <3> QED
      BY <1>6, <3>1, <3>5, <3>6
  <2>3. CASE SP!FillLostPayload
    <3>1. SP!Blocks' = SP!Blocks /\ UNCHANGED <<sAck, sPos, sBufPos, sBuffers, sAcked>>
      BY <1>1, <2>3, QueueAssumptions, SP!MoveEffect DEF SP!bufferVars
    <3>2. b \in Payloads
      BY <1>6, <3>1 DEF Payloads
    <3>3. Payloads' \subseteq Payloads
      BY <1>9, <3>1, <3>2
    <3>4. CutOnce(Payloads', rBlocks, sPos)
      BY <1>1, <3>3, CutFewer DEF NetInv
    <3> QED
      BY <1>2, <1>6, <3>1, <3>4 DEF recvVars
  <2> QED
    BY <1>2, <2>2, <2>3
<1>11. NetInv'
  <2>1. rAck \in Nat /\ rAck \in InitStreamPos .. sPos
    BY <1>1, StreamAssumption DEF NetInv, StreamAssumption
  <2>2. rAck' \in InitStreamPos .. sPos'
    BY <1>6, <1>10, <2>1, StreamAssumption DEF StreamAssumption
  <2>3. AcksTrue'
    BY <1>1, <1>6, <1>7, <1>10, <2>1, AcksFrame DEF NetInv
  <2> QED
    BY <1>10, <2>2, <2>3 DEF NetInv
<1>12. DriveInv'
  BY <1>1, <1>2, <1>10
     DEF DriveInv, BuffersApart, CompletionNotStranded, UnsentHasDriver, driveVars
<1> QED
  BY <1>4, <1>5, <1>11, <1>12 DEF PipeInv

(* The counters of the writer say whether a byte is outstanding, before    *)
(* and after a step.                                                       *)
Counted == sFlightLen + sLostLen > 0 <=> SP!Bytes(SP!Blocks) # {}

LEMMA Outstanding == (SP!IndInv => Counted) /\ (SP!IndInv' => Counted')
<1>1. SP!IndInv => Counted
  BY QueueAssumptions, SP!OutstandingCounted DEF Counted
<1>2. SP!IndInv' => Counted'
  BY <1>1, PTL
<1> QED
  BY <1>1, <1>2

(* An ack is true, so the position it raises is one that the reader does   *)
(* not have, and what it covers was received.                              *)
LEMMA ReceiveAckNet ==
  ASSUME PipeInv, NEW m \in Acks, UNCHANGED <<net, recvVars, sPos>>,
         sAck' \in {sAck, m.ack}, sAck <= sAck', m.ack <= sAck', SP!Blocks' \subseteq SP!Blocks,
         sAcked' = sAcked \cup (InitStreamPos .. (m.ack - 1)) \cup SP!Bytes(m.sack)
  PROVE  NetInv'
<1>1. SP!IndInv /\ RP!RecvInv /\ NetInv /\ AcksTrue /\ UNCHANGED <<Acks, rAck, rBlocks, rPc, rJob>>
  BY DEF PipeInv, NetInv, Acks, recvVars
<1>2. /\ m.ack \in AckPositions /\ SP!Bytes(m.sack) \subseteq SackPositions
      /\ AckPositions' \subseteq AckPositions /\ SackPositions' = SackPositions
  BY <1>1 DEF AckPositions, SackPositions
<1>3. /\ sAck \in Nat /\ sPos \in Nat /\ sAcked \subseteq Nat /\ InitStreamPos \in Nat
      /\ rAck \in InitStreamPos .. sPos
      /\ \A v \in AckPositions : v \in InitStreamPos .. rAck /\ v \in Nat /\ v <= rAck /\ InitStreamPos <= v
  BY <1>1, StreamAssumption DEF SP!IndInv, SP!TypeOK, StreamAssumption, NetInv, AcksTrue
<1>4. ASSUME NEW v \in AckPositions, v >= sAck' PROVE v \notin sAcked'
  <2>1. v \in Nat /\ m.ack \in Nat /\ sAck' \in Nat
    BY <1>2, <1>3
  <2>2. v >= sAck /\ v >= m.ack
    BY <1>3, <1>4, <2>1
  <2>3. v \notin sAcked /\ v \notin SackPositions
    BY <1>1, <2>2 DEF AcksTrue
  <2>4. v \notin InitStreamPos .. (m.ack - 1)
    BY <2>1, <2>2
  <2> QED
    BY <1>2, <2>3, <2>4
<1>5. ASSUME NEW p \in SackPositions \cup sAcked' PROVE RP!Received(rAck, rBlocks, p)
  <2>1. CASE p \in InitStreamPos .. (m.ack - 1)
    BY <1>2, <1>3, <2>1 DEF RP!Received
  <2>2. CASE p \in SackPositions \cup sAcked
    BY <1>1, <2>2 DEF AcksTrue
  <2> QED
    BY <1>2, <2>1, <2>2
<1>6. AcksTrue'
  BY <1>1, <1>2, <1>4, <1>5 DEF AcksTrue
<1>7. CutOnce(Payloads', rBlocks', sPos')
  <2>1. Payloads' \subseteq Payloads
    BY <1>1 DEF Payloads, Datagrams
  <2> QED
    BY <1>1, <2>1, CutFewer DEF NetInv
<1> QED
  BY <1>1, <1>6, <1>7 DEF NetInv

(* An ack that confirms no block completes no buffer: at the ack position  *)
(* of the writer there is a block, its buffer is not complete after the    *)
(* step either, and it is the first one above the ack position.            *)
LEMMA NothingCompleted ==
  ASSUME PipeInv, SP!IndInv', UNCHANGED <<sBuffers, sPos>>, sAck <= sAck',
         SP!Bytes(SP!Blocks') = SP!Bytes(SP!Blocks), NEW b \in sBuffers, b.end <= sAck'
  PROVE  b.end <= sAck
<1> SUFFICES ASSUME b.end > sAck PROVE FALSE
  BY DEF PipeInv, SP!IndInv, SP!TypeOK, SP!StreamRange
<1>1. SP!IndInv /\ DriveInv /\ AcksTrue
  BY DEF PipeInv, NetInv
<1>2. /\ sAck \in Nat /\ sAck' \in Nat /\ sPos \in Nat /\ b.start \in Nat /\ b.end \in Nat
      /\ InitStreamPos <= sAck /\ sAck' <= sPos /\ b.start < b.end
      /\ \A u \in sBuffers : u.start \in Nat /\ u.end \in Nat
  BY <1>1 DEF SP!IndInv, SP!TypeOK, SP!PositionsOrdered, SP!StreamRange, DriveInv, BuffersApart
<1>3. sAck \in InitStreamPos .. (sPos - 1)
  BY <1>2, StreamAssumption DEF StreamAssumption
<1>4. sAck \notin sAcked
  BY <1>1, <1>2 DEF AcksTrue, AckPositions
<1>5. sAck \in SP!Bytes(SP!Blocks')
  BY <1>1, <1>3, <1>4 DEF SP!IndInv, SP!OutstandingTracked
<1>6. PICK c \in SP!Blocks' : sAck \in SP!BytesOf(c)
  BY <1>5 DEF SP!Bytes
<1>7. c.start \in Nat /\ c.end \in Nat
  BY DEF SP!IndInv, SP!WellFormed, SP!StreamRange
<1>8. c.start <= sAck /\ c.end > sAck'
  BY <1>6, <1>7 DEF SP!BytesOf, SP!IndInv, SP!BlocksUnacked
<1>9. PICK u \in sBuffers : u.start <= c.start /\ c.end <= u.end
  BY DEF SP!IndInv, SP!BlocksInQueuedBuffers
<1>10. b = u \/ b.end <= u.start \/ u.end <= b.start
  BY <1>1 DEF DriveInv, BuffersApart
<1> QED
  BY <1>2, <1>7, <1>8, <1>9, <1>10

LEMMA ReceiveAckInv ==
  ASSUME PipeInv, NEW m \in net, ReceiveAck(m)
  PROVE  PipeInv'
<1> DEFINE confirmed == SP!Bytes(SP!Blocks) # SP!Bytes(SP!Blocks')
<1>1. SP!IndInv /\ RP!RecvInv /\ DriveInv /\ NetInv
  BY DEF PipeInv
<1>2. m \in Acks /\ SP!ConfirmRange(m.ack, m.sack) /\ UNCHANGED <<recvVars, newAck, net>>
  BY ConfirmStep DEF ReceiveAck, Acks
<1>3. /\ sendDue' = (sendDue \/ confirmed)
      /\ popDue' = IF confirmed THEN popDue \cup {sAck'} ELSE popDue
  <2>1. /\ S!Bytes(S!Blocks) = SP!Bytes(SP!Blocks)
        /\ S!Bytes(S!Blocks') = SP!Bytes(SP!Blocks')
    BY ConfirmStep DEF S!Blocks, SP!Blocks
  <2> QED
    BY <2>1, Zenon DEF ReceiveAck
<1> HIDE DEF confirmed
<1>4. m.ack \in InitStreamPos .. sPos /\ m.sack \in SUBSET SP!Ranges(sPos)
  <2>1. m.ack \in AckPositions
    BY <1>2 DEF AckPositions
  <2>2. /\ m.ack \in InitStreamPos .. rAck /\ rAck \in InitStreamPos .. sPos
        /\ m.sack \in SUBSET SP!Ranges(sPos)
    BY <1>1, <1>2, <2>1 DEF NetInv, AcksTrue
  <2> QED
    BY <1>1, <2>2, StreamAssumption DEF StreamAssumption, SP!IndInv, SP!TypeOK
<1>5. SP!IndInv'
  BY <1>1, <1>2, <1>4, QueueAssumptions, SP!ConfirmRangeInv
<1>6. /\ sAck' \in {sAck, m.ack} /\ sAck <= sAck' /\ m.ack <= sAck'
      /\ SP!Blocks' \subseteq SP!Blocks
      /\ sAcked' = sAcked \cup (InitStreamPos .. (m.ack - 1)) \cup SP!Bytes(m.sack)
      /\ UNCHANGED <<sPos, sBufPos, sUnsend, sOffset, sBuffers>>
  BY <1>1, <1>2, <1>4, QueueAssumptions, SP!ConfirmEffect
<1>7. RP!RecvInv'
  BY <1>1, <1>2, RecvFrame
<1>8. NetInv'
  BY <1>2, <1>6, ReceiveAckNet
<1>9. sendDue' \in BOOLEAN
  BY <1>1, <1>3, Zenon DEF DriveInv, confirmed
<1>10. popDue' \in SUBSET (InitStreamPos .. sAck')
  <2>1. /\ sAck \in Nat /\ sAck' \in Nat /\ InitStreamPos \in Nat /\ InitStreamPos <= sAck
        /\ popDue \in SUBSET (InitStreamPos .. sAck)
    BY <1>1, <1>5, StreamAssumption DEF SP!IndInv, SP!TypeOK, SP!PositionsOrdered, StreamAssumption, DriveInv
  <2>2. InitStreamPos .. sAck \subseteq InitStreamPos .. sAck' /\ sAck' \in InitStreamPos .. sAck'
    BY <1>6, <2>1
  <2> QED
    BY <1>3, <2>1, <2>2
<1>11. BuffersApart'
  BY <1>1, <1>6 DEF DriveInv, BuffersApart
<1>12. CompletionNotStranded'
  <2> SUFFICES ASSUME NEW b \in sBuffers, b.end <= sAck' PROVE \E due \in popDue' : b.end <= due
    BY <1>6 DEF CompletionNotStranded
  <2>1. CASE confirmed
    BY <1>3, <2>1
  <2>2. CASE ~confirmed
    <3>1. b.end <= sAck
      BY <1>5, <1>6, <2>2, NothingCompleted DEF confirmed
    <3> QED
      BY <1>1, <1>3, <2>2, <3>1 DEF DriveInv, CompletionNotStranded
  <2> QED
    BY <2>1, <2>2
<1>13. UnsentHasDriver'
  <2>1. /\ sFlightLen + sLostLen > 0 <=> SP!Bytes(SP!Blocks) # {}
        /\ sFlightLen' + sLostLen' > 0 <=> SP!Bytes(SP!Blocks') # {}
    BY <1>1, <1>5, Outstanding DEF Counted
  <2>2. CASE confirmed
    BY <1>3, <2>2 DEF UnsentHasDriver
  <2>3. CASE ~confirmed /\ sUnsend > 0
    <3>1. sendDue \/ sFlightLen' + sLostLen' > 0
      BY <1>1, <2>1, <2>3 DEF DriveInv, UnsentHasDriver, confirmed
    <3> QED
      BY <1>3, <3>1 DEF UnsentHasDriver
  <2>4. CASE ~(sUnsend > 0)
    BY <1>6, <2>4 DEF UnsentHasDriver
  <2> QED
    BY <2>2, <2>3, <2>4
<1> QED
  BY <1>5, <1>7, <1>8, <1>9, <1>10, <1>11, <1>12, <1>13 DEF PipeInv, DriveInv

-----------------------------------------------------------------------------
(* The steps of the reading side and of the network keep the invariant.    *)

(* Steps that change no block and no position on either side.              *)
LEMMA QuietInv ==
  ASSUME PipeInv, RP!RecvInv', UNCHANGED RP!blockVars, RP!Holds, UNCHANGED <<sendVars, driveVars>>,
         net' \subseteq net
  PROVE  PipeInv'
<1>1. SP!IndInv /\ RP!RecvInv /\ DriveInv /\ NetInv
  BY DEF PipeInv
<1>2. SP!IndInv' /\ SP!Blocks' = SP!Blocks
  BY <1>1, SendFrame
<1>3. NetInv'
  BY <1>1, <1>2, NetFrame DEF sendVars, sendContext, RP!blockVars
<1>4. DriveInv'
  BY <1>1, DriveFrame
<1> QED
  BY <1>2, <1>3, <1>4 DEF PipeInv

LEMMA OfferBufferInv ==
  ASSUME PipeInv, NEW id \in BufferIds, OfferBuffer(id)
  PROVE  PipeInv'
<1>1. RP!AddBuffer(id) /\ UNCHANGED <<sendVars, driveVars, newAck, net>>
  BY RecvCalls DEF OfferBuffer
<1>2. RP!RecvInv' /\ UNCHANGED RP!blockVars /\ RP!Holds
  BY <1>1, QueueAssumptions, RP!AddBufferHolds DEF PipeInv
<1> QED
  BY <1>1, <1>2, QuietInv

LEMMA RecvTimerInv ==
  ASSUME PipeInv, NEW t \in Threads, RecvTimer(t)
  PROVE  PipeInv'
<1>1. RP!RecvTimerFires(t) /\ UNCHANGED <<sendVars, driveVars, newAck, net>>
  BY RecvSteps DEF RecvTimer
<1>2. RP!RecvInv' /\ UNCHANGED RP!blockVars /\ RP!Holds
  BY <1>1, QueueAssumptions, RP!OtherSteps DEF PipeInv
<1> QED
  BY <1>1, <1>2, QuietInv

LEMMA LoseInv ==
  ASSUME PipeInv, UNCHANGED <<sendVars, driveVars, recvVars>>, net' \subseteq net
  PROVE  PipeInv'
<1>1. RP!RecvInv' /\ RP!Holds
  BY RecvFrame DEF PipeInv
<1>2. UNCHANGED RP!blockVars
  BY DEF recvVars, RP!blockVars
<1> QED
  BY <1>1, <1>2, QuietInv

(* A payload under way is a range of the stream.                           *)
LEMMA PayloadIsRange ==
  ASSUME PipeInv, NEW m \in Datagrams
  PROVE  RangeOf(m) \in Payloads /\ RangeOf(m) \in RP!StreamRange
<1>1. RangeOf(m) \in Payloads
  BY DEF Payloads
<1> QED
  BY <1>1 DEF PipeInv, NetInv, CutOnce, SP!StreamRange, RP!StreamRange

(* No block of the reader begins inside what a thread is about to enter,   *)
(* because the stream was cut once.                                        *)
LEMMA OwnPayload ==
  ASSUME PipeInv, NEW t \in Threads, rPc[t] = "update"
  PROVE  RP!BeginsOutside(rBlocks, rJob[t])
<1>1. RangeOf(rJob[t]) \in Payloads /\ RangeOf(rJob[t]).start = rJob[t].start /\ RangeOf(rJob[t]).end = rJob[t].end
  BY DEF Payloads, RangeOf
<1>2. /\ rJob[t].start \in Nat /\ rJob[t].end \in Nat
      /\ \A b \in rBlocks : b.start \in Nat /\ b.end \in Nat
  BY DEF PipeInv, RP!RecvInv, RP!RecvTypes, RP!Job, RP!StreamRange
<1> SUFFICES ASSUME NEW b \in rBlocks, rJob[t].start < b.start PROVE rJob[t].end <= b.start
  BY DEF RP!BeginsOutside
<1>3. b.start <= RangeOf(rJob[t]).start \/ RangeOf(rJob[t]).end <= b.start
  BY <1>1 DEF PipeInv, NetInv, CutOnce
<1> QED
  BY <1>1, <1>2, <1>3

(* What a thread saves is the front part of a payload.                     *)
LEMMA ReceivePayloadInv ==
  ASSUME PipeInv, NEW t \in Threads, NEW m \in net, ReceivePayload(t, m)
  PROVE  PipeInv'
<1>1. SP!IndInv /\ RP!RecvInv /\ DriveInv /\ NetInv
  BY DEF PipeInv
<1>2. m \in Datagrams /\ RP!SavePayload(t, RangeOf(m)) /\ UNCHANGED <<sendVars, driveVars, newAck, net>>
  BY RecvCalls, Zenon DEF ReceivePayload, Datagrams, RangeOf
<1>3. RangeOf(m) \in Payloads
  BY <1>2, PayloadIsRange
<1>4. RangeOf(m) \in RP!StreamRange
  BY <1>2, PayloadIsRange
<1>5. /\ RP!RecvInv'
      /\ rJob'[t].start = RangeOf(m).start /\ rJob'[t].end <= RangeOf(m).end
      /\ \A u \in Threads \ {t} : rPc'[u] = rPc[u] /\ rJob'[u] = rJob[u]
  BY <1>1, <1>2, <1>4, QueueAssumptions, RP!SavePayloadInv
<1>6. rPc'[t] = "update" /\ UNCHANGED <<rAck, rBlocks>>
  BY <1>1, <1>2 DEF RP!SavePayload, RP!RecvInv, RP!RecvTypes, RP!blockVars
<1>7. SP!IndInv' /\ SP!Blocks' = SP!Blocks /\ DriveInv'
  BY <1>1, <1>2, SendFrame, DriveFrame
<1>8. UNCHANGED <<sAck, sPos, sAcked>>
  BY <1>2 DEF sendVars, sendContext
<1>9. CutOnce(Payloads', rBlocks, sPos)
  <2> DEFINE y == RangeOf(rJob'[t])
  <2>1. y \in SP!StreamRange /\ y.start = rJob'[t].start /\ y.end = rJob'[t].end
    <3>1. rJob'[t].start \in Nat /\ rJob'[t].end \in Nat
      BY <1>5 DEF RP!RecvInv, RP!RecvTypes, RP!Job
    <3> QED
      BY <3>1 DEF RangeOf, SP!StreamRange
  <2>2. y.start < y.end
    BY <1>5, <1>6, <2>1 DEF RP!RecvInv, RP!StreamInv, RP!SavedStored
  <2>3. Payloads' \subseteq Payloads \cup {y}
    BY <1>2, <1>5, <1>7 DEF Payloads, Datagrams
  <2>4. rBlocks \subseteq RP!StreamRange /\ sPos \in Nat /\ CutOnce(Payloads, rBlocks, sPos)
    BY <1>1 DEF RP!RecvInv, RP!RecvTypes, SP!IndInv, SP!TypeOK, NetInv
  <2>5. y.start = RangeOf(m).start /\ y.end <= RangeOf(m).end
    BY <1>5, <2>1
  <2> HIDE DEF y
  <2> QED
    BY <1>3, <2>1, <2>2, <2>3, <2>4, <2>5, CutPrefix
<1>10. AcksTrue'
  BY <1>1, <1>2, <1>6, <1>8 DEF NetInv, AcksTrue, AckPositions, SackPositions, Acks
<1>11. NetInv'
  BY <1>1, <1>6, <1>8, <1>9, <1>10 DEF NetInv
<1> QED
  BY <1>5, <1>7, <1>11 DEF PipeInv

(* Entering a payload: no block begins inside it, because the stream was   *)
(* cut once; what was received stays received.                             *)
LEMMA EnterPayloadInv ==
  ASSUME PipeInv, NEW t \in Threads, RP!UpdateStreamPos(t), UNCHANGED <<sendVars, driveVars, net>>
  PROVE  /\ PipeInv' /\ rAck <= rAck'
<1>1. SP!IndInv /\ RP!RecvInv /\ DriveInv /\ NetInv
  BY DEF PipeInv
<1>2. rPc[t] = "update"
  BY DEF RP!UpdateStreamPos
<1>3. RangeOf(rJob[t]) \in Payloads /\ RangeOf(rJob[t]).start = rJob[t].start /\ RangeOf(rJob[t]).end = rJob[t].end
  BY <1>2 DEF Payloads, RangeOf
<1>4. /\ rJob[t].start \in Nat /\ rJob[t].end \in Nat /\ rAck \in Nat /\ sPos \in Nat /\ sAcked \subseteq Nat
      /\ \A b \in rBlocks : b.start \in Nat /\ b.end \in Nat
  BY <1>1 DEF RP!RecvInv, RP!RecvTypes, RP!Job, RP!StreamRange, SP!IndInv, SP!TypeOK
<1>5. RP!BeginsOutside(rBlocks, rJob[t])
  BY <1>2, OwnPayload
<1>6. /\ RP!RecvInv'
      /\ RP!Grows(rAck, rBlocks, rJob[t], rAck', rBlocks')
      /\ \A u \in Threads \ {t} : rPc'[u] = rPc[u] /\ rJob'[u] = rJob[u]
      /\ rPc'[t] # "update"
  BY <1>1, <1>5, QueueAssumptions, RP!UpdateStreamPosInv
<1>7. SP!IndInv' /\ SP!Blocks' = SP!Blocks /\ DriveInv'
  BY <1>1, SendFrame, DriveFrame
<1>8. UNCHANGED <<sAck, sPos, sAcked>>
  BY DEF sendVars, sendContext
<1>9. Payloads' \subseteq Payloads
  BY <1>6, <1>7 DEF Payloads, Datagrams
<1>10. CutOnce(Payloads', rBlocks', sPos)
  BY <1>1, <1>3, <1>6, <1>9, CutJoined DEF NetInv
<1>11. /\ rAck' \in Nat /\ rAck <= rAck'
       /\ \A p \in Nat : RP!Received(rAck, rBlocks, p) => RP!Received(rAck', rBlocks', p)
  BY <1>6 DEF RP!RecvInv, RP!RecvTypes, RP!Grows
<1>12. rAck' <= sPos
  <2>1. rAck <= sPos /\ rJob[t].end <= sPos /\ \A c \in rBlocks : c.end <= sPos
    <3>1. RangeOf(rJob[t]).end <= sPos /\ \A c \in rBlocks : c.end <= sPos
      BY <1>1, <1>3 DEF NetInv, CutOnce
    <3>2. rAck <= sPos
      BY <1>1, <1>4, StreamAssumption DEF NetInv, StreamAssumption
    <3> QED
      BY <1>3, <3>1, <3>2
  <2>2. rAck' \in {rAck, rJob[t].end} \/ \E c \in rBlocks : rAck' = c.end
    BY <1>6 DEF RP!Grows
  <2> QED
    BY <2>1, <2>2
<1>13. rAck' \in InitStreamPos .. sPos
  BY <1>1, <1>4, <1>11, <1>12, StreamAssumption DEF NetInv, StreamAssumption
<1>14. AcksTrue'
  <2>1. Acks' \subseteq Acks
    BY DEF Acks
  <2> QED
    BY <1>1, <1>4, <1>8, <1>11, <2>1, AcksFrame DEF NetInv
<1>15. NetInv'
  BY <1>8, <1>10, <1>13, <1>14 DEF NetInv
<1> QED
  BY <1>6, <1>7, <1>11, <1>15 DEF PipeInv

(* A step of a handler on a payload enters it, or is one of the others.    *)
LEMMA HandlePayloadInv ==
  ASSUME PipeInv, NEW t \in Threads, HandlePayload(t)
  PROVE  PipeInv'
<1>1. /\ R!UpdateStreamPos(t) \/ R!PopCompleteBuffers(t) \/ R!QueueReady(t) \/ R!NotifyNext(t) \/ R!Callback(t)
      /\ UNCHANGED <<sendVars, driveVars, net>>
  BY Zenon DEF HandlePayload, R!ThreadStep
<1>2. CASE R!UpdateStreamPos(t)
  <2>1. RP!UpdateStreamPos(t)
    BY <1>2, RecvSteps
  <2> QED
    BY <1>1, <2>1, EnterPayloadInv
<1>3. CASE ~R!UpdateStreamPos(t)
  <2>1. RP!PopCompleteBuffers(t) \/ RP!QueueReady(t) \/ RP!NotifyNext(t) \/ RP!Callback(t)
    BY <1>1, <1>3, RecvSteps
  <2>2. RP!RecvInv' /\ UNCHANGED RP!blockVars /\ RP!Holds
    BY <2>1, QueueAssumptions, RP!OtherSteps DEF PipeInv
  <2> QED
    BY <1>1, <2>2, QuietInv
<1> QED
  BY <1>2, <1>3

(* An ack that leaves is true.  The position it carries is one the reader  *)
(* does not have, so no SACK ever covered it, and the blocks it carries    *)
(* lie above every position that was acknowledged.                         *)
LEMMA SendAckInv ==
  ASSUME PipeInv, SendAck
  PROVE  PipeInv'
<1> DEFINE m == Ack(RP!AckInfo)
<1>1. SP!IndInv /\ RP!RecvInv /\ DriveInv /\ NetInv /\ AcksTrue
  BY DEF PipeInv, NetInv
<1>2. Transmit(m) /\ UNCHANGED <<sendVars, driveVars, recvVars>>
  BY RecvCalls DEF SendAck
<1>3. m.type = "ack" /\ m.ack = rAck /\ m.sack \subseteq rBlocks
  <2>1. RP!AckInfo.ack = rAck /\ RP!AckInfo.sack \subseteq rBlocks
    BY <1>1, QueueAssumptions, RP!AckInfoIsReceived
  <2> QED
    BY <2>1 DEF Ack
<1> HIDE DEF m
<1>4. net' \subseteq net \cup {m}
  BY <1>2, TransmitNet
<1>5. Datagrams' \subseteq Datagrams /\ Acks' \subseteq Acks \cup {m}
  BY <1>3, <1>4 DEF Datagrams, Acks
<1>6. UNCHANGED <<sAck, sPos, sAcked, rAck, rBlocks, rPc, rJob>>
  BY <1>2 DEF sendVars, sendContext, recvVars
<1>7. /\ AckPositions' \subseteq AckPositions \cup {rAck}
      /\ SackPositions' \subseteq SackPositions \cup SP!Bytes(rBlocks)
  BY <1>3, <1>5, <1>6 DEF AckPositions, SackPositions, SP!Bytes
<1>8. /\ rAck \in Nat /\ sPos \in Nat /\ InitStreamPos \in Nat /\ InitStreamPos <= rAck
      /\ \A b \in rBlocks : /\ b \in RP!StreamRange /\ b.start \in Nat /\ b.end \in Nat
                            /\ rAck < b.start /\ b.start < b.end /\ b.end <= sPos
  <2>1. rAck \in Nat /\ sPos \in Nat /\ InitStreamPos \in Nat /\ rBlocks \subseteq RP!StreamRange
    BY <1>1, StreamAssumption
       DEF RP!RecvInv, RP!RecvTypes, SP!IndInv, SP!TypeOK, StreamAssumption
  <2>2. \A b \in rBlocks : rAck < b.start /\ b.start < b.end /\ b.end <= sPos
    BY <1>1 DEF RP!RecvInv, RP!StreamInv, RP!BlocksAheadOfAck, NetInv, CutOnce
  <2>3. InitStreamPos <= rAck
    BY <1>1, <2>1 DEF NetInv
  <2> QED
    BY <2>1, <2>2, <2>3 DEF RP!StreamRange
<1>9. ASSUME NEW p \in SP!Bytes(rBlocks)
      PROVE  p \in Nat /\ rAck < p /\ RP!Received(rAck, rBlocks, p)
  <2>1. PICK b \in rBlocks : p \in SP!BytesOf(b)
    BY DEF SP!Bytes
  <2> QED
    BY <1>8, <2>1 DEF SP!BytesOf, RP!BytesOf, RP!Received
<1>10. ASSUME RP!Received(rAck, rBlocks, rAck) PROVE FALSE
  BY <1>8, <1>10 DEF RP!Received, RP!BytesOf
<1>11. AcksTrue'
  <2>1. ASSUME NEW n \in Acks' PROVE n.sack \in SUBSET SP!Ranges(sPos)
    <3>1. rBlocks \subseteq SP!Ranges(sPos)
      BY <1>8 DEF RP!StreamRange, SP!Ranges
    <3> QED
      BY <1>1, <1>3, <1>5, <3>1 DEF AcksTrue
  <2>2. ASSUME NEW v \in AckPositions'
        PROVE  v \in InitStreamPos .. rAck /\ v \notin SackPositions' /\ (v >= sAck => v \notin sAcked)
    <3>1. v \in InitStreamPos .. rAck
      BY <1>1, <1>7, <1>8 DEF AcksTrue
    <3>2. v \notin SP!Bytes(rBlocks)
      BY <1>8, <1>9, <3>1
    <3>3. v \notin SackPositions /\ (v >= sAck => v \notin sAcked)
      BY <1>1, <1>7, <1>10 DEF AcksTrue
    <3> QED
      BY <1>7, <3>1, <3>2, <3>3
  <2>3. ASSUME NEW p \in SackPositions' \cup sAcked PROVE RP!Received(rAck, rBlocks, p)
    BY <1>1, <1>7, <1>9 DEF AcksTrue
  <2> QED
    BY <1>6, <2>1, <2>2, <2>3 DEF AcksTrue
<1>12. SP!IndInv' /\ SP!Blocks' = SP!Blocks /\ DriveInv' /\ RP!RecvInv'
  BY <1>1, <1>2, SendFrame, DriveFrame, RecvFrame
<1>13. CutOnce(Payloads', rBlocks, sPos)
  <2>1. Payloads' \subseteq Payloads
    BY <1>5, <1>6, <1>12 DEF Payloads
  <2> QED
    BY <1>1, <2>1, CutFewer DEF NetInv
<1> QED
  BY <1>1, <1>6, <1>11, <1>12, <1>13 DEF PipeInv, NetInv

-----------------------------------------------------------------------------
(* The invariant holds in every state.                                     *)

LEMMA PipeInit == Init => PipeInv
<1> SUFFICES ASSUME Init PROVE PipeInv
  OBVIOUS
<1>1. SP!Init /\ RP!Init /\ sendDue = FALSE /\ popDue = {} /\ net = {}
  BY SendSteps, RecvCalls DEF Init
<1>2. SP!IndInv
  BY <1>1, QueueAssumptions, SP!InitInv
<1>3. RP!RecvInv
  BY <1>1, QueueAssumptions, RP!RecvInit
<1>4. /\ sFlight = {} /\ sLost = {} /\ sUnsend = 0 /\ sBuffers = {} /\ sAcked = {}
      /\ sAck = InitStreamPos /\ sPos = InitStreamPos
  BY <1>1 DEF SP!Init
<1>5. rAck = InitStreamPos /\ rBlocks = {} /\ rPc = [t \in Threads |-> "idle"]
  BY <1>1 DEF RP!Init
<1>6. DriveInv
  <2>1. ~(sUnsend > 0)
    BY <1>4
  <2> QED
    BY <1>1, <1>4, <2>1, Zenon DEF DriveInv, BuffersApart, CompletionNotStranded, UnsentHasDriver
<1>7. Acks = {} /\ Datagrams = {}
  BY <1>1 DEF Acks, Datagrams
<1>8. Payloads = {}
  BY <1>4, <1>5, <1>7 DEF Payloads, SP!Blocks
<1>9. AcksTrue
  <2>1. AckPositions = {InitStreamPos} /\ SackPositions = {}
    BY <1>4, <1>7 DEF AckPositions, SackPositions
  <2> QED
    BY <1>4, <1>5, <1>7, <2>1, StreamAssumption DEF AcksTrue, StreamAssumption
<1>10. NetInv
  BY <1>4, <1>5, <1>8, <1>9, StreamAssumption DEF NetInv, CutOnce, StreamAssumption
<1> QED
  BY <1>2, <1>3, <1>6, <1>10 DEF PipeInv

LEMMA PipeNext == PipeInv /\ [Next]_vars => PipeInv'
<1> SUFFICES ASSUME PipeInv, [Next]_vars PROVE PipeInv'
  OBVIOUS
<1>1. ASSUME NEW len \in 1 .. (MaxStreamPos - sBufPos), Write(len) PROVE PipeInv'
  BY <1>1, WriteInv
<1>2. CASE SendPayload
  BY <1>2, SendPayloadInv
<1>3. CASE DriveEnds
  BY <1>3, DriveEndsInv
<1>4. ASSUME NEW m \in net, ReceiveAck(m) PROVE PipeInv'
  BY <1>4, ReceiveAckInv
<1>5. ASSUME NEW due \in popDue, PopComplete(due) PROVE PipeInv'
  BY <1>5, PopCompleteInv
<1>6. ASSUME NEW late \in SUBSET sFlight, RtoTimer(late) PROVE PipeInv'
  BY <1>6, RtoTimerInv
<1>7. ASSUME NEW id \in BufferIds, OfferBuffer(id) PROVE PipeInv'
  BY <1>7, OfferBufferInv
<1>8. ASSUME NEW t \in Threads, NEW m \in net, ReceivePayload(t, m) PROVE PipeInv'
  BY <1>8, ReceivePayloadInv
<1>9. ASSUME NEW t \in Threads, HandlePayload(t) PROVE PipeInv'
  BY <1>9, HandlePayloadInv
<1>10. ASSUME NEW t \in Threads, RecvTimer(t) PROVE PipeInv'
  BY <1>10, RecvTimerInv
<1>11. CASE SendAck
  BY <1>11, SendAckInv
<1>12. ASSUME NEW m \in net, Lose(m) PROVE PipeInv'
  BY <1>12, LoseInv DEF Lose
<1>13. CASE UNCHANGED vars
  BY <1>13, LoseInv DEF vars
<1> QED
  BY <1>1, <1>2, <1>3, <1>4, <1>5, <1>6, <1>7, <1>8, <1>9, <1>10, <1>11, <1>12, <1>13, Zenon DEF Next

(* The invariant of the two queues, the send loop and the network between  *)
(* them holds for every loss, duplication and reordering of packages and   *)
(* every interleaving of handlers and timers.                              *)
THEOREM PipeInvariance == Spec => []PipeInv
BY PipeInit, PipeNext, PTL DEF Spec

(* Bytes that wait to be sent have a send loop that is due or an           *)
(* outstanding block: PackageConnectionSend may skip TrySendPackage.       *)
THEOREM UnsentIsDriven == Spec => []UnsentHasDriver
<1>1. PipeInv => UnsentHasDriver
  BY DEF PipeInv, DriveInv
<1> QED
  BY <1>1, PipeInvariance, PTL

(* A complete send buffer has a handler on its way that gives it back,     *)
(* although buffers are popped only after an ack that confirmed a block.   *)
THEOREM CompletionIsReported == Spec => []CompletionNotStranded
<1>1. PipeInv => CompletionNotStranded
  BY DEF PipeInv, DriveInv
<1> QED
  BY <1>1, PipeInvariance, PTL

(* The writer drops only bytes that the reader's queue has, however late,  *)
(* doubled or reordered the acks and SACKs arrive.                         *)
THEOREM WriterDropsReceived == Spec => []DroppedIsReceived
<1>1. PipeInv => DroppedIsReceived
  <2> SUFFICES ASSUME PipeInv, NEW p \in InitStreamPos .. (sPos - 1), p \notin S!Bytes(S!Blocks)
               PROVE  p < rAck \/ p \in UNION {R!BytesOf(b) : b \in rBlocks}
    BY DEF DroppedIsReceived
  <2>1. p \notin SP!Bytes(SP!Blocks)
    BY SendSteps, ConfirmStep
  <2>2. p \in sAcked
    BY <2>1 DEF PipeInv, SP!IndInv, SP!OutstandingTracked
  <2>3. RP!Received(rAck, rBlocks, p)
    BY <2>2 DEF PipeInv, NetInv, AcksTrue
  <2> QED
    BY <2>3 DEF RP!Received, RP!BytesOf, R!BytesOf
<1> QED
  BY <1>1, PipeInvariance, PTL

-----------------------------------------------------------------------------
(* At rest the stream is through.                                          *)

(* The reader's half of a step: what its queue keeps at rest, see          *)
(* RecvQueueProofs.tla, it keeps in a connection.                          *)
LEMMA ReaderRests == PipeInv /\ RP!RestInv /\ [Next]_vars => RP!RestInv'
<1> SUFFICES ASSUME PipeInv, RP!RestInv, [Next]_vars PROVE RP!RestInv'
  OBVIOUS
<1>1. RP!RecvInv
  BY DEF PipeInv
<1>2. ASSUME UNCHANGED recvVars PROVE RP!RestInv'
  <2>1. UNCHANGED <<rAck, rBlocks, rEnd, rRead, rTimer, rPc, rJob>>
    BY <1>2 DEF recvVars
  <2> QED
    BY <2>1, QueueAssumptions, RP!RestFrame
<1>3. ASSUME NEW id \in BufferIds, OfferBuffer(id) PROVE RP!RestInv'
  <2>1. RP!AddBuffer(id)
    BY <1>3, RecvCalls DEF OfferBuffer
  <2> QED
    BY <1>1, <2>1, QueueAssumptions, RP!RestOthers
<1>4. ASSUME NEW t \in Threads, NEW m \in net, ReceivePayload(t, m) PROVE RP!RestInv'
  <2>1. m \in Datagrams /\ RP!SavePayload(t, RangeOf(m))
    BY <1>4, RecvCalls, Zenon DEF ReceivePayload, Datagrams, RangeOf
  <2>2. RangeOf(m) \in RP!StreamRange
    BY <2>1, PayloadIsRange
  <2> QED
    BY <1>1, <2>1, <2>2, QueueAssumptions, RP!RestSave
<1>5. ASSUME NEW t \in Threads, HandlePayload(t) PROVE RP!RestInv'
  <2>1. RP!UpdateStreamPos(t) \/ RP!PopCompleteBuffers(t) \/ RP!QueueReady(t) \/ RP!NotifyNext(t) \/ RP!Callback(t)
    BY <1>5, RecvSteps, Zenon DEF HandlePayload, R!ThreadStep
  <2>2. CASE RP!UpdateStreamPos(t)
    <3>1. RP!BeginsOutside(rBlocks, rJob[t])
      BY <2>2, OwnPayload DEF RP!UpdateStreamPos
    <3> QED
      BY <1>1, <2>2, <3>1, QueueAssumptions, RP!RestUpdate
  <2>3. CASE ~RP!UpdateStreamPos(t)
    BY <1>1, <2>1, <2>3, QueueAssumptions, RP!RestThread
  <2> QED
    BY <2>2, <2>3
<1>6. ASSUME NEW t \in Threads, RecvTimer(t) PROVE RP!RestInv'
  <2>1. RP!RecvTimerFires(t)
    BY <1>6, RecvSteps DEF RecvTimer
  <2> QED
    BY <1>1, <2>1, QueueAssumptions, RP!RestThread
<1>7. CASE UNCHANGED recvVars
  BY <1>2, <1>7
<1>8. CASE ~UNCHANGED recvVars
  <2>1. ~UNCHANGED vars /\ ~SendPayload /\ ~DriveEnds /\ ~SendAck
    BY <1>8, Zenon DEF vars, SendPayload, DriveEnds, SendAck
  <2>2. /\ \A len : ~Write(len)
        /\ \A m : ~ReceiveAck(m) /\ ~Lose(m)
        /\ \A due : ~PopComplete(due)
        /\ \A late : ~RtoTimer(late)
    BY <1>8, Zenon DEF Write, ReceiveAck, Lose, PopComplete, RtoTimer
  <2> QED
    BY <1>3, <1>4, <1>5, <1>6, <2>1, <2>2, Zenon DEF Next
<1> QED
  BY <1>7, <1>8

(* A writer with nothing due and nothing outstanding has everything        *)
(* acknowledged.  The last ack cannot have been lost with all blocks       *)
(* SACKed: an ack position that was not reached was never SACKed.          *)
LEMMA NothingQueued ==
  ASSUME PipeInv, ~sendDue, popDue = {}, sFlight = {}, ~Stalled
  PROVE  sBuffers = {} /\ sAck = sPos /\ sPos = sBufPos
<1>1. SP!IndInv /\ DriveInv /\ AcksTrue
  BY DEF PipeInv, NetInv
<1>2. SP!Blocks = {} /\ SP!Bytes(SP!Blocks) = {}
  BY DEF Stalled, SP!Blocks, SP!Bytes
<1>3. sUnsend = 0
  <2>1. ~(sFlightLen + sLostLen > 0)
    BY <1>1, <1>2, Outstanding DEF Counted
  <2>2. ~(sUnsend > 0)
    BY <1>1, <2>1 DEF DriveInv, UnsentHasDriver
  <2> QED
    BY <1>1, <2>2 DEF SP!IndInv, SP!TypeOK
<1>4. /\ sAck \in Nat /\ sPos \in Nat /\ sBufPos \in Nat /\ InitStreamPos \in Nat
      /\ InitStreamPos <= sAck /\ sAck <= sPos /\ sPos = sBufPos
  BY <1>1, <1>3, StreamAssumption
     DEF SP!IndInv, SP!TypeOK, SP!PositionsOrdered, StreamAssumption
<1>5. sAck = sPos
  <2> SUFFICES ASSUME sAck # sPos PROVE FALSE
    OBVIOUS
  <2>1. sAck \in InitStreamPos .. (sPos - 1)
    BY <1>4
  <2>2. sAck \in sAcked
    BY <1>1, <1>2, <2>1 DEF SP!IndInv, SP!OutstandingTracked
  <2> QED
    BY <1>1, <1>4, <2>2 DEF AcksTrue, AckPositions
<1>6. ASSUME NEW u \in sBuffers PROVE FALSE
  <2>1. u.end \in Nat /\ u.end <= sBufPos
    BY <1>1, <1>3 DEF SP!IndInv, SP!TypeOK, SP!PositionsOrdered, SP!StreamRange
  <2>2. \E due \in popDue : u.end <= due
    BY <1>1, <1>4, <1>5, <2>1 DEF DriveInv, CompletionNotStranded
  <2> QED
    BY <2>2
<1> QED
  BY <1>4, <1>5, <1>6

(* Then the reader has every byte too, and no block is left that waits.    *)
LEMMA NothingMissing ==
  ASSUME PipeInv, sAck = sPos
  PROVE  rAck = sPos /\ rBlocks = {}
<1>1. /\ RP!RecvInv /\ CutOnce(Payloads, rBlocks, sPos) /\ rAck \in InitStreamPos .. sPos
      /\ sAck \in InitStreamPos .. rAck /\ InitStreamPos \in Nat /\ sPos \in Nat
  BY StreamAssumption
     DEF PipeInv, NetInv, AcksTrue, AckPositions, SP!IndInv, SP!TypeOK, StreamAssumption
<1>2. rAck = sPos
  BY <1>1
<1>3. ASSUME NEW b \in rBlocks PROVE FALSE
  <2>1. b.start \in Nat /\ b.end \in Nat /\ rAck < b.start /\ b.start < b.end
    BY <1>1 DEF RP!RecvInv, RP!RecvTypes, RP!StreamRange, RP!StreamInv, RP!BlocksAheadOfAck
  <2>2. b.end <= sPos
    BY <1>1 DEF CutOnce
  <2> QED
    BY <1>1, <1>2, <2>1, <2>2
<1> QED
  BY <1>2, <1>3

(* Over any network, when nothing is due or outstanding on either side all *)
(* that was written was reported to the writer and delivered to the        *)
(* reader, unless the lost list has stalled: for everything to be          *)
(* delivered it is enough that the two sides come to rest.                 *)
THEOREM RestIsDone == Spec => []RestMeansDone
<1>1. Init => PipeInv /\ RP!RestInv
  BY PipeInit, RecvCalls, QueueAssumptions, RP!RestInit DEF Init
<1>2. PipeInv /\ RP!RestInv /\ [Next]_vars => (PipeInv /\ RP!RestInv)'
  BY PipeNext, ReaderRests
<1>3. PipeInv /\ RP!RestInv => RestMeansDone
  <2> SUFFICES ASSUME PipeInv, RP!RestInv, ~sendDue, popDue = {}, sFlight = {}, ~Stalled
               PROVE  /\ sBuffers = {}
                      /\ ~rTimer /\ (\A t \in Threads : rPc[t] = "idle")
                             => Len(delivered) = sBufPos - InitStreamPos
    BY DEF RestMeansDone
  <2>1. sBuffers = {} /\ sAck = sPos /\ sPos = sBufPos
    BY NothingQueued
  <2>2. rAck = sPos /\ rBlocks = {}
    BY <2>1, NothingMissing
  <2>3. ASSUME ~rTimer, \A t \in Threads : rPc[t] = "idle"
        PROVE  Len(delivered) = rAck - InitStreamPos
    BY <2>2, <2>3, QueueAssumptions, RP!ThreadsAtRest DEF PipeInv
  <2> QED
    BY <2>1, <2>2, <2>3
<1> QED
  BY <1>1, <1>2, <1>3, PTL DEF Spec

-----------------------------------------------------------------------------
(* The connection implements the abstract stream.                          *)

Handed == [i \in DOMAIN delivered |-> delivered[i] - InitStreamPos + 1]

\* n bytes lie below the first of the buffers B, or below top if there is none.
BelowFirst(B, top, n) ==
    \/ B = {} /\ n = top - InitStreamPos
    \/ \E b \in B : (\A c \in B : b.start <= c.start) /\ n = b.start - InitStreamPos

(* What the abstract stream sees of a state.                               *)
StreamView ==
    /\ Handed = [i \in 1 .. Len(delivered) |-> i]
    /\ Len(delivered) \in Nat /\ Len(delivered) <= rAck - InitStreamPos
    /\ BelowFirst(sBuffers, sBufPos, Reported)
    /\ Reported \in Int /\ Reported <= rAck - InitStreamPos
    /\ rAck \in Nat /\ sBufPos \in Nat /\ rAck <= sBufPos

(* The bytes handed over are the first ones of the stream, and they were   *)
(* acknowledged.                                                           *)
LEMMA HandedView ==
  ASSUME PipeInv
  PROVE  /\ Handed = [i \in 1 .. Len(delivered) |-> i]
         /\ Len(delivered) \in Nat /\ Len(delivered) <= rAck - InitStreamPos
<1>1. RP!RecvInv
  BY DEF PipeInv
<1>2. /\ delivered \in Seq(Nat) /\ rAck \in Nat /\ rRead \in Nat /\ rReadyPos \in Nat /\ InitStreamPos \in Nat
      /\ rReadyPos <= rRead /\ rRead <= rAck
  BY <1>1, StreamAssumption DEF RP!RecvInv, RP!RecvTypes, RP!StreamInv, RP!Positions, StreamAssumption
<1>3. Len(delivered) \in Nat /\ DOMAIN delivered = 1 .. Len(delivered)
  BY <1>2
<1>4. \A i \in DOMAIN delivered : delivered[i] = InitStreamPos + i - 1
  BY <1>1 DEF RP!RecvInv, RP!QueueInv, RP!Delivery, RP!DeliveredInOrder
<1>5. \A i \in 1 .. Len(delivered) : delivered[i] - InitStreamPos + 1 = i
  BY <1>2, <1>3, <1>4
<1>6. Handed = [i \in 1 .. Len(delivered) |-> i]
  BY <1>3, <1>5 DEF Handed
<1>7. InitStreamPos + Len(delivered) <= rReadyPos
  <2>1. CASE \E t \in Threads : rPc[t] = "callback"
    <3>1. PICK t \in Threads : rPc[t] = "callback"
      BY <2>1
    <3>2. /\ RP!Whole(rJob[t].bufs[1]) /\ rJob[t].bufs[1].start = InitStreamPos + Len(delivered)
          /\ rJob[t].bufs[1].end = rReadyPos
      BY <1>1, <3>1 DEF RP!RecvInv, RP!QueueInv, RP!Delivery
    <3> QED
      BY <1>2, <1>3, <3>2 DEF RP!Whole
  <2>2. CASE \A t \in Threads : rPc[t] # "callback"
    BY <1>1, <1>2, <1>3, <2>2 DEF RP!RecvInv, RP!QueueInv, RP!Delivery
  <2> QED
    BY <2>1, <2>2
<1> QED
  BY <1>2, <1>3, <1>6, <1>7

(* What was reported as sent was acknowledged.                             *)
LEMMA ReportedView ==
  ASSUME PipeInv
  PROVE  /\ BelowFirst(sBuffers, sBufPos, Reported)
         /\ Reported \in Int /\ Reported <= rAck - InitStreamPos
<1> DEFINE open == {b \in sBuffers : \A c \in sBuffers : b.start <= c.start}
<1>1. SP!IndInv /\ DriveInv /\ AcksTrue
  BY DEF PipeInv, NetInv
<1>2. /\ sBufPos \in Nat /\ sAck \in Nat /\ rAck \in Nat /\ InitStreamPos \in Nat
      /\ sAck <= sBufPos /\ InitStreamPos <= sAck
      /\ sBuffers \subseteq SP!StreamRange
      /\ \A u \in sBuffers : u.start \in Nat /\ u.end \in Nat /\ u.end <= sBufPos /\ u.start < u.end
  BY <1>1, StreamAssumption
     DEF SP!IndInv, SP!TypeOK, SP!PositionsOrdered, SP!StreamRange, DriveInv, BuffersApart, StreamAssumption,
         PipeInv, RP!RecvInv, RP!RecvTypes
<1>3. sAck <= rAck
  BY <1>1, <1>2 DEF AcksTrue, AckPositions
<1>4. \A p \in sAck .. (sBufPos - 1) : \E u \in sBuffers : u.start <= p /\ p < u.end
  BY <1>1 DEF SP!IndInv, SP!PositionsOrdered
<1>5. CASE sBuffers = {}
  <2>1. sAck = sBufPos
    BY <1>2, <1>4, <1>5
  <2>2. Reported = sBufPos - InitStreamPos
    BY <1>5 DEF Reported
  <2> QED
    BY <1>2, <1>3, <1>5, <2>1, <2>2 DEF BelowFirst
<1>6. CASE sBuffers # {}
  <2>1. open # {}
    <3>1. RP!StreamRange = SP!StreamRange
      BY DEF RP!StreamRange, SP!StreamRange
    <3> QED
      BY <1>2, <1>6, <3>1, QueueAssumptions, RP!FirstBlock
  <2>2. PICK b \in open : b = CHOOSE c \in open : TRUE
    BY <2>1
  <2>3. Reported = b.start - InitStreamPos
    BY <2>1, <2>2 DEF Reported
  <2>4. b \in sBuffers /\ \A c \in sBuffers : b.start <= c.start
    OBVIOUS
  <2>5. b.start <= sAck
    <3> SUFFICES ASSUME b.start > sAck PROVE FALSE
      BY <1>2, <2>4
    <3>1. sAck \in sAck .. (sBufPos - 1)
      BY <1>2, <2>4
    <3>2. PICK u \in sBuffers : u.start <= sAck
      BY <1>4, <3>1
    <3> QED
      BY <1>2, <2>4, <3>2
  <2> QED
    BY <1>2, <1>3, <2>3, <2>4, <2>5 DEF BelowFirst
<1> QED
  BY <1>5, <1>6

(* The positions the two sides use are numbers, in this order.             *)
LEMMA ViewTypes ==
  ASSUME PipeInv
  PROVE  /\ InitStreamPos \in Nat /\ MaxStreamPos \in Nat /\ rAck \in Nat /\ sBufPos \in Nat
         /\ rAck <= sBufPos
         /\ \A u \in sBuffers : u.start \in Nat /\ u.end \in Nat /\ u.start < u.end /\ u.end <= sBufPos
<1>1. InitStreamPos \in Nat /\ MaxStreamPos \in Nat
  BY StreamAssumption DEF StreamAssumption
<1>2. /\ rAck \in Nat /\ sBufPos \in Nat /\ sPos \in Nat /\ sPos <= sBufPos
      /\ \A u \in sBuffers : u.start \in Nat /\ u.end \in Nat /\ u.start < u.end /\ u.end <= sBufPos
  BY DEF PipeInv, SP!IndInv, SP!TypeOK, SP!PositionsOrdered, SP!StreamRange, RP!RecvInv, RP!RecvTypes,
         DriveInv, BuffersApart
<1>3. rAck \in InitStreamPos .. sPos
  BY DEF PipeInv, NetInv
<1> QED
  BY <1>1, <1>2, <1>3

LEMMA Views == (PipeInv => StreamView) /\ (PipeInv' => StreamView')
<1>1. PipeInv => StreamView
  BY HandedView, ReportedView, ViewTypes DEF StreamView
<1>2. PipeInv' => StreamView'
  BY <1>1, PTL
<1> QED
  BY <1>1, <1>2

(* The reported bytes depend on the send buffers only.                     *)
LEMMA SameReported ==
  ASSUME UNCHANGED <<sBufPos, sBuffers>>
  PROVE  Reported' = Reported
<1> DEFINE F(B, top) ==
             LET open == {b \in B : \A c \in B : b.start <= c.start}
             IN  IF open = {} THEN top - InitStreamPos ELSE (CHOOSE b \in open : TRUE).start - InitStreamPos
<1>1. Reported = F(sBuffers, sBufPos) /\ Reported' = F(sBuffers', sBufPos')
  BY DEF Reported
<1> HIDE DEF F
<1> QED
  BY <1>1

LEMMA SameView ==
  ASSUME UNCHANGED <<sBufPos, sBuffers, rAck, delivered>>
  PROVE  UNCHANGED BS!vars
<1>1. Reported' = Reported
  BY SameReported
<1> QED
  BY <1>1 DEF BS!vars

LEMMA WriteView ==
  ASSUME PipeInv, PipeInv', NEW len \in 1 .. (MaxStreamPos - sBufPos), Write(len)
  PROVE  BS!Write
<1>1. /\ InitStreamPos \in Nat /\ MaxStreamPos \in Nat /\ sBufPos \in Nat
      /\ \A u \in sBuffers : u.start \in Nat /\ u.end \in Nat /\ u.start < u.end /\ u.end <= sBufPos
  BY ViewTypes
<1>2. SP!AddBuffer(len) /\ UNCHANGED recvVars
  BY SendSteps DEF Write
<1>3. /\ sBuffers' = sBuffers \cup {[start |-> sBufPos, end |-> sBufPos + len]}
      /\ sBufPos' = sBufPos + len /\ UNCHANGED <<rAck, delivered>>
  BY <1>2 DEF SP!AddBuffer, recvVars
<1>4. BelowFirst(sBuffers, sBufPos, Reported) /\ BelowFirst(sBuffers', sBufPos', Reported')
  BY Views DEF StreamView
<1>5. Reported' = Reported
  <2>1. PICK b \in sBuffers' : (\A c \in sBuffers' : b.start <= c.start) /\ Reported' = b.start - InitStreamPos
    BY <1>3, <1>4 DEF BelowFirst
  <2>2. CASE sBuffers = {}
    BY <1>3, <1>4, <2>1, <2>2 DEF BelowFirst
  <2>3. CASE sBuffers # {}
    <3>1. PICK a \in sBuffers : (\A c \in sBuffers : a.start <= c.start) /\ Reported = a.start - InitStreamPos
      BY <1>4, <2>3 DEF BelowFirst
    <3>2. b.start <= a.start
      BY <1>3, <2>1
    <3>3. a.start <= b.start
      BY <1>1, <1>3, <3>1
    <3>4. a.start \in Nat /\ b.start \in Nat
      BY <1>1, <1>3
    <3>5. a.start = b.start
      BY <3>2, <3>3, <3>4
    <3> QED
      BY <2>1, <3>1, <3>5
  <2> QED
    BY <2>2, <2>3
<1>6. sBufPos' - InitStreamPos \in (sBufPos - InitStreamPos + 1) .. (MaxStreamPos - InitStreamPos)
  BY <1>1, <1>3
<1> QED
  BY <1>3, <1>5, <1>6 DEF BS!Write

(* Popping complete send buffers reports them, if there are any.           *)
LEMMA PopView ==
  ASSUME PipeInv, PipeInv', NEW due \in popDue, PopComplete(due)
  PROVE  BS!Complete \/ UNCHANGED BS!vars
<1>1. /\ InitStreamPos \in Nat /\ rAck \in Nat /\ sBufPos \in Nat
      /\ \A u \in sBuffers : u.start \in Nat /\ u.end \in Nat /\ u.start < u.end /\ u.end <= sBufPos
  BY ViewTypes
<1>2. sBuffers' \subseteq sBuffers /\ UNCHANGED <<sBufPos, rAck, delivered>>
  BY SendSteps DEF PopComplete, SP!PopCompleteBuffers, sendVars, recvVars
<1>3. /\ BelowFirst(sBuffers, sBufPos, Reported) /\ BelowFirst(sBuffers', sBufPos', Reported')
      /\ Reported \in Int /\ Reported' \in Int /\ Reported' <= rAck' - InitStreamPos
  BY Views DEF StreamView
<1>4. Reported <= Reported'
  <2>1. CASE sBuffers = {}
    BY <1>1, <1>2, <1>3, <2>1 DEF BelowFirst
  <2>2. CASE sBuffers # {}
    <3>1. PICK a \in sBuffers : (\A c \in sBuffers : a.start <= c.start) /\ Reported = a.start - InitStreamPos
      BY <1>3, <2>2 DEF BelowFirst
    <3>2. CASE sBuffers' = {}
      BY <1>1, <1>2, <1>3, <3>1, <3>2 DEF BelowFirst
    <3>3. CASE \E b \in sBuffers' : Reported' = b.start - InitStreamPos
      BY <1>1, <1>2, <3>1, <3>3
    <3> QED
      BY <1>3, <3>2, <3>3 DEF BelowFirst
  <2> QED
    BY <2>1, <2>2
<1>5. CASE Reported' = Reported
  BY <1>2, <1>5 DEF BS!vars
<1>6. CASE Reported' # Reported
  <2>1. Reported' \in (Reported + 1) .. (rAck - InitStreamPos)
    BY <1>1, <1>2, <1>3, <1>4, <1>6
  <2> QED
    BY <1>2, <2>1 DEF BS!Complete
<1> QED
  BY <1>5, <1>6

(* Entering a payload accepts its bytes, if they are the next ones.        *)
LEMMA EnterView ==
  ASSUME PipeInv, NEW t \in Threads, RP!UpdateStreamPos(t), UNCHANGED <<sendVars, driveVars, net>>
  PROVE  BS!Accept \/ UNCHANGED BS!vars
<1>1. PipeInv' /\ rAck <= rAck'
  BY EnterPayloadInv
<1>2. UNCHANGED <<sBufPos, sBuffers, delivered>>
  BY DEF sendVars, RP!UpdateStreamPos
<1>3. rAck' \in Nat /\ sBufPos' \in Nat /\ rAck' <= sBufPos'
  BY <1>1, Views DEF StreamView
<1>4. CASE rAck' = rAck
  BY <1>2, <1>4, SameView
<1>5. CASE rAck' # rAck
  <2>1. Reported' = Reported
    BY <1>2, SameReported
  <2>2. rAck' - InitStreamPos \in (rAck - InitStreamPos + 1) .. (sBufPos - InitStreamPos)
    BY <1>1, <1>2, <1>3, <1>5, ViewTypes
  <2> QED
    BY <1>2, <2>1, <2>2 DEF BS!Accept
<1> QED
  BY <1>4, <1>5

(* A receive callback hands over the next bytes of the stream.             *)
LEMMA CallbackView ==
  ASSUME PipeInv, PipeInv', NEW t \in Threads, RP!Callback(t), UNCHANGED sendVars
  PROVE  BS!HandOver
<1>1. /\ Handed = [i \in 1 .. Len(delivered) |-> i] /\ Handed' = [i \in 1 .. Len(delivered)' |-> i]
      /\ Len(delivered) \in Nat /\ Len(delivered)' \in Nat
      /\ Len(delivered)' <= rAck' - InitStreamPos
  BY Views DEF StreamView
<1>2. UNCHANGED <<sBufPos, sBuffers, rAck>>
  BY DEF sendVars, RP!Callback, RP!blockVars
<1>3. Len(delivered)' > Len(delivered)
  <2>1. RP!RecvInv /\ RP!RecvInv' /\ rPc[t] = "callback" /\ rPc' = [rPc EXCEPT ![t] = "notify"]
        /\ UNCHANGED rReadyPos
    BY DEF PipeInv, RP!Callback, RP!readyVars
  <2>2. InitStreamPos + Len(delivered) < rReadyPos
    <3>1. /\ RP!Whole(rJob[t].bufs[1]) /\ rJob[t].bufs[1].start = InitStreamPos + Len(delivered)
          /\ rJob[t].bufs[1].end = rReadyPos
      BY <2>1 DEF RP!RecvInv, RP!QueueInv, RP!Delivery
    <3> QED
      BY <3>1 DEF RP!Whole
  <2>3. rPc'[t] = "notify"
    BY <2>1 DEF RP!RecvInv, RP!RecvTypes
  <2>4. \A u \in Threads : rPc'[u] # "callback"
    BY <2>1, <2>3 DEF RP!RecvInv, RP!QueueInv, RP!OneNotifier, RP!Notifying
  <2>5. rReadyPos' = InitStreamPos + Len(delivered)'
    BY <2>1, <2>4 DEF RP!RecvInv, RP!QueueInv, RP!Delivery
  <2> QED
    BY <1>1, <2>1, <2>2, <2>5, StreamAssumption DEF StreamAssumption
<1>4. Len(Handed) = Len(delivered)
  BY <1>1
<1>5. Len(delivered)' \in (Len(Handed) + 1) .. (rAck - InitStreamPos)
  BY <1>1, <1>2, <1>3, <1>4, ViewTypes
<1>6. \E n \in (Len(Handed) + 1) .. (rAck - InitStreamPos) : Handed' = [i \in 1 .. n |-> i]
  BY <1>1, <1>5
<1>7. Reported' = Reported
  BY <1>2, SameReported
<1> QED
  BY <1>2, <1>6, <1>7, Zenon DEF BS!HandOver, Handed

(* A step of a handler on a payload, seen from the abstract stream.        *)
LEMMA HandleView ==
  ASSUME PipeInv, PipeInv', NEW t \in Threads, HandlePayload(t)
  PROVE  BS!Accept \/ BS!HandOver \/ UNCHANGED BS!vars
<1>1. /\ R!UpdateStreamPos(t) \/ R!PopCompleteBuffers(t) \/ R!QueueReady(t) \/ R!NotifyNext(t) \/ R!Callback(t)
      /\ UNCHANGED <<sendVars, driveVars, net>>
  BY Zenon DEF HandlePayload, R!ThreadStep
<1>2. UNCHANGED <<sBufPos, sBuffers>>
  BY <1>1 DEF sendVars
<1>3. CASE R!UpdateStreamPos(t)
  BY <1>1, <1>3, RecvSteps, EnterView
<1>4. CASE R!Callback(t)
  BY <1>1, <1>4, RecvSteps, CallbackView
<1>5. CASE R!PopCompleteBuffers(t)
  <2>1. UNCHANGED <<rAck, delivered>>
    BY <1>5 DEF R!PopCompleteBuffers, R!blockVars
  <2> QED
    BY <1>2, <2>1, SameView
<1>6. CASE R!QueueReady(t) \/ R!NotifyNext(t)
  <2>1. UNCHANGED <<rAck, delivered>>
    BY <1>6 DEF R!QueueReady, R!NotifyNext, R!blockVars
  <2> QED
    BY <1>2, <2>1, SameView
<1> QED
  BY <1>1, <1>3, <1>4, <1>5, <1>6

(* Every step is a step of the abstract stream or invisible in it.         *)
LEMMA StepView ==
  ASSUME PipeInv, PipeInv', [Next]_vars
  PROVE  [BS!Next]_(BS!vars)
<1> USE DEF BS!Next
<1>1. ASSUME NEW len \in 1 .. (MaxStreamPos - sBufPos), Write(len) PROVE BS!Next
  BY <1>1, WriteView
<1>2. CASE SendPayload
  <2>1. SP!FillNewPayload \/ SP!FillLostPayload
    BY <1>2, SendSteps DEF SendPayload
  <2>2. UNCHANGED <<sBufPos, sBuffers>>
    BY <2>1 DEF SP!FillNewPayload, SP!FillLostPayload, SP!bufferVars
  <2>3. UNCHANGED <<rAck, delivered>>
    BY <1>2 DEF SendPayload, recvVars
  <2> QED
    BY <2>2, <2>3, SameView
<1>3. CASE DriveEnds
  BY <1>3, SameView DEF DriveEnds, sendVars, recvVars
<1>4. ASSUME NEW m \in net, ReceiveAck(m) PROVE UNCHANGED BS!vars
  <2>1. UNCHANGED <<sBufPos, sBuffers, rAck, delivered>>
    BY <1>4 DEF ReceiveAck, S!ConfirmRange, S!bufferVars, recvVars
  <2> QED
    BY <2>1, SameView
<1>5. ASSUME NEW due \in popDue, PopComplete(due) PROVE BS!Next \/ UNCHANGED BS!vars
  BY <1>5, PopView
<1>6. ASSUME NEW late \in SUBSET sFlight, RtoTimer(late) PROVE UNCHANGED BS!vars
  <2>1. UNCHANGED <<sBufPos, sBuffers, rAck, delivered>>
    BY <1>6 DEF RtoTimer, S!MarkRangeTimeout, S!bufferVars, recvVars
  <2> QED
    BY <2>1, SameView
<1>7. ASSUME NEW id \in BufferIds, OfferBuffer(id) PROVE UNCHANGED BS!vars
  BY <1>7, SameView DEF OfferBuffer, R!AddBuffer, R!blockVars, sendVars
<1>8. ASSUME NEW t \in Threads, NEW m \in net, ReceivePayload(t, m) PROVE UNCHANGED BS!vars
  BY <1>8, SameView DEF ReceivePayload, R!SavePayload, R!blockVars, sendVars
<1>9. ASSUME NEW t \in Threads, HandlePayload(t) PROVE BS!Next \/ UNCHANGED BS!vars
  BY <1>9, HandleView
<1>10. ASSUME NEW t \in Threads, RecvTimer(t) PROVE UNCHANGED BS!vars
  BY <1>10, SameView DEF RecvTimer, R!RecvTimerFires, R!blockVars, sendVars
<1>11. CASE SendAck
  BY <1>11, SameView DEF SendAck, sendVars, recvVars
<1>12. ASSUME NEW m \in net, Lose(m) PROVE UNCHANGED BS!vars
  BY <1>12, SameView DEF Lose, sendVars, recvVars
<1>13. CASE UNCHANGED vars
  BY <1>13, SameView DEF vars, sendVars, recvVars
<1> HIDE DEF BS!Next
<1> QED
  BY <1>1, <1>2, <1>3, <1>4, <1>5, <1>6, <1>7, <1>8, <1>9, <1>10, <1>11, <1>12, <1>13, Zenon DEF Next

(* A package connection is a reliable ordered stream of bytes over a       *)
(* network that loses, duplicates and reorders packages: what the receive  *)
(* callbacks hand over is what was written, in order and once, and the     *)
(* send callbacks report only bytes that the reader's queue has accepted.  *)
THEOREM ImplementsByteStream == Spec => IsByteStream
<1>1. Init => BS!Init
  <2> SUFFICES ASSUME Init PROVE BS!Init
    OBVIOUS
  <2>1. SP!Init /\ RP!Init
    BY SendSteps, RecvCalls DEF Init
  <2>2. sBufPos = InitStreamPos /\ sBuffers = {} /\ rAck = InitStreamPos /\ delivered = <<>>
    BY <2>1 DEF SP!Init, RP!Init
  <2>3. InitStreamPos - InitStreamPos = 0
    BY StreamAssumption DEF StreamAssumption
  <2>4. Reported = InitStreamPos - InitStreamPos
    BY <2>2 DEF Reported
  <2>5. [i \in DOMAIN delivered |-> delivered[i] - InitStreamPos + 1] = <<>>
    BY <2>2
  <2> QED
    BY <2>2, <2>3, <2>4, <2>5 DEF BS!Init
<1>2. PipeInv /\ PipeInv' /\ [Next]_vars => [BS!Next]_(BS!vars)
  BY StepView
<1> QED
  BY <1>1, <1>2, PipeInvariance, PTL DEF Spec, IsByteStream, BS!Spec

-----------------------------------------------------------------------------
(* The writer's half of the connection is the send queue.                  *)

(* The acks of a peer as SendQueue.tla assumes them: a position that was   *)
(* sent, and no more ranges above it than the code has room for, with gaps *)
(* between them.                                                           *)
AcksFit ==
    \A m \in Acks : m.ack \in InitStreamPos .. sPos /\ m.sack \in S!Sacks(m.ack)

LEMMA CountsAlike == \A X : S!Cardinality(X) = Cardinality(X) /\ RP!Cardinality(X) = Cardinality(X)
BY Zenon DEF S!Cardinality, RP!Cardinality, Cardinality

(* The blocks of the reader are finitely many: no two begin alike.         *)
LEMMA FinitelyMany ==
  ASSUME NEW B, NEW top \in Nat, \A b \in B : b.start \in 0 .. top,
         \A b, c \in B : b.start = c.start => b = c
  PROVE  IsFiniteSet(B)
<1> DEFINE f == [b \in B |-> b.start]
<1>1. f \in Injection(B, 0 .. top)
  <2>1. f \in [B -> 0 .. top]
    OBVIOUS
  <2>2. \A b, c \in B : f[b] = f[c] => b = c
    OBVIOUS
  <2> HIDE DEF f
  <2> QED
    BY <2>1, <2>2 DEF Injection, IsInjective
<1>2. IsFiniteSet(0 .. top)
  BY FS_Interval
<1> QED
  BY <1>1, <1>2, FS_Injection

(* The first n blocks are at most n.                                       *)
LEMMA FirstAreFew ==
  ASSUME NEW B, IsFiniteSet(B), NEW top \in Nat, \A b \in B : b.start \in 0 .. top,
         \A b, c \in B : b.start = c.start => b = c, NEW n \in Nat,
         NEW F, F = {b \in B : Cardinality({c \in B : c.start < b.start}) < n}
  PROVE  IsFiniteSet(F) /\ Cardinality(F) \in Nat /\ Cardinality(F) <= n
<1>1. IsFiniteSet(F) /\ Cardinality(F) \in Nat
  BY FS_Subset, FS_CardinalityType
<1>2. CASE F = {}
  <2>1. Cardinality(F) = 0
    BY <1>2, FS_EmptySet, Zenon
  <2> QED
    BY <1>1, <2>1
<1>3. CASE F # {}
  <2> DEFINE N == {top - b.start : b \in F}
  <2>1. N \in SUBSET Nat /\ N # {}
    <3>1. \A b \in F : b.start \in Nat /\ b.start <= top
      OBVIOUS
    <3>2. \A b \in F : top - b.start \in Nat
      BY <3>1
    <3>3. PICK b \in F : TRUE
      BY <1>3
    <3>4. top - b.start \in N
      OBVIOUS
    <3>5. N \in SUBSET Nat
      BY <3>2
    <3> QED
      BY <3>4, <3>5
  <2>2. PICK k \in N : \A l \in N : k <= l
    <3> HIDE DEF N
    <3> QED
      BY <2>1, QueueAssumptions, RP!Least
  <2>3. PICK x \in F : k = top - x.start
    BY <2>2
  <2> DEFINE D == {c \in B : c.start < x.start}
  <2>4. \A b \in F : b.start <= x.start
    <3> SUFFICES ASSUME NEW b \in F PROVE b.start <= x.start
      OBVIOUS
    <3>1. top - x.start <= top - b.start
      BY <2>2, <2>3
    <3>2. b.start \in Nat /\ x.start \in Nat
      OBVIOUS
    <3> QED
      BY <3>1, <3>2
  <2>5. F \subseteq D \cup {x}
    <3> SUFFICES ASSUME NEW b \in F, b # x PROVE b \in D
      OBVIOUS
    <3>1. b \in B /\ x \in B /\ b.start # x.start /\ b.start \in Nat /\ x.start \in Nat
      OBVIOUS
    <3> QED
      BY <2>4, <3>1
  <2>6. IsFiniteSet(D) /\ Cardinality(D) \in Nat /\ Cardinality(D) < n
    <3>1. D \in SUBSET B /\ Cardinality(D) < n
      OBVIOUS
    <3> HIDE DEF D
    <3> QED
      BY <3>1, FS_Subset, FS_CardinalityType
  <2> HIDE DEF D
  <2>7. IsFiniteSet(D \cup {x}) /\ Cardinality(D \cup {x}) <= n
    <3>1. /\ IsFiniteSet(D \cup {x})
          /\ Cardinality(D \cup {x}) = IF x \in D THEN Cardinality(D) ELSE Cardinality(D) + 1
      BY <2>6, FS_AddElement, Zenon
    <3> QED
      BY <2>6, <3>1
  <2>8. Cardinality(F) <= Cardinality(D \cup {x}) /\ Cardinality(D \cup {x}) \in Nat
    BY <2>5, <2>7, FS_Subset, FS_CardinalityType
  <2> QED
    BY <1>1, <2>7, <2>8
<1> QED
  BY <1>2, <1>3

(* RecvQueueGetAckInfo names a SACK as SendQueue.tla assumes it.           *)
LEMMA AckInfoFits ==
  ASSUME PipeInv
  PROVE  rAck \in InitStreamPos .. sPos /\ RP!AckInfo.ack = rAck /\ RP!AckInfo.sack \in S!Sacks(rAck)
<1>1. RP!RecvInv /\ NetInv
  BY DEF PipeInv
<1>2. RP!AckInfo.ack = rAck /\ RP!AckInfo.sack \subseteq rBlocks
  BY <1>1, QueueAssumptions, RP!AckInfoIsReceived
<1>3. /\ rAck \in Nat /\ sPos \in Nat /\ InitStreamPos \in Nat /\ rAck \in InitStreamPos .. sPos
      /\ MaxSackRanges \in Nat /\ MaxSackRanges - 1 \in Nat
  BY <1>1, StreamAssumption
     DEF RP!RecvInv, RP!RecvTypes, PipeInv, SP!IndInv, SP!TypeOK, NetInv, StreamAssumption
<1>4. ASSUME NEW b \in rBlocks
      PROVE  /\ b \in RP!StreamRange /\ b.start \in Nat /\ b.end \in Nat
             /\ rAck < b.start /\ b.start < b.end /\ b.end <= sPos
  <2>1. b \in RP!StreamRange
    BY <1>1 DEF RP!RecvInv, RP!RecvTypes
  <2>2. rAck < b.start /\ b.start < b.end /\ b.end <= sPos
    BY <1>1 DEF RP!RecvInv, RP!StreamInv, RP!BlocksAheadOfAck, NetInv, CutOnce
  <2> QED
    BY <2>1, <2>2 DEF RP!StreamRange
<1>5. ASSUME NEW b \in rBlocks, NEW c \in rBlocks PROVE b = c \/ b.end < c.start \/ c.end < b.start
  <2>1. b = c \/ ~RP!Touches(b, c)
    BY <1>1 DEF RP!RecvInv, RP!StreamInv, RP!BlocksAheadOfAck
  <2> QED
    BY <1>4, <2>1 DEF RP!Touches
<1>6. \A b, c \in rBlocks : b.start = c.start => b = c
  BY <1>4, <1>5
<1>7. \A b \in rBlocks : b.start \in 0 .. sPos
  BY <1>3, <1>4
<1>8. IsFiniteSet(rBlocks)
  BY <1>3, <1>6, <1>7, FinitelyMany
<1>9. ASSUME NEW n \in Nat
      PROVE  /\ IsFiniteSet(RP!FirstBlocks(n)) /\ Cardinality(RP!FirstBlocks(n)) \in Nat
             /\ Cardinality(RP!FirstBlocks(n)) <= n
  <2>1. RP!FirstBlocks(n) = {b \in rBlocks : Cardinality({c \in rBlocks : c.start < b.start}) < n}
    BY CountsAlike DEF RP!FirstBlocks
  <2> QED
    BY <1>3, <1>6, <1>7, <1>8, <2>1, FirstAreFew
<1>10. Cardinality(RP!AckInfo.sack) <= MaxSackRanges
  <2>1. CASE RP!AckInfo.sack = RP!FirstBlocks(MaxSackRanges)
    BY <1>3, <1>9, <2>1
  <2>2. CASE RP!AckInfo.sack = RP!FirstBlocks(MaxSackRanges - 1) \cup {rLatest}
    <3>1. PICK X : X = RP!FirstBlocks(MaxSackRanges - 1)
      OBVIOUS
    <3>2. IsFiniteSet(X) /\ Cardinality(X) \in Nat /\ Cardinality(X) <= MaxSackRanges - 1
      BY <1>3, <1>9, <3>1
    <3>3. Cardinality(X \cup {rLatest}) <= MaxSackRanges
      BY <1>3, <3>2, FS_AddElement
    <3> QED
      BY <2>2, <3>1, <3>3
  <2> QED
    BY <2>1, <2>2, Zenon DEF RP!AckInfo
<1>11. RP!AckInfo.sack \in SUBSET {r \in S!Ranges(sPos) : r.start > rAck}
  <2> SUFFICES ASSUME NEW r \in rBlocks PROVE r \in S!Ranges(sPos) /\ r.start > rAck
    BY <1>2
  <2> QED
    BY <1>3, <1>4 DEF RP!StreamRange, S!Ranges
<1> QED
  BY <1>2, <1>3, <1>5, <1>10, <1>11, CountsAlike DEF S!Sacks

(* Acks fit while they vanish and the stream grows.                        *)
LEMMA FitFrame ==
  ASSUME AcksFit, Acks' \subseteq Acks, sPos \in Nat, sPos' \in Nat, sPos <= sPos'
  PROVE  AcksFit'
<1> SUFFICES ASSUME NEW m \in Acks PROVE m.ack \in InitStreamPos .. sPos' /\ m.sack \in S!Sacks(m.ack)'
  BY DEF AcksFit
<1>1. m.ack \in InitStreamPos .. sPos /\ m.sack \in S!Sacks(m.ack)
  BY DEF AcksFit
<1>2. S!Ranges(sPos) \subseteq S!Ranges(sPos')
  <2>1. InitStreamPos .. sPos \subseteq InitStreamPos .. sPos'
    BY StreamAssumption DEF StreamAssumption
  <2> QED
    BY <2>1 DEF S!Ranges
<1>3. m.ack \in InitStreamPos .. sPos'
  BY <1>1, StreamAssumption DEF StreamAssumption
<1>4. S!Sacks(m.ack) \subseteq S!Sacks(m.ack)'
  BY <1>2 DEF S!Sacks
<1> QED
  BY <1>1, <1>3, <1>4

\* What a step other than sending an ack does to the writer's view of its peer.
LEMMA StreamGrows ==
  ASSUME PipeInv, SendPayload
  PROVE  Acks' \subseteq Acks /\ sPos <= sPos'
<1>1. Acks' \subseteq Acks
  <2>1. PICK b \in sFlight' \ sFlight : Transmit(Data(b))
    BY DEF SendPayload
  <2>2. net' \subseteq net \cup {Data(b)}
    BY <2>1, TransmitNet
  <2>3. Data(b).type # "ack"
    BY DEF Data
  <2> QED
    BY <2>2, <2>3 DEF Acks
<1>2. sPos <= sPos'
  <2>1. sPos \in Nat /\ Mtu \in Nat /\ sOffset \in Nat /\ sBuffers \subseteq SP!StreamRange
    BY StreamAssumption DEF PipeInv, SP!IndInv, SP!TypeOK, StreamAssumption
  <2>2. CASE S!FillNewPayload
    <3>1. PICK c \in sBuffers : /\ S!IsCurr(c)
                               /\ sPos' = sPos + (S!GeneratedBlock(c).end - S!GeneratedBlock(c).start)
      BY <2>2 DEF S!FillNewPayload
    <3>2. c.start \in Nat /\ c.end \in Nat /\ sOffset < c.end
      BY <2>1, <3>1 DEF SP!StreamRange, S!IsCurr
    <3>3. /\ S!GeneratedBlock(c).start = sOffset
          /\ S!GeneratedBlock(c).end = IF c.end - sOffset <= Mtu THEN c.end ELSE sOffset + Mtu
      BY DEF S!GeneratedBlock
    <3>4. PICK e : e = S!GeneratedBlock(c).end
      OBVIOUS
    <3>5. e \in Nat /\ sOffset <= e /\ sPos' = sPos + (e - sOffset)
      BY <2>1, <3>1, <3>2, <3>3, <3>4
    <3> QED
      BY <2>1, <3>5
  <2>3. CASE S!FillLostPayload
    BY <2>1, <2>3 DEF S!FillLostPayload
  <2> QED
    BY <2>2, <2>3 DEF SendPayload
<1> QED
  BY <1>1, <1>2

LEMMA FitNext == PipeInv /\ PipeInv' /\ AcksFit /\ [Next]_vars => AcksFit'
<1> SUFFICES ASSUME PipeInv, PipeInv', AcksFit, [Next]_vars PROVE AcksFit'
  OBVIOUS
<1>0. sPos \in Nat /\ sPos' \in Nat
  BY DEF PipeInv, SP!IndInv, SP!TypeOK
<1>1. ASSUME Acks' \subseteq Acks, UNCHANGED sPos PROVE AcksFit'
  BY <1>0, <1>1, FitFrame
<1>2. ASSUME UNCHANGED <<net, sPos>> PROVE AcksFit'
  BY <1>1, <1>2 DEF Acks
<1>3. ASSUME NEW len, Write(len) PROVE AcksFit'
  BY <1>2, <1>3 DEF Write, S!AddBuffer, S!contextVars
<1>4. CASE SendPayload
  BY <1>0, <1>4, StreamGrows, FitFrame
<1>5. CASE DriveEnds
  BY <1>2, <1>5 DEF DriveEnds, sendVars, sendContext
<1>6. ASSUME NEW m, ReceiveAck(m) PROVE AcksFit'
  BY <1>2, <1>6 DEF ReceiveAck, S!ConfirmRange
<1>7. ASSUME NEW due, PopComplete(due) PROVE AcksFit'
  BY <1>2, <1>7 DEF PopComplete, S!PopCompleteBuffers, S!contextVars, sendVars, sendContext
<1>8. ASSUME NEW late, RtoTimer(late) PROVE AcksFit'
  BY <1>2, <1>8 DEF RtoTimer, S!MarkRangeTimeout
<1>9. ASSUME UNCHANGED <<sendVars, net>> PROVE AcksFit'
  BY <1>2, <1>9 DEF sendVars, sendContext
<1>10. CASE SendAck
  <2> DEFINE m == Ack(RP!AckInfo)
  <2>1. Transmit(m) /\ UNCHANGED sPos
    BY <1>10, RecvCalls DEF SendAck, sendVars, sendContext
  <2>2. net' \subseteq net \cup {m}
    BY <2>1, TransmitNet
  <2>3. m.ack \in InitStreamPos .. sPos /\ m.sack \in S!Sacks(m.ack)
    BY AckInfoFits DEF Ack
  <2> HIDE DEF m
  <2>4. ASSUME NEW n \in Acks' PROVE n.ack \in InitStreamPos .. sPos /\ n.sack \in S!Sacks(n.ack)
    <3>1. n \in Acks \/ n = m
      BY <2>2 DEF Acks
    <3> QED
      BY <2>3, <3>1 DEF AcksFit
  <2>5. \A a : S!Sacks(a)' = S!Sacks(a)
    BY <2>1 DEF S!Sacks, S!Ranges
  <2> QED
    BY <2>1, <2>4, <2>5 DEF AcksFit
<1>11. ASSUME NEW m, Lose(m) PROVE AcksFit'
  BY <1>1, <1>11 DEF Lose, Acks, sendVars, sendContext
<1>12. ASSUME NEW t, \/ \E id \in BufferIds : OfferBuffer(id)
                     \/ \E m \in net : ReceivePayload(t, m)
                     \/ HandlePayload(t)
                     \/ RecvTimer(t)
       PROVE AcksFit'
  BY <1>9, <1>12 DEF OfferBuffer, ReceivePayload, HandlePayload, RecvTimer
<1>13. CASE UNCHANGED vars
  BY <1>9, <1>13 DEF vars
<1> QED
  BY <1>3, <1>4, <1>5, <1>6, <1>7, <1>8, <1>10, <1>11, <1>12, <1>13, Zenon DEF Next

(* Every ack and SACK under way is one that SendQueue.tla lets a peer      *)
(* send, however the packages of both sides were handled before.           *)
THEOREM AcksAlwaysFit == Spec => [](PipeInv /\ AcksFit)
<1>1. Init => AcksFit
  BY DEF Init, AcksFit, Acks
<1> QED
  BY <1>1, PipeInit, PipeNext, FitNext, PTL DEF Spec

(* A step of the connection is a step of its send queue or leaves the      *)
(* queue alone.                                                            *)
LEMMA WriterStep == PipeInv /\ AcksFit /\ [Next]_vars => [S!Next]_(S!vars)
<1> SUFFICES ASSUME PipeInv, AcksFit, [Next]_vars PROVE S!Next \/ UNCHANGED S!vars
  OBVIOUS
<1>1. UNCHANGED sendVars => UNCHANGED S!vars
  BY DEF sendVars, sendContext, S!vars, S!contextVars, S!bufferVars
<1>2. ASSUME NEW len \in 1 .. (MaxStreamPos - sBufPos), Write(len) PROVE S!Next
  BY <1>2 DEF Write, S!Next
<1>3. CASE SendPayload
  BY <1>3 DEF SendPayload, S!Next
<1>4. ASSUME NEW m \in net, ReceiveAck(m) PROVE S!Next
  <2>1. m \in Acks /\ S!ConfirmRange(m.ack, m.sack)
    BY <1>4 DEF ReceiveAck, Acks
  <2>2. m.ack \in InitStreamPos .. sPos /\ m.sack \in S!Sacks(m.ack)
    BY <2>1 DEF AcksFit
  <2> QED
    BY <2>1, <2>2, Zenon DEF S!Next
<1>5. ASSUME NEW due \in popDue, PopComplete(due) PROVE S!Next \/ UNCHANGED sendVars
  <2>1. PICK seen \in due .. sAck : S!PopCompleteBuffers(seen) \/ UNCHANGED sendVars
    BY <1>5 DEF PopComplete
  <2>2. due \in InitStreamPos .. sAck /\ sAck \in Nat /\ InitStreamPos \in Nat
    BY StreamAssumption DEF PipeInv, DriveInv, SP!IndInv, SP!TypeOK, StreamAssumption
  <2>3. seen \in InitStreamPos .. sAck
    BY <2>1, <2>2
  <2> QED
    BY <2>1, <2>3, Zenon DEF S!Next
<1>6. ASSUME NEW late \in SUBSET sFlight, RtoTimer(late) PROVE S!Next
  BY <1>6, Zenon DEF RtoTimer, S!Next
<1>7. ASSUME NEW m, Lose(m) PROVE UNCHANGED sendVars
  BY <1>7 DEF Lose
<1>8. ASSUME NEW t, \/ \E id \in BufferIds : OfferBuffer(id)
                    \/ \E m \in net : ReceivePayload(t, m)
                    \/ HandlePayload(t)
                    \/ RecvTimer(t)
      PROVE UNCHANGED sendVars
  BY <1>8 DEF OfferBuffer, ReceivePayload, HandlePayload, RecvTimer
<1>9. DriveEnds \/ SendAck \/ UNCHANGED vars => UNCHANGED sendVars
  BY DEF DriveEnds, SendAck, vars
<1> QED
  BY <1>1, <1>2, <1>3, <1>4, <1>5, <1>6, <1>7, <1>8, <1>9, Zenon DEF Next

(* The writer's half of a connection is a send queue: with the acks that   *)
(* its peer really sends, through a network that loses, doubles and        *)
(* reorders them, the queue takes no step that SendQueue.tla does not      *)
(* have, so what is proved of the send queue alone holds in a connection.  *)
THEOREM WriterIsSendQueue == Spec => S!Spec
<1>1. Init => S!Init
  BY DEF Init
<1> QED
  BY <1>1, WriterStep, AcksAlwaysFit, PTL DEF Spec, S!Spec

=============================================================================
