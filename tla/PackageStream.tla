---------------------------- MODULE PackageStream ----------------------------
(****************************************************************************)
(* One direction of a package connection end to end: the send queue of the  *)
(* writing side, the receive queue of the reading side, and the datagrams   *)
(* between them, which may be lost, duplicated and reordered.               *)
(*                                                                          *)
(* The handlers are those of PackageConnection.imp.inl: PushPackage on both *)
(* sides, TrySendPackage/SendDrive/FillPackage, and the rto and receive     *)
(* timers.  A call of TrySendPackage makes the send loop due; trySendCnt    *)
(* hands it to whichever thread is inside (TrySend.tla), so its turns are   *)
(* steps of their own.  The reader writes nothing itself: a payload from    *)
(* the other direction would make the writer's loop due as well.            *)
(****************************************************************************)
EXTENDS Integers, Sequences, FiniteSets

CONSTANTS
    InitStreamPos, Mtu, MaxStreamPos, MaxSackRanges, DupAckModulus,
    BufferIds, BufferLen, Threads,
    NetCapacity     \* bound: packages in the network at a time

ASSUME StreamAssumption ==
    /\ InitStreamPos \in Nat \ {0}
    /\ Mtu \in Nat \ {0}
    /\ MaxStreamPos \in Nat
    /\ InitStreamPos <= MaxStreamPos
    /\ MaxSackRanges \in Nat \ {0}
    /\ DupAckModulus \in Nat
    /\ DupAckModulus > 4
    /\ BufferLen \in [BufferIds -> Nat \ {0}]

VARIABLES
    \* the send queue of the writer
    sAck, sPos, sFlight, sLost, sFlightLen, sLostLen, sLatest, sPrevDup, sDup,
    sBufPos, sUnsend, sOffset, sBuffers, sAcked,
    sendDue,        \* TrySendPackage was called and the send loop is not done
    popDue,         \* acks whose handler has yet to pop complete send buffers
    \* the receive queue of the reader
    rAck, rBlocks, rLatest, rRead, rEnd, rBuffers, rReady, rReadyPos, rNotifying,
    rTimer, rPc, rJob, delivered,
    newAck,         \* cc->newAck: data came, an ack is due
    net             \* the packages under way

sendContext == <<sAck, sPos, sFlight, sLost, sFlightLen, sLostLen, sLatest, sPrevDup, sDup>>
sendVars == <<sendContext, sBufPos, sUnsend, sOffset, sBuffers, sAcked>>
recvVars == <<rAck, rBlocks, rLatest, rRead, rEnd, rBuffers, rReady, rReadyPos, rNotifying,
              rTimer, rPc, rJob, delivered>>
driveVars == <<sendDue, popDue>>
vars == <<sendVars, driveVars, recvVars, newAck, net>>

S == INSTANCE SendQueue WITH
    ackStreamPos <- sAck, streamPos <- sPos, flightBlocks <- sFlight, lostBlocks <- sLost,
    flight <- sFlightLen, lost <- sLostLen, latestAckStreamPos <- sLatest,
    prevDupAckStreamPos <- sPrevDup, dupAckTimes <- sDup, bufferStreamPos <- sBufPos,
    unSendLength <- sUnsend, offsetStreamPos <- sOffset, buffers <- sBuffers, acked <- sAcked

R == INSTANCE RecvQueue WITH
    Segments <- {},
    ackStreamPos <- rAck, blocks <- rBlocks, latest <- rLatest, readStreamPos <- rRead,
    endStreamPos <- rEnd, buffers <- rBuffers, ready <- rReady, readyStreamPos <- rReadyPos,
    onNotifying <- rNotifying, recvTimer <- rTimer, pc <- rPc, job <- rJob

Data(b) == [type |-> "data", start |-> b.start, end |-> b.end]
Ack(a) == [type |-> "ack", ack |-> a.ack, sack |-> a.sack]

Init ==
    /\ S!Init
    /\ sendDue = FALSE
    /\ popDue = {}
    /\ R!Init
    /\ newAck = FALSE
    /\ net = {}

(* A datagram is handed to the tunnel.  It is under way until it is lost,  *)
(* at the latest when the network is full; receiving it leaves it there,   *)
(* so it can come again, and in any order.                                 *)
Transmit(m) ==
    IF Cardinality(net \cup {m}) <= NetCapacity
    THEN net' = net \cup {m}
    ELSE \E lost \in net : net' = (net \ {lost}) \cup {m}

Lose(m) ==
    /\ net' = net \ {m}
    /\ UNCHANGED <<sendVars, driveVars, recvVars, newAck>>

-----------------------------------------------------------------------------
(* The writing side.                                                       *)

\* Mutant of Write: TrySendPackage is not called.
WriteSilently(len) ==
    /\ S!AddBuffer(len)
    /\ UNCHANGED <<sendDue, popDue, recvVars, newAck, net>>

(* PackageConnectionSend: SendQueueAddBuffer returns PENDING when bytes    *)
(* were unsent before, and then TrySendPackage is not called.              *)
Write(len) ==
    /\ S!AddBuffer(len)
    /\ sendDue' = (sendDue \/ sUnsend = 0)
    /\ UNCHANGED <<popDue, recvVars, newAck, net>>

(* A turn of PackageConnectionSendDrive with a payload: the block that     *)
(* SendQueueFillPayload put on the flight list leaves.                     *)
SendPayload ==
    /\ sendDue
    /\ S!FillNewPayload \/ S!FillLostPayload
    /\ \E b \in sFlight' \ sFlight : Transmit(Data(b))
    /\ UNCHANGED <<driveVars, recvVars, newAck>>

(* The loop ends when nothing is left to send or the congestion window has *)
(* no room for a payload of one mtu.  The window is two mtu at the least   *)
(* (CONGESTION_LEDBET_MIN_CWND) and any size above.                        *)
DriveEnds ==
    /\ sendDue
    /\ sUnsend + sLostLen = 0 \/ sFlightLen > Mtu
    /\ sendDue' = FALSE
    /\ UNCHANGED <<sendVars, popDue, recvVars, newAck, net>>

\* Mutant of ReceiveAck: buffers are popped by the position before the ack.
ReceiveAckStale(m) ==
    /\ m.type = "ack"
    /\ Cardinality(popDue) < Cardinality(Threads)
    /\ S!ConfirmRange(m.ack, m.sack)
    /\ LET confirmed == S!Bytes(S!Blocks) # S!Bytes(S!Blocks') IN
        /\ sendDue' = (sendDue \/ confirmed)
        /\ popDue' = IF confirmed THEN popDue \cup {sAck} ELSE popDue
    /\ UNCHANGED <<recvVars, newAck, net>>

(* PackageConnectionPushPackage, the part on the ack: only if it confirmed *)
(* a block (nAcked > 0) is TrySendPackage called, and are complete buffers *)
(* popped, the latter after other threads may have run.  Each thread       *)
(* handles one package at a time.                                          *)
ReceiveAck(m) ==
    /\ m.type = "ack"
    /\ Cardinality(popDue) < Cardinality(Threads)
    /\ S!ConfirmRange(m.ack, m.sack)
    /\ LET confirmed == S!Bytes(S!Blocks) # S!Bytes(S!Blocks') IN
        /\ sendDue' = (sendDue \/ confirmed)
        /\ popDue' = IF confirmed THEN popDue \cup {sAck'} ELSE popDue
    /\ UNCHANGED <<recvVars, newAck, net>>

PopComplete(due) ==
    /\ popDue' = popDue \ {due}
    /\ \E seen \in due .. sAck :
        \/ S!PopCompleteBuffers(seen)
        \/ (\A b \in sBuffers : b.end > seen) /\ UNCHANGED sendVars
    /\ UNCHANGED <<sendDue, recvVars, newAck, net>>

(* PackageConnectionRtoTimerCallback: the lost blocks are sent only if     *)
(* some block timed out now (nCount > 0).                                  *)
RtoTimer(late) ==
    /\ S!MarkRangeTimeout(late)
    /\ sendDue' = TRUE
    /\ UNCHANGED <<popDue, recvVars, newAck, net>>

-----------------------------------------------------------------------------
(* The reading side.                                                       *)

(* PackageConnectionRecv *)
OfferBuffer(id) ==
    /\ R!AddBuffer(id)
    /\ UNCHANGED <<sendVars, driveVars, newAck, net>>

(* PackageConnectionPushPackage on a payload, up to the first unlock.      *)
ReceivePayload(t, m) ==
    /\ m.type = "data"
    /\ R!SavePayload(t, [start |-> m.start, end |-> m.end])
    /\ UNCHANGED <<sendVars, driveVars, newAck, net>>

\* Mutant of HandlePayload: an old package makes no ack due.
HandlePayloadOldSilent(t) ==
    /\ R!ThreadStep(t)
    /\ newAck' = (newAck \/ (rPc[t] = "update" /\ rPc'[t] = "pop"))
    /\ UNCHANGED <<sendVars, driveVars, net>>

(* The rest of it: whatever was saved, also of an old package, LedbatCcOnData *)
(* makes an ack due.                                                       *)
HandlePayload(t) ==
    /\ R!ThreadStep(t)
    /\ newAck' = (newAck \/ rPc[t] = "update")
    /\ UNCHANGED <<sendVars, driveVars, net>>

RecvTimer(t) ==
    /\ R!RecvTimerFires(t)
    /\ UNCHANGED <<sendVars, driveVars, newAck, net>>

(* A turn of PackageConnectionSendDrive with an ack (LedbatCcTrySendAck).  *)
SendAck ==
    /\ newAck
    /\ newAck' = FALSE
    /\ Transmit(Ack(R!AckInfo))
    /\ UNCHANGED <<sendVars, driveVars, recvVars>>

-----------------------------------------------------------------------------
Next ==
    \/ \E len \in 1 .. (MaxStreamPos - sBufPos) : Write(len)
    \/ SendPayload
    \/ DriveEnds
    \/ \E m \in net : ReceiveAck(m)
    \/ \E due \in popDue : PopComplete(due)
    \/ \E late \in SUBSET sFlight : RtoTimer(late)
    \/ \E id \in BufferIds : OfferBuffer(id)
    \/ \E t \in Threads, m \in net : ReceivePayload(t, m)
    \/ \E t \in Threads : HandlePayload(t)
    \/ \E t \in Threads : RecvTimer(t)
    \/ SendAck
    \/ \E m \in net : Lose(m)

\* The first payload that is not confirmed to the writer.
Awaited(m) == m.type = "data" /\ m.start <= sAck /\ sAck < m.end

(* Threads run on and timers fire.  The rto timer is periodic, so blocks   *)
(* that stay in flight get older than the rto and are marked, the first    *)
(* unconfirmed one among them.  The reader offers its buffers again.  The  *)
(* network does not lose every copy of what is sent again and again: of    *)
(* the first unconfirmed payload, and of the acks that are news to the     *)
(* writer.                                                                 *)
Fairness ==
    /\ WF_vars(SendPayload \/ DriveEnds)
    /\ WF_vars(\E late \in SUBSET sFlight : RtoTimer(late))
    /\ WF_vars(\E late \in SUBSET sFlight : sAck \in S!Bytes(late) /\ RtoTimer(late))
    /\ WF_vars(\E due \in popDue : PopComplete(due))
    /\ WF_vars(\E id \in BufferIds : OfferBuffer(id))
    /\ WF_vars(\E t \in Threads : HandlePayload(t))
    /\ WF_vars(SendAck)
    /\ SF_vars(\E t \in Threads : RecvTimer(t))
    /\ []<>(\E m \in net : Awaited(m)) =>
         []<><<\E t \in Threads, m \in net : Awaited(m) /\ ReceivePayload(t, m)>>_vars
    /\ SF_vars(\E m \in net : m.type = "ack" /\ m.ack > sAck /\ ReceiveAck(m))

Spec == Init /\ [][Next]_vars
FairSpec == Spec /\ Fairness

-----------------------------------------------------------------------------
(* Properties                                                              *)

\* How many bytes the send callbacks reported: everything below the first
\* buffer still queued.
Reported ==
    LET open == {b \in sBuffers : \A c \in sBuffers : b.start <= c.start}
    IN  IF open = {} THEN sBufPos - InitStreamPos
        ELSE (CHOOSE b \in open : TRUE).start - InitStreamPos

BS == INSTANCE ByteStream WITH
    MaxWritten <- MaxStreamPos - InitStreamPos,
    written <- sBufPos - InitStreamPos,
    accepted <- rAck - InitStreamPos,
    handed <- [i \in DOMAIN delivered |-> delivered[i] - InitStreamPos + 1],
    completed <- Reported

(* The connection is a reliable ordered stream over an unreliable network: *)
(* the reader gets what was written, in order and once, and a send is      *)
(* reported only when the reader's queue has all of it.                    *)
IsByteStream == BS!Spec

(* The writer drops only what the reader has: a position that is sent and  *)
(* on neither of the writer's lists is in the reader's queue, so no stale  *)
(* or reordered ack or SACK makes the writer forget a byte for good.       *)
DroppedIsReceived ==
    \A p \in InitStreamPos .. (sPos - 1) :
        p \in S!Bytes(S!Blocks) \/ p < rAck \/ p \in UNION {R!BytesOf(b) : b \in rBlocks}

(* A complete send buffer always has a handler on its way that gives it    *)
(* back.  Buffers are popped only after an ack that confirmed a block: an  *)
(* ack that moves the position over nothing but SACKed blocks would leave  *)
(* its buffer in the queue with nobody to report it.                       *)
CompletionNotStranded ==
    \A b \in sBuffers : b.end <= sAck => \E due \in popDue : b.end <= due

(* Lost blocks, nothing in flight, and no send loop due.  An ack that only *)
(* moves blocks to the lost list (a block confirmed in part, or one hit by *)
(* duplicate acks) does not call TrySendPackage, and the rto timer only    *)
(* does when a block in flight timed out.                                  *)
Stalled == sLost # {} /\ sFlight = {} /\ ~sendDue

(* At rest the stream is through.  A writer whose send loop is not due,    *)
(* that has no block outstanding and no handler that is to give buffers    *)
(* back, has no buffer queued either: PackageConnectionSend relies on this *)
(* when it skips TrySendPackage because bytes were unsent before, and      *)
(* PushPackage when it pops buffers only after an ack that confirmed a     *)
(* block.  The one gap is the stalled lost list.  And once the reader's    *)
(* timer is not armed and its handlers are done, everything written was    *)
(* delivered, whatever was lost, repeated or reordered on the way.         *)
RestMeansDone ==
    ~sendDue /\ popDue = {} /\ sFlight = {} /\ ~Stalled =>
        /\ sBuffers = {}
        /\ ~rTimer /\ (\A t \in Threads : rPc[t] = "idle")
               => Len(delivered) = sBufPos - InitStreamPos

(* Everything written reaches the application at the other end, again and  *)
(* again: the test node of packageConnTest closes when it has received the *)
(* whole file.                                                             *)
AllHandedOver == []<>(Len(delivered) = sBufPos - InitStreamPos)

(* A stall of the lost list is the only way in which written bytes do not  *)
(* reach the application at the other end: loss, duplication and           *)
(* reordering of packages, short receive buffers, buffers that never fill, *)
(* and the interleavings of handlers and timers never block the stream.    *)
HandedOverUnlessStalled == []<>(Len(delivered) = sBufPos - InitStreamPos \/ Stalled)

(* Likewise every send buffer is given back to the writing application     *)
(* unless the lost list stalls.                                            *)
ReportedUnlessStalled == []<>(sBuffers = {} \/ Stalled)

=============================================================================
