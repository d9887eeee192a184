------------------------- MODULE PackageCloseProofs -------------------------
(****************************************************************************)
(* The close handshake of PackageClose.tla is safe for any number of units  *)
(* that each end sends, any capacity of the network, any dispatch threads   *)
(* and any sets of ends that close, that reset and whose FIN timer fires.   *)
(****************************************************************************)
EXTENDS PackageClose, FiniteSetTheorems, WellFoundedInduction, TLAPS

-----------------------------------------------------------------------------
(* Smallest elements, and the position AckOf finds                          *)

Less == {ss \in Nat \X Nat : ss[1] < ss[2]}

(* Natural numbers do not descend for ever.                                *)
LEMMA LessWellFounded == IsWellFoundedOn(Less, Nat)
<1>1. OpToRel(<, Nat) = Less
  BY Zenon DEF OpToRel, Less
<1> QED
  BY <1>1, NatLessThanWellFounded, Zenon

(* A set of natural numbers that is not empty has a smallest element.      *)
LEMMA MinExists ==
  ASSUME NEW S \in SUBSET Nat, S # {}
  PROVE  Min(S) \in S /\ \A y \in S : Min(S) <= y
<1>1. PICK x \in S : \A y \in S : ~(<<y, x>> \in Less)
  BY LessWellFounded, WFMin
<1>2. \A u, v \in Nat : <<u, v>> \in Less <=> u < v
  BY DEF Less
<1> HIDE DEF Less
<1>3. \A y \in S : ~(y < x)
  BY <1>1, <1>2
<1>4. \A y \in S : x <= y
  BY <1>3
<1> QED
  BY <1>4 DEF Min

(* The larger and the smaller of two numbers.                              *)
LEMMA MinMaxTwo ==
  ASSUME NEW a \in Nat, NEW b \in Nat
  PROVE  /\ Min({a, b}) = IF a <= b THEN a ELSE b
         /\ Max({a, b}) = IF a <= b THEN b ELSE a
<1>1. \E x \in {a, b} : \A y \in {a, b} : x <= y
  OBVIOUS
<1>2. Min({a, b}) \in {a, b} /\ \A y \in {a, b} : Min({a, b}) <= y
  BY <1>1 DEF Min
<1>3. \E x \in {a, b} : \A y \in {a, b} : x >= y
  OBVIOUS
<1>4. Max({a, b}) \in {a, b} /\ \A y \in {a, b} : Max({a, b}) >= y
  BY <1>3 DEF Max
<1> QED
  BY <1>2, <1>4

(* The ack position of units below n is at most n, and it is n only when   *)
(* none below n is missing.                                                *)
LEMMA AckPosition ==
  ASSUME NEW n \in Nat \ {0}, NEW units, units \subseteq 1 .. (n - 1)
  PROVE  /\ AckOf(units) \in Nat \ {0}
         /\ AckOf(units) <= n
         /\ AckOf(units) = n => units = 1 .. (n - 1)
<1> DEFINE k == Cardinality(units)
           S == {p \in 1 .. (k + 1) : p \notin units}
<1>1. IsFiniteSet(units) /\ k \in Nat
  <2>1. IsFiniteSet(1 .. (n - 1))
    BY FS_Interval
  <2>2. IsFiniteSet(units)
    BY <2>1, FS_Subset
  <2> QED
    BY <2>2, FS_CardinalityType
<1>2. S # {}
  <2>1. IsFiniteSet(1 .. (k + 1)) /\ Cardinality(1 .. (k + 1)) = k + 1
    BY <1>1, FS_Interval
  <2>2. ~(1 .. (k + 1) \subseteq units)
    <3> SUFFICES ASSUME 1 .. (k + 1) \subseteq units PROVE FALSE
      OBVIOUS
    <3>1. Cardinality(1 .. (k + 1)) <= k
      BY <1>1, FS_Subset
    <3> QED
      BY <1>1, <2>1, <3>1
  <2> QED
    BY <2>2
<1>3. AckOf(units) = Min(S)
  BY DEF AckOf
<1>4. S \in SUBSET Nat
  BY <1>1
<1>5. Min(S) \in S /\ \A y \in S : Min(S) <= y
  BY <1>2, <1>4, MinExists
<1> HIDE DEF k
<1>6. AckOf(units) \in 1 .. (k + 1) /\ AckOf(units) \notin units
  BY <1>3, <1>5
<1>7. \A y \in 1 .. (k + 1) : y < AckOf(units) => y \in units
  BY <1>1, <1>3, <1>5, <1>6
<1>8. AckOf(units) <= n
  BY <1>1, <1>6, <1>7
<1>9. ASSUME AckOf(units) = n PROVE 1 .. (n - 1) \subseteq units
  BY <1>1, <1>6, <1>7, <1>9
<1>10. AckOf(units) \in Nat \ {0}
  BY <1>1, <1>6
<1> QED
  BY <1>8, <1>9, <1>10

(* The two ends are each other's peer.                                     *)
LEMMA Peers ==
  ASSUME NEW s \in Sides
  PROVE  /\ Peer(s) \in Sides /\ Peer(s) # s /\ Peer(Peer(s)) = s
         /\ \A t \in Sides : t = s \/ t = Peer(s)
<1>1. IsFiniteSet(Sides \ {s}) /\ Cardinality(Sides \ {s}) = 1
  BY CloseAssumption, FS_RemoveElement DEF CloseAssumption
<1>2. PICK p : Sides \ {s} = {p}
  BY <1>1, FS_Singleton
<1>3. p \in Sides /\ p # s /\ Sides = {s, p}
  BY <1>2
<1>4. Peer(s) = p /\ Peer(p) = s
  BY <1>3 DEF Peer
<1> QED
  BY <1>3, <1>4

-----------------------------------------------------------------------------
(* The inductive invariant                                                  *)

CloseTypes ==
    /\ state \in [Sides -> {"ESTABLISH", "CLOSING", "CLOSE"}]
    /\ closeSubState \in [Sides -> FinStates \cup {"FIN2", "TIMEWAIT", "CLOSED"}]
    /\ selfCloseStreamPos \in [Sides -> Nat] /\ remoteCloseStreamPos \in [Sides -> Nat]
    /\ closeTimer \in [Sides -> {"none", "fin", "timewait"}]
    /\ finCallback \in [Sides -> {"idle", "fired", "again"}]
    /\ end \in [Sides -> Nat] /\ next \in [Sides -> Nat] /\ popped \in [Sides -> Nat]
    /\ flight \in [Sides -> SUBSET Nat] /\ lost \in [Sides -> SUBSET Nat]
    /\ sending \in [Sides -> BOOLEAN] /\ closing \in [Sides -> BOOLEAN]
    /\ resetting \in [Sides -> BOOLEAN]
    /\ have \in [Sides -> SUBSET Nat] /\ newAck \in [Sides -> BOOLEAN]
    /\ turns \in [Sides -> 0 .. 2]
    /\ hand \in [Sides -> Package \cup {None}]
    /\ net \subseteq Package /\ handling \subseteq Handled
    /\ reset \in [Sides -> BOOLEAN] /\ early \in [Sides -> BOOLEAN] /\ late \in [Sides -> BOOLEAN]

(* The send queue, and the units of it that arrived.                       *)
QueueFits(s) ==
    /\ 1 <= next[s] /\ next[s] <= end[s] /\ popped[s] <= end[s]
    /\ flight[s] \cup lost[s] \subseteq 1 .. (next[s] - 1)
    /\ flight[s] \cap lost[s] = {}
    /\ selfCloseStreamPos[s] <= end[s]
    /\ hand[s] # None => turns[s] > 0

OnlySentArrives == \A s \in Sides : have[s] \subseteq 1 .. (next[Peer(s)] - 1)

(* The close of s escaped its two races.                                   *)
Settled(s) == ~early[s] /\ ~late[s]

(* A FIN of s at pos: s has begun to close, and pos is the end for good.   *)
FinFits(s, pos) == state[s] # "ESTABLISH" /\ (Settled(s) => pos = end[s])

(* A FINACK for s: the peer has everything s will ever send.               *)
AnswerFits(s) == state[s] # "ESTABLISH" /\ (Settled(s) => have[Peer(s)] = 1 .. (end[s] - 1))

(* What a package under way, or in the hand of the send loop, says.        *)
Carried(m) ==
    /\ m.len = 1 => m.pos \in 1 .. (next[Peer(m.to)] - 1)
    /\ m.fin => FinFits(Peer(m.to), FinPos(m))
    /\ m.finack => AnswerFits(m.to)

PackagesFit ==
    /\ \A m \in net : Carried(m)
    /\ \A w \in handling : Carried(w.m)
    /\ \A s \in Sides : hand[s] # None => hand[s].to = Peer(s) /\ Carried(hand[s])

RemoteFits == \A s \in Sides : remoteCloseStreamPos[s] > 0 => FinFits(Peer(s), remoteCloseStreamPos[s])

(* The sub-states in which the FIN is answered, and those that end.        *)
AnsweredStates == {"FIN2", "TIMEWAIT", "CLOSED"}
EndStates == {"TIMEWAIT", "CLOSED"}

(* The sub-state of the close, the state and the timers go together.       *)
SubStateFits(s) ==
    /\ closeSubState[s] \notin {"NONE", "WAITCLOSE"} => state[s] # "ESTABLISH"
    /\ closeTimer[s] = "timewait" => closeSubState[s] \in EndStates
    /\ state[s] = "CLOSE" => closeSubState[s] = "CLOSED"
    /\ resetting[s] => reset[s] /\ state[s] # "ESTABLISH"

(* What a thread that has moved the sub-state finds when it goes on.       *)
StepFits(w) ==
    /\ w.step = "finack" => w.m.finack
    /\ w.step = "stop" => closeSubState[w.m.to] \in AnsweredStates
    /\ w.step = "begin" => closeSubState[w.m.to] \in EndStates
    /\ w.step = "finish" => closeSubState[w.m.to] = "CLOSED"

(* Only a FINACK, or a Reset, ends the wait for one.                       *)
WasAnswered(s) == closeSubState[s] \in AnsweredStates /\ ~reset[s]

Answered(s) == WasAnswered(s) => AnswerFits(s)

CloseInv ==
    /\ CloseTypes
    /\ \A s \in Sides : QueueFits(s)
    /\ OnlySentArrives
    /\ PackagesFit
    /\ RemoteFits
    /\ \A s \in Sides : SubStateFits(s) /\ Answered(s)
    /\ \A w \in handling : StepFits(w)
    /\ FinIsRepeated
    /\ ClosedMeansReported

(* What was said of FINs and their answers stays true: who has begun to    *)
(* close appends nothing more, unless late, and units only arrive.         *)
LEMMA Forward ==
  ASSUME CloseInv, CloseTypes', \A s \in Sides : QueueFits(s)', OnlySentArrives',
         \A s \in Sides :
            /\ state[s] # "ESTABLISH" => state'[s] # "ESTABLISH"
            /\ Settled(s)' => Settled(s)
            /\ end'[s] = end[s] \/ ~Settled(s)' \/ state[s] = "ESTABLISH"
            /\ have[s] \subseteq have'[s]
            /\ next[s] <= next'[s]
  PROVE  /\ \A s \in Sides : \A pos : FinFits(s, pos) => FinFits(s, pos)'
         /\ \A s \in Sides : AnswerFits(s) => AnswerFits(s)'
         /\ \A m \in Package : Carried(m) => Carried(m)'
<1>1. \A s \in Sides : \A pos : FinFits(s, pos) => FinFits(s, pos)'
  BY DEF FinFits
<1>2. ASSUME NEW s \in Sides, AnswerFits(s) PROVE AnswerFits(s)'
  <2>1. state'[s] # "ESTABLISH"
    BY <1>2 DEF AnswerFits
  <2>2. ASSUME Settled(s)' PROVE have'[Peer(s)] = 1 .. (end'[s] - 1)
    <3>1. Peer(s) \in Sides /\ Peer(Peer(s)) = s
      BY Peers
    <3>2. end'[s] = end[s] /\ have[Peer(s)] = 1 .. (end[s] - 1)
      BY <1>2, <2>2 DEF AnswerFits
    <3>3. have'[Peer(s)] \subseteq 1 .. (next'[s] - 1)
      BY <3>1 DEF OnlySentArrives
    <3>4. next'[s] \in Nat /\ end'[s] \in Nat /\ next'[s] <= end'[s]
      BY DEF CloseTypes, QueueFits
    <3>5. have'[Peer(s)] \subseteq 1 .. (end'[s] - 1)
      BY <3>3, <3>4
    <3> QED
      BY <3>1, <3>2, <3>5
  <2> QED
    BY <2>1, <2>2 DEF AnswerFits
<1>3. ASSUME NEW m \in Package, Carried(m) PROVE Carried(m)'
  <2>1. m.to \in Sides /\ Peer(m.to) \in Sides /\ m.pos \in Nat
    BY Peers DEF Package
  <2>2. m.len = 1 => m.pos \in 1 .. (next'[Peer(m.to)] - 1)
    <3>1. next[Peer(m.to)] \in Nat /\ next'[Peer(m.to)] \in Nat /\ next[Peer(m.to)] <= next'[Peer(m.to)]
      BY <2>1 DEF CloseInv, CloseTypes
    <3> QED
      BY <1>3, <2>1, <3>1 DEF Carried
  <2>3. m.fin => FinFits(Peer(m.to), FinPos(m))'
    BY <1>1, <1>3, <2>1 DEF Carried, FinPos
  <2>4. m.finack => AnswerFits(m.to)'
    BY <1>2, <1>3, <2>1 DEF Carried
  <2> QED
    BY <2>2, <2>3, <2>4 DEF Carried
<1> QED
  BY <1>1, <1>2, <1>3

(* A step after which what is said anew fits, by the state before or after *)
(* it.                                                                     *)
LEMMA StepInv ==
  ASSUME CloseInv, CloseTypes', \A s \in Sides : QueueFits(s)', OnlySentArrives',
         \A s \in Sides :
            /\ state[s] # "ESTABLISH" => state'[s] # "ESTABLISH"
            /\ Settled(s)' => Settled(s)
            /\ end'[s] = end[s] \/ ~Settled(s)' \/ state[s] = "ESTABLISH"
            /\ have[s] \subseteq have'[s]
            /\ next[s] <= next'[s],
         \A s \in Sides : SubStateFits(s)' /\ (WasAnswered(s)' => WasAnswered(s) \/ AnswerFits(s)),
         FinIsRepeated', ClosedMeansReported',
         \A s \in Sides : \/ remoteCloseStreamPos'[s] = remoteCloseStreamPos[s]
                          \/ FinFits(Peer(s), remoteCloseStreamPos'[s]),
         \A s \in Sides : \/ hand'[s] \in {hand[s], None}
                          \/ \E m \in Package : m = hand'[s] /\ m.to = Peer(s) /\ Carried(m)',
         \A m \in net' : m \in net \/ (m \in Package /\ Carried(m)),
         \A w \in handling' : \/ \E v \in handling : w.m = v.m
                              \/ w.m \in Package /\ Carried(w.m),
         \A w \in handling' : StepFits(w)'
  PROVE  CloseInv'
<1>1. /\ \A s \in Sides : \A pos : FinFits(s, pos) => FinFits(s, pos)'
      /\ \A s \in Sides : AnswerFits(s) => AnswerFits(s)'
      /\ \A m \in Package : Carried(m) => Carried(m)'
  BY Forward
<1>2. RemoteFits'
  <2> SUFFICES ASSUME NEW s \in Sides, remoteCloseStreamPos'[s] > 0
               PROVE  FinFits(Peer(s), remoteCloseStreamPos[s])'
    BY DEF RemoteFits
  <2>1. FinFits(Peer(s), remoteCloseStreamPos'[s])
    BY DEF CloseInv, RemoteFits
  <2>2. Peer(s) \in Sides
    BY Peers
  <2> QED
    BY <1>1, <2>1, <2>2 DEF FinFits
<1>3. PackagesFit'
  <2>1. \A m \in net : m \in Package /\ Carried(m)
    BY DEF CloseInv, CloseTypes, PackagesFit
  <2>2. \A m \in net' : Carried(m)'
    BY <1>1, <2>1
  <2>4. \A w \in handling' : Carried(w.m)'
    <3>1. \A v \in handling : v.m \in Package /\ Carried(v.m)
      BY DEF CloseInv, CloseTypes, PackagesFit, Handled
    <3>2. \A w \in handling' : w.m \in Package /\ Carried(w.m)
      BY <3>1
    <3> QED
      BY <1>1, <3>2
  <2>3. ASSUME NEW s \in Sides, hand'[s] # None
        PROVE  hand'[s].to = Peer(s) /\ Carried(hand[s])'
    <3>1. CASE hand'[s] = hand[s]
      <4>1. hand[s] \in Package /\ hand[s].to = Peer(s) /\ Carried(hand[s])
        BY <2>3, <3>1 DEF CloseInv, CloseTypes, PackagesFit
      <4> QED
        BY <1>1, <3>1, <4>1 DEF Carried
    <3>2. CASE \E m \in Package : m = hand'[s] /\ m.to = Peer(s) /\ Carried(m)'
      BY <3>2 DEF Carried
    <3> QED
      BY <2>3, <3>1, <3>2
  <2> QED
    BY <2>2, <2>3, <2>4 DEF PackagesFit
<1>4. \A s \in Sides : Answered(s)'
  BY <1>1 DEF CloseInv, Answered
<1> QED
  BY <1>2, <1>3, <1>4 DEF CloseInv

(* A step that leaves the send loop's hand and what came from the peer     *)
(* alone, and sends nothing.                                               *)
LEMMA LocalStep ==
  ASSUME CloseInv, CloseTypes', \A s \in Sides : QueueFits(s)', OnlySentArrives',
         \A s \in Sides :
            /\ state[s] # "ESTABLISH" => state'[s] # "ESTABLISH"
            /\ Settled(s)' => Settled(s)
            /\ end'[s] = end[s] \/ ~Settled(s)' \/ state[s] = "ESTABLISH"
            /\ next[s] <= next'[s],
         \A s \in Sides : SubStateFits(s)' /\ (WasAnswered(s)' => WasAnswered(s)),
         \A s \in Sides : \/ closeSubState'[s] \in {closeSubState[s], "CLOSED"}
                          \/ closeSubState[s] \notin AnsweredStates,
         FinIsRepeated', ClosedMeansReported',
         UNCHANGED <<remoteCloseStreamPos, have, hand, handling>>, net' \subseteq net
  PROVE  CloseInv'
<1>1. \A w \in handling' : w \in handling /\ StepFits(w) /\ w.m.to \in Sides
  BY DEF CloseInv, CloseTypes, Handled, Package
<1>2. \A w \in handling' : StepFits(w)'
  BY <1>1 DEF StepFits, AnsweredStates, EndStates
<1>3. \A s \in Sides : have[s] \subseteq have'[s]
  OBVIOUS
<1>4. \A s \in Sides : hand'[s] \in {hand[s], None}
  OBVIOUS
<1> QED
  BY <1>1, <1>2, <1>3, <1>4, StepInv

(* Nothing the invariant speaks of changes, but for the types.             *)
LEMMA QuietStep ==
  ASSUME CloseInv, CloseTypes',
         UNCHANGED <<state, closeSubState, selfCloseStreamPos, remoteCloseStreamPos, closeTimer,
                     finCallback, end, next, flight, lost, popped, have, turns, hand, handling,
                     resetting, reset, early, late>>,
         net' \subseteq net
  PROVE  CloseInv'
<1>1. (\A s \in Sides : QueueFits(s)') /\ OnlySentArrives'
  BY DEF CloseInv, QueueFits, OnlySentArrives
<1>2. \A s \in Sides : SubStateFits(s)' /\ (WasAnswered(s)' => WasAnswered(s))
  BY DEF CloseInv, SubStateFits, WasAnswered
<1>3. FinIsRepeated' /\ ClosedMeansReported'
  BY DEF CloseInv, FinIsRepeated, ClosedMeansReported
<1>4. \A s \in Sides : /\ state[s] # "ESTABLISH" => state'[s] # "ESTABLISH"
                       /\ Settled(s)' => Settled(s)
                       /\ end'[s] = end[s]
                       /\ next[s] <= next'[s]
  BY DEF CloseInv, CloseTypes, Settled
<1> QED
  BY <1>1, <1>2, <1>3, <1>4, LocalStep

(* TrySend keeps the turns within their bound and takes none away.         *)
LEMMA TurnsKept ==
  ASSUME CloseInv, NEW s \in Sides, NEW n \in Nat, TrySend(s, n)
  PROVE  /\ turns' \in [Sides -> 0 .. 2]
         /\ \A t \in Sides : turns[t] > 0 => turns'[t] > 0
<1>1. turns \in [Sides -> 0 .. 2]
  BY DEF CloseInv, CloseTypes
<1> DEFINE v == Min({turns[s] + n, 2})
<1>2. turns[s] + n \in Nat /\ turns[s] \in 0 .. 2
  BY <1>1
<1>3. v = IF turns[s] + n <= 2 THEN turns[s] + n ELSE 2
  BY <1>2, MinMaxTwo
<1>4. v \in 0 .. 2 /\ (turns[s] > 0 => v > 0)
  BY <1>2, <1>3
<1>5. turns' = [turns EXCEPT ![s] = v]
  BY DEF TrySend
<1> QED
  BY <1>1, <1>4, <1>5

-----------------------------------------------------------------------------
(* The application's calls                                                  *)

(* The check of PackageConnectionSend.                                     *)
LEMMA SendInv == ASSUME CloseInv, NEW s \in Sides, Send(s) PROVE CloseInv'
<1>1. /\ sending' = [sending EXCEPT ![s] = TRUE]
      /\ UNCHANGED <<state, closeSubState, selfCloseStreamPos, remoteCloseStreamPos, closeTimer, finCallback,
                     end, next, flight, lost, popped, closing, resetting, have, newAck, handling, turns, hand, net,
                     reset, early, late>>
  BY DEF Send, closeVars, queueVars, recvVars, driveVars
<1>2. CloseTypes'
  BY <1>1 DEF CloseInv, CloseTypes
<1> QED
  BY <1>1, <1>2, QuietStep

(* A package that is lost.                                                 *)
LEMMA LoseInv == ASSUME CloseInv, NEW m \in net, Lose(m) PROVE CloseInv'
<1>1. /\ net' \subseteq net
      /\ UNCHANGED <<state, closeSubState, selfCloseStreamPos, remoteCloseStreamPos, closeTimer, finCallback,
                     end, next, flight, lost, popped, sending, closing, resetting, have, newAck, handling, turns, hand,
                     reset, early, late>>
  BY DEF Lose, closeVars, queueVars, callVars, recvVars, driveVars
<1>2. CloseTypes'
  BY <1>1 DEF CloseInv, CloseTypes
<1> QED
  BY <1>1, <1>2, QuietStep

(* The compare and swap of PackageConnectionClose.                         *)
LEMMA CloseCallInv == ASSUME CloseInv, NEW s \in Sides, Close(s) PROVE CloseInv'
<1>1. /\ state[s] = "ESTABLISH"
      /\ state' = [state EXCEPT ![s] = "CLOSING"]
      /\ closing' = [closing EXCEPT ![s] = TRUE]
      /\ UNCHANGED <<closeSubState, selfCloseStreamPos, remoteCloseStreamPos, closeTimer, finCallback,
                     end, next, flight, lost, popped, sending, resetting, have, newAck, handling, turns, hand, net,
                     reset, early, late>>
  BY DEF Close, queueVars, recvVars, driveVars
<1>2. CloseTypes /\ CloseTypes'
  BY <1>1 DEF CloseInv, CloseTypes
<1>3. \A t \in Sides : state'[t] = IF t = s THEN "CLOSING" ELSE state[t]
  BY <1>1, <1>2 DEF CloseTypes
<1>4. (\A t \in Sides : QueueFits(t)') /\ OnlySentArrives'
  BY <1>1 DEF CloseInv, QueueFits, OnlySentArrives
<1>5. \A t \in Sides : SubStateFits(t)' /\ (WasAnswered(t)' => WasAnswered(t))
  BY <1>1, <1>3 DEF CloseInv, SubStateFits, WasAnswered
<1>6. FinIsRepeated' /\ ClosedMeansReported'
  BY <1>1, <1>3 DEF CloseInv, FinIsRepeated, ClosedMeansReported
<1>7. \A t \in Sides : /\ state[t] # "ESTABLISH" => state'[t] # "ESTABLISH"
                       /\ Settled(t)' => Settled(t)
                       /\ end'[t] = end[t]
                       /\ next[t] <= next'[t]
  BY <1>1, <1>2, <1>3 DEF CloseTypes, Settled
<1> QED
  BY <1>1, <1>2, <1>4, <1>5, <1>6, <1>7, LocalStep

(* SendQueueAddCloseOperation *)
LEMMA AddCloseOperationInv == ASSUME CloseInv, NEW s \in Sides, AddCloseOperation(s) PROVE CloseInv'
<1> DEFINE n == IF end[s] = AckStreamPos(s) THEN 1 ELSE 0
<1>1. /\ closing' = [closing EXCEPT ![s] = FALSE]
      /\ selfCloseStreamPos' = [selfCloseStreamPos EXCEPT ![s] = end[s]]
      /\ TrySend(s, n)
      /\ UNCHANGED <<state, closeSubState, remoteCloseStreamPos, closeTimer, finCallback,
                     end, next, flight, lost, popped, sending, resetting, have, newAck, handling, hand, net,
                     reset, early, late>>
  BY DEF AddCloseOperation, queueVars, recvVars
<1>2. n \in Nat
  OBVIOUS
<1> HIDE DEF n
<1>3. turns' \in [Sides -> 0 .. 2] /\ \A t \in Sides : turns[t] > 0 => turns'[t] > 0
  BY <1>1, <1>2, TurnsKept
<1>4. CloseTypes /\ CloseTypes'
  BY <1>1, <1>3 DEF CloseInv, CloseTypes
<1>5. \A t \in Sides : selfCloseStreamPos'[t] = IF t = s THEN end[s] ELSE selfCloseStreamPos[t]
  BY <1>1, <1>4 DEF CloseTypes
<1>6. (\A t \in Sides : QueueFits(t)') /\ OnlySentArrives'
  BY <1>1, <1>3, <1>4, <1>5 DEF CloseInv, CloseTypes, QueueFits, OnlySentArrives
<1>7. \A t \in Sides : SubStateFits(t)' /\ (WasAnswered(t)' => WasAnswered(t))
  BY <1>1 DEF CloseInv, SubStateFits, WasAnswered
<1>8. FinIsRepeated' /\ ClosedMeansReported'
  BY <1>1 DEF CloseInv, FinIsRepeated, ClosedMeansReported
<1>9. \A t \in Sides : /\ state[t] # "ESTABLISH" => state'[t] # "ESTABLISH"
                       /\ Settled(t)' => Settled(t)
                       /\ end'[t] = end[t]
                       /\ next[t] <= next'[t]
  BY <1>1, <1>4 DEF CloseTypes, Settled
<1> QED
  BY <1>1, <1>4, <1>6, <1>7, <1>8, <1>9, LocalStep

(* SendQueueAddBuffer, which does not look at the state again.             *)
LEMMA AddBufferInv == ASSUME CloseInv, NEW s \in Sides, AddBuffer(s) PROVE CloseInv'
<1> DEFINE n == IF next[s] = end[s] THEN 1 ELSE 0
<1>1. /\ sending' = [sending EXCEPT ![s] = FALSE]
      /\ end' = [end EXCEPT ![s] = @ + 1]
      /\ late' = [late EXCEPT ![s] = @ \/ state[s] # "ESTABLISH"]
      /\ TrySend(s, n)
      /\ UNCHANGED <<state, closeSubState, selfCloseStreamPos, remoteCloseStreamPos, closeTimer, finCallback,
                     next, flight, lost, popped, closing, resetting, have, newAck, handling, hand, net,
                     reset, early>>
  BY DEF AddBuffer, closeVars, recvVars
<1>2. n \in Nat
  OBVIOUS
<1> HIDE DEF n
<1>3. turns' \in [Sides -> 0 .. 2] /\ \A t \in Sides : turns[t] > 0 => turns'[t] > 0
  BY <1>1, <1>2, TurnsKept
<1>4. CloseTypes /\ CloseTypes'
  <2>1. end' \in [Sides -> Nat] /\ late' \in [Sides -> BOOLEAN] /\ sending' \in [Sides -> BOOLEAN]
    BY <1>1 DEF CloseInv, CloseTypes
  <2> QED
    BY <1>1, <1>3, <2>1 DEF CloseInv, CloseTypes
<1>5. /\ \A t \in Sides : end'[t] = IF t = s THEN end[s] + 1 ELSE end[t]
      /\ \A t \in Sides : late[t] => late'[t]
      /\ state[s] # "ESTABLISH" => late'[s]
  <2>1. \A t \in Sides : end'[t] = IF t = s THEN end[s] + 1 ELSE end[t]
    BY <1>1, <1>4 DEF CloseTypes
  <2>2. /\ \A t \in Sides : late[t] => late'[t]
        /\ state[s] # "ESTABLISH" => late'[s]
    <3>1. late \in [Sides -> BOOLEAN]
      BY <1>4 DEF CloseTypes
    <3>2. late'[s] = (late[s] \/ state[s] # "ESTABLISH") /\ \A t \in Sides \ {s} : late'[t] = late[t]
      BY <1>1, <3>1
    <3> QED
      BY <3>2, Zenon
  <2> QED
    BY <2>1, <2>2
<1>6. (\A t \in Sides : QueueFits(t)') /\ OnlySentArrives'
  <2>1. \A t \in Sides : end[t] \in Nat /\ end'[t] >= end[t] /\ next[t] \in Nat /\ popped[t] \in Nat
                         /\ selfCloseStreamPos[t] \in Nat /\ end'[t] \in Nat
    <3>1. \A t \in Sides : /\ end[t] \in Nat /\ next[t] \in Nat /\ popped[t] \in Nat
                           /\ selfCloseStreamPos[t] \in Nat /\ end'[t] \in Nat
      BY <1>4 DEF CloseTypes
    <3> QED
      BY <1>5, <3>1
  <2> QED
    BY <1>1, <1>3, <2>1 DEF CloseInv, QueueFits, OnlySentArrives
<1>7. \A t \in Sides : SubStateFits(t)' /\ (WasAnswered(t)' => WasAnswered(t))
  BY <1>1 DEF CloseInv, SubStateFits, WasAnswered
<1>8. FinIsRepeated' /\ ClosedMeansReported'
  BY <1>1, <1>5 DEF CloseInv, FinIsRepeated, ClosedMeansReported
<1>9. \A t \in Sides : /\ state[t] # "ESTABLISH" => state'[t] # "ESTABLISH"
                       /\ Settled(t)' => Settled(t)
                       /\ end'[t] = end[t] \/ ~Settled(t)' \/ state[t] = "ESTABLISH"
                       /\ next[t] <= next'[t]
  BY <1>1, <1>4, <1>5 DEF CloseTypes, Settled
<1> QED
  BY <1>1, <1>4, <1>6, <1>7, <1>8, <1>9, LocalStep

(* The types of what PackageConnectionMaybeCloseFinish sets.               *)
LEMMA FinishTypes ==
  ASSUME CloseInv, NEW s \in Sides, MaybeCloseFinish(s), UNCHANGED end
  PROVE  /\ state' \in [Sides -> {"ESTABLISH", "CLOSING", "CLOSE"}]
         /\ popped' \in [Sides -> Nat]
BY DEF MaybeCloseFinish, CloseInv, CloseTypes

(* The compare and swap of PackageConnectionReset.                         *)
LEMMA ResetInv == ASSUME CloseInv, NEW s \in Sides, Reset(s) PROVE CloseInv'
<1>1. /\ state[s] = "ESTABLISH"
      /\ state' = [state EXCEPT ![s] = "CLOSING"]
      /\ resetting' = [resetting EXCEPT ![s] = TRUE]
      /\ reset' = [reset EXCEPT ![s] = TRUE]
      /\ UNCHANGED <<closeSubState, selfCloseStreamPos, remoteCloseStreamPos, closeTimer, finCallback,
                     end, next, flight, lost, popped, sending, closing, have, newAck, handling, turns, hand,
                     net, early, late>>
  BY DEF Reset, queueVars, recvVars, driveVars
<1>2. CloseTypes /\ CloseTypes'
  BY <1>1 DEF CloseInv, CloseTypes
<1>3. \A t \in Sides : /\ state'[t] = IF t = s THEN "CLOSING" ELSE state[t]
                       /\ reset'[t] = IF t = s THEN TRUE ELSE reset[t]
                       /\ resetting'[t] = IF t = s THEN TRUE ELSE resetting[t]
  BY <1>1, <1>2 DEF CloseTypes
<1>4. (\A t \in Sides : QueueFits(t)') /\ OnlySentArrives'
  BY <1>1 DEF CloseInv, QueueFits, OnlySentArrives
<1>5. \A t \in Sides : SubStateFits(t)'
  <2>1. SubStateFits(s)'
    <3>1. state'[s] = "CLOSING" /\ reset'[s] = TRUE /\ SubStateFits(s)
      BY <1>3 DEF CloseInv
    <3> QED
      BY <1>1, <3>1 DEF SubStateFits
  <2>2. ASSUME NEW t \in Sides \ {s} PROVE SubStateFits(t)'
    <3>1. SubStateFits(t) /\ state'[t] = state[t] /\ reset'[t] = reset[t] /\ resetting'[t] = resetting[t]
      BY <1>3 DEF CloseInv
    <3> QED
      BY <1>1, <3>1 DEF SubStateFits
  <2> QED
    BY <2>1, <2>2
<1>6. \A t \in Sides : WasAnswered(t)' => WasAnswered(t)
  BY <1>1, <1>3, Zenon DEF WasAnswered
<1>7. FinIsRepeated' /\ ClosedMeansReported'
  BY <1>1, <1>3 DEF CloseInv, FinIsRepeated, ClosedMeansReported
<1>8. \A t \in Sides : /\ state[t] # "ESTABLISH" => state'[t] # "ESTABLISH"
                       /\ Settled(t)' => Settled(t)
                       /\ end'[t] = end[t]
                       /\ next[t] <= next'[t]
  BY <1>1, <1>2, <1>3 DEF CloseTypes, Settled
<1> QED
  BY <1>1, <1>2, <1>4, <1>5, <1>6, <1>7, <1>8, LocalStep

(* PackageConnectionMaybeCloseFinish, in a step that leaves the sub-state  *)
(* CLOSED: it gives back every buffer there is.                            *)
LEMMA FinishInv ==
  ASSUME CloseInv, CloseTypes', NEW s \in Sides, MaybeCloseFinish(s),
         state[s] # "ESTABLISH", closeSubState'[s] = "CLOSED",
         \A t \in Sides \ {s} : closeSubState'[t] = closeSubState[t] /\ closeTimer'[t] = closeTimer[t],
         closeSubState[s] \in EndStates \/ reset[s],
         \A t \in Sides : resetting'[t] => resetting[t],
         UNCHANGED <<selfCloseStreamPos, remoteCloseStreamPos, finCallback, end, next, flight, lost,
                     sending, closing, have, newAck, turns, hand, net, reset, early, late>>,
         \A w \in handling' : \/ w \in handling
                              \/ w.step = "push" /\ \E v \in handling : w.m = v.m
  PROVE  CloseInv'
<1>1. CloseTypes /\ \A w \in handling : w.m.to \in Sides /\ StepFits(w)
  BY DEF CloseInv, CloseTypes, Handled, Package
<1>2. /\ state'[s] = "CLOSE" /\ \A t \in Sides \ {s} : state'[t] = state[t] /\ popped'[t] = popped[t]
      /\ popped'[s] = IF state[s] = "CLOSING" THEN end[s] ELSE popped[s]
  BY <1>1 DEF MaybeCloseFinish, CloseTypes
<1>3. (\A t \in Sides : QueueFits(t)') /\ OnlySentArrives'
  BY <1>1, <1>2 DEF CloseInv, CloseTypes, QueueFits, OnlySentArrives
<1>4. \A t \in Sides : SubStateFits(t)'
  <2>1. SubStateFits(s)'
    BY <1>2 DEF CloseInv, SubStateFits, EndStates
  <2>2. ASSUME NEW t \in Sides \ {s} PROVE SubStateFits(t)'
    <3>1. SubStateFits(t) /\ state'[t] = state[t] /\ closeSubState'[t] = closeSubState[t]
          /\ closeTimer'[t] = closeTimer[t] /\ (resetting'[t] => resetting[t]) /\ reset'[t] = reset[t]
      BY <1>2 DEF CloseInv
    <3> QED
      BY <3>1 DEF SubStateFits
  <2> QED
    BY <2>1, <2>2
<1>5. \A t \in Sides : WasAnswered(t)' => WasAnswered(t)
  BY Zenon DEF WasAnswered, AnsweredStates, EndStates
<1>6. FinIsRepeated'
  BY <1>1 DEF CloseInv, FinIsRepeated
<1>7. ClosedMeansReported'
  <2> SUFFICES ASSUME NEW t \in Sides, state'[t] = "CLOSE", popped'[t] < end[t] PROVE late[t]
    BY DEF ClosedMeansReported
  <2>1. state[t] = "CLOSE" /\ popped[t] < end[t]
    BY <1>1, <1>2 DEF CloseTypes
  <2> QED
    BY <2>1 DEF CloseInv, ClosedMeansReported
<1>8. \A t \in Sides : /\ state[t] # "ESTABLISH" => state'[t] # "ESTABLISH"
                       /\ Settled(t)' => Settled(t)
                       /\ end'[t] = end[t] /\ have[t] \subseteq have'[t] /\ next[t] <= next'[t]
  BY <1>1, <1>2 DEF CloseTypes, Settled
<1>9. \A w \in handling' : StepFits(w)'
  <2> SUFFICES ASSUME NEW w \in handling' PROVE StepFits(w)'
    OBVIOUS
  <2>1. CASE w.step = "push"
    BY <2>1 DEF StepFits
  <2>2. CASE w \in handling
    BY <1>1, <2>2 DEF StepFits, AnsweredStates, EndStates
  <2> QED
    BY <2>1, <2>2
<1>10. \A w \in handling' : \E v \in handling : w.m = v.m
  OBVIOUS
<1> QED
  BY <1>3, <1>4, <1>5, <1>6, <1>7, <1>8, <1>9, <1>10, StepInv

(* The rest of PackageConnectionReset.                                     *)
LEMMA ResetFinishInv == ASSUME CloseInv, NEW s \in Sides, ResetFinish(s) PROVE CloseInv'
<1>1. /\ resetting[s]
      /\ resetting' = [resetting EXCEPT ![s] = FALSE]
      /\ closeSubState' = [closeSubState EXCEPT ![s] = "CLOSED"]
      /\ MaybeCloseFinish(s)
      /\ closeTimer' = [closeTimer EXCEPT ![s] = IF state[s] = "CLOSING" THEN "none" ELSE @]
      /\ UNCHANGED <<selfCloseStreamPos, remoteCloseStreamPos, finCallback, end, next, flight, lost,
                     sending, closing, have, newAck, handling, turns, hand, net, reset, early, late>>
  BY DEF ResetFinish, recvVars, driveVars
<1>2. CloseTypes /\ CloseTypes'
  BY <1>1, FinishTypes DEF CloseInv, CloseTypes
<1>3. reset[s] /\ state[s] # "ESTABLISH"
  BY <1>1 DEF CloseInv, SubStateFits
<1>4. /\ closeSubState'[s] = "CLOSED"
      /\ \A t \in Sides \ {s} : closeSubState'[t] = closeSubState[t] /\ closeTimer'[t] = closeTimer[t]
      /\ \A t \in Sides : resetting'[t] => resetting[t]
  BY <1>1, <1>2 DEF CloseTypes
<1> QED
  BY <1>1, <1>2, <1>3, <1>4, FinishInv

-----------------------------------------------------------------------------
(* The timers                                                               *)

(* PackageConnectionRtoTimerCallback *)
LEMMA RtoTimerInv ==
  ASSUME CloseInv, NEW s \in Sides, NEW old \in SUBSET flight[s], RtoTimer(s, old)
  PROVE  CloseInv'
<1>1. /\ flight' = [flight EXCEPT ![s] = @ \ old]
      /\ lost' = [lost EXCEPT ![s] = @ \cup old]
      /\ TrySend(s, 1)
      /\ UNCHANGED <<state, closeSubState, selfCloseStreamPos, remoteCloseStreamPos, closeTimer, finCallback,
                     end, next, popped, sending, closing, resetting, have, newAck, handling, hand, net, reset, early, late>>
  BY DEF RtoTimer, closeVars, callVars, recvVars
<1>2. turns' \in [Sides -> 0 .. 2] /\ \A t \in Sides : turns[t] > 0 => turns'[t] > 0
  BY <1>1, TurnsKept
<1>3. CloseTypes /\ CloseTypes'
  <2>1. flight' \in [Sides -> SUBSET Nat] /\ lost' \in [Sides -> SUBSET Nat]
    BY <1>1 DEF CloseInv, CloseTypes
  <2> QED
    BY <1>1, <1>2, <2>1 DEF CloseInv, CloseTypes
<1>4. \A t \in Sides : /\ flight'[t] \cup lost'[t] = flight[t] \cup lost[t]
                       /\ flight[t] \cap lost[t] = {} => flight'[t] \cap lost'[t] = {}
  BY <1>1, <1>3 DEF CloseTypes
<1>5. (\A t \in Sides : QueueFits(t)') /\ OnlySentArrives'
  BY <1>1, <1>2, <1>4 DEF CloseInv, QueueFits, OnlySentArrives
<1>6. \A t \in Sides : SubStateFits(t)' /\ (WasAnswered(t)' => WasAnswered(t))
  BY <1>1 DEF CloseInv, SubStateFits, WasAnswered
<1>7. FinIsRepeated' /\ ClosedMeansReported'
  BY <1>1 DEF CloseInv, FinIsRepeated, ClosedMeansReported
<1>8. \A t \in Sides : /\ state[t] # "ESTABLISH" => state'[t] # "ESTABLISH"
                       /\ Settled(t)' => Settled(t)
                       /\ end'[t] = end[t]
                       /\ next[t] <= next'[t]
  BY <1>1, <1>3 DEF CloseTypes, Settled
<1> QED
  BY <1>1, <1>3, <1>5, <1>6, <1>7, <1>8, LocalStep

(* The FIN timer fires, and both steps of its callback: the timer is down  *)
(* between them, which finCallback stands for.                             *)
LEMMA FinTimerInv ==
  ASSUME CloseInv, NEW s \in Sides, FinTimer(s) \/ FinTimerCallback(s) \/ FinTimerRestart(s)
  PROVE  CloseInv'
<1>1. UNCHANGED <<state, closeSubState, selfCloseStreamPos, remoteCloseStreamPos,
                  end, next, flight, lost, popped, sending, closing, resetting, have, newAck, handling,
                  hand, net, reset, early, late>>
  BY DEF FinTimer, FinTimerCallback, FinTimerRestart, queueVars, callVars, recvVars, driveVars
<1>2. CloseTypes
  BY DEF CloseInv
<1>3. /\ turns' \in [Sides -> 0 .. 2] /\ \A t \in Sides : turns[t] > 0 => turns'[t] > 0
  <2>1. CASE TrySend(s, 1)
    BY <2>1, TurnsKept
  <2>2. CASE UNCHANGED turns
    BY <1>2, <2>2 DEF CloseTypes
  <2> QED
    BY <2>1, <2>2 DEF FinTimer, FinTimerCallback, FinTimerRestart, driveVars
<1>4. /\ closeTimer' \in [Sides -> {"none", "fin", "timewait"}]
      /\ finCallback' \in [Sides -> {"idle", "fired", "again"}]
      /\ \A t \in Sides : closeTimer'[t] \in {"none", "fin", closeTimer[t]}
      /\ \A t \in Sides \ {s} : closeTimer'[t] = closeTimer[t] /\ finCallback'[t] = finCallback[t]
      /\ \/ closeTimer'[s] = "fin"
         \/ finCallback'[s] # "idle"
         \/ closeSubState[s] \in AnsweredStates
  <2>1. CASE FinTimer(s)
    <3>1. finCallback' = [finCallback EXCEPT ![s] = "fired"] /\ UNCHANGED closeTimer
      BY <2>1 DEF FinTimer
    <3> QED
      BY <1>2, <3>1 DEF CloseTypes
  <2>2. CASE FinTimerCallback(s)
    <3>1. closeTimer' = [closeTimer EXCEPT ![s] = "none"]
      BY <2>2 DEF FinTimerCallback
    <3>2. CASE closeSubState[s] \in {"FIN2", "TIMEWAIT", "CLOSED"}
      <4>1. finCallback' = [finCallback EXCEPT ![s] = "idle"]
        BY <2>2, <3>2 DEF FinTimerCallback
      <4> QED
        BY <1>2, <3>1, <3>2, <4>1 DEF CloseTypes, AnsweredStates
    <3>3. CASE closeSubState[s] \notin {"FIN2", "TIMEWAIT", "CLOSED"}
      <4>1. finCallback' = [finCallback EXCEPT ![s] = "again"]
        BY <2>2, <3>3 DEF FinTimerCallback
      <4> QED
        BY <1>2, <3>1, <4>1 DEF CloseTypes
    <3> QED
      BY <3>2, <3>3
  <2>3. CASE FinTimerRestart(s)
    <3>1. closeTimer' = [closeTimer EXCEPT ![s] = "fin"] /\ finCallback' = [finCallback EXCEPT ![s] = "idle"]
      BY <2>3 DEF FinTimerRestart
    <3> QED
      BY <1>2, <3>1 DEF CloseTypes
  <2> QED
    BY <2>1, <2>2, <2>3
<1>5. CloseTypes'
  BY <1>1, <1>2, <1>3, <1>4 DEF CloseTypes
<1>6. (\A t \in Sides : QueueFits(t)') /\ OnlySentArrives'
  BY <1>1, <1>3 DEF CloseInv, QueueFits, OnlySentArrives
<1>7. \A t \in Sides : SubStateFits(t)' /\ (WasAnswered(t)' => WasAnswered(t))
  BY <1>1, <1>4 DEF CloseInv, SubStateFits, WasAnswered
<1>8. FinIsRepeated'
  <2> SUFFICES ASSUME NEW t \in Sides, closeSubState[t] \in {"FIN1", "CLOSING", "LASTACK"}
               PROVE  closeTimer'[t] = "fin" \/ finCallback'[t] # "idle"
    BY <1>1 DEF FinIsRepeated
  <2>1. CASE t = s
    BY <1>4, <2>1 DEF AnsweredStates
  <2>2. CASE t # s
    BY <1>4, <2>2 DEF CloseInv, FinIsRepeated
  <2> QED
    BY <2>1, <2>2
<1>9. ClosedMeansReported'
  BY <1>1 DEF CloseInv, ClosedMeansReported
<1>10. \A t \in Sides : /\ state[t] # "ESTABLISH" => state'[t] # "ESTABLISH"
                        /\ Settled(t)' => Settled(t)
                        /\ end'[t] = end[t]
                        /\ next[t] <= next'[t]
  BY <1>1, <1>2 DEF CloseTypes, Settled
<1> QED
  BY <1>1, <1>5, <1>6, <1>7, <1>8, <1>9, <1>10, LocalStep

(* PackageConnectionTimewaitTimerCallback                                  *)
LEMMA TimewaitTimerInv == ASSUME CloseInv, NEW s \in Sides, TimewaitTimer(s) PROVE CloseInv'
<1>1. /\ closeTimer[s] = "timewait"
      /\ closeTimer' = [closeTimer EXCEPT ![s] = "none"]
      /\ closeSubState' = [closeSubState EXCEPT ![s] = "CLOSED"]
      /\ MaybeCloseFinish(s)
      /\ UNCHANGED <<selfCloseStreamPos, remoteCloseStreamPos, finCallback, end, next, flight, lost,
                     sending, closing, resetting, have, newAck, handling, turns, hand, net, reset, early, late>>
  BY DEF TimewaitTimer, callVars, recvVars, driveVars
<1>2. CloseTypes /\ CloseTypes'
  BY <1>1, FinishTypes DEF CloseInv, CloseTypes
<1>3. closeSubState[s] \in EndStates /\ state[s] # "ESTABLISH"
  BY <1>1 DEF CloseInv, SubStateFits, EndStates
<1>4. /\ closeSubState'[s] = "CLOSED"
      /\ \A t \in Sides \ {s} : closeSubState'[t] = closeSubState[t] /\ closeTimer'[t] = closeTimer[t]
  BY <1>1, <1>2 DEF CloseTypes
<1> QED
  BY <1>1, <1>2, <1>3, <1>4, FinishInv

-----------------------------------------------------------------------------
(* The send loop                                                            *)

(* A FINACK is built only when all the peer will send is here.             *)
LEMMA FinAckFits ==
  ASSUME CloseInv, NEW s \in Sides, FinAckDue(s)
  PROVE  AnswerFits(Peer(s))
<1> DEFINE p == Peer(s)
<1>1. p \in Sides /\ Peer(p) = s
  BY Peers
<1>2. next[p] \in Nat /\ end[p] \in Nat \ {0} /\ next[p] <= end[p]
  BY <1>1 DEF CloseInv, CloseTypes, QueueFits
<1>3. have[s] \subseteq 1 .. (next[p] - 1)
  BY DEF CloseInv, OnlySentArrives
<1>4. have[s] \subseteq 1 .. (end[p] - 1)
  BY <1>2, <1>3
<1>5. /\ AckOf(have[s]) \in Nat \ {0}
      /\ AckOf(have[s]) = end[p] => have[s] = 1 .. (end[p] - 1)
  BY <1>2, <1>4, AckPosition
<1>6. remoteCloseStreamPos[s] = AckOf(have[s]) /\ remoteCloseStreamPos[s] > 0
  BY <1>5 DEF FinAckDue
<1>7. FinFits(p, remoteCloseStreamPos[s])
  BY <1>6 DEF CloseInv, RemoteFits
<1> HIDE DEF p
<1> QED
  BY <1>1, <1>5, <1>6, <1>7 DEF FinFits, AnswerFits, p

(* PackageConnectionFillPackage *)
LEMMA FillInv ==
  ASSUME CloseInv, NEW s \in Sides, NEW room \in {"mtu", "part", "none"}, Fill(s, room)
  PROVE  CloseInv'
<1> DEFINE resend == room = "mtu" /\ lost[s] # {}
           fresh == room = "mtu" /\ lost[s] = {} /\ next[s] < end[s]
           pos == IF resend THEN Min(lost[s]) ELSE next[s]
           len == IF resend \/ fresh THEN 1 ELSE 0
           fin == FinDue(s, pos + len)
           finack == FinAckDue(s)
           m == [to |-> Peer(s), pos |-> pos, len |-> len, fin |-> fin,
                 finack |-> finack, have |-> have[s], room |-> room]
<1>1. CloseTypes /\ Peer(s) \in Sides /\ Peer(Peer(s)) = s
  BY Peers DEF CloseInv
<1>2. /\ next[s] \in Nat /\ end[s] \in Nat /\ 1 <= next[s] /\ next[s] <= end[s]
      /\ flight[s] \subseteq 1 .. (next[s] - 1) /\ lost[s] \subseteq 1 .. (next[s] - 1)
      /\ flight[s] \cap lost[s] = {}
      /\ lost[s] \in SUBSET Nat
  BY <1>1 DEF CloseInv, CloseTypes, QueueFits
<1>3. resend => pos \in lost[s]
  BY <1>2, MinExists
<1>4. /\ UNCHANGED <<state, closeSubState, selfCloseStreamPos, remoteCloseStreamPos, closeTimer, finCallback,
                     end, popped, sending, closing, resetting, have, handling, net, reset, late>>
      /\ turns[s] > 0
      /\ lost' = [lost EXCEPT ![s] = @ \ {p \in {pos} : resend}]
      /\ flight' = [flight EXCEPT ![s] = @ \cup {p \in {pos} : len = 1}]
      /\ next' = [next EXCEPT ![s] = IF fresh THEN @ + 1 ELSE @]
      /\ newAck' \in [Sides -> BOOLEAN]
      /\ early' = [early EXCEPT ![s] = @ \/ (fin /\ pos + len < end[s])]
      /\ \/ hand' = [hand EXCEPT ![s] = m] /\ UNCHANGED turns
         \/ turns' = [turns EXCEPT ![s] = @ - 1] /\ UNCHANGED hand /\ hand[s] = None
  <2>1. newAck' \in [Sides -> BOOLEAN]
    <3>1. newAck' = [newAck EXCEPT ![s] = @ /\ (len = 1 \/ fin \/ finack)]
      BY DEF Fill
    <3> HIDE DEF len, fin, finack
    <3> QED
      BY <1>1, <3>1 DEF CloseTypes
  <2> QED
    BY <2>1 DEF Fill, closeVars, callVars
<1>5. /\ pos \in Nat \ {0} /\ len \in {0, 1} /\ pos + len <= end[s] /\ (len = 1 <=> resend \/ fresh)
      /\ pos + len \in Nat
  BY <1>2, <1>3
<1>6. /\ next'[s] = IF fresh THEN next[s] + 1 ELSE next[s]
      /\ \A t \in Sides \ {s} : next'[t] = next[t]
      /\ next' \in [Sides -> Nat]
  BY <1>1, <1>2, <1>4 DEF CloseTypes
<1>7. /\ lost'[s] = lost[s] \ {p \in {pos} : resend}
      /\ flight'[s] = flight[s] \cup {p \in {pos} : len = 1}
      /\ \A t \in Sides \ {s} : lost'[t] = lost[t] /\ flight'[t] = flight[t]
  BY <1>1, <1>4 DEF CloseTypes
<1>8. /\ lost'[s] \subseteq 1 .. (next'[s] - 1) /\ flight'[s] \subseteq 1 .. (next'[s] - 1)
      /\ lost'[s] \cap flight'[s] = {}
      /\ len = 1 => pos \in 1 .. (next'[s] - 1)
      /\ next'[s] <= end[s] /\ next[s] <= next'[s] /\ next'[s] \in Nat
  <2>1. CASE resend
    <3>1. /\ next'[s] = next[s] /\ lost'[s] = lost[s] \ {pos} /\ flight'[s] = flight[s] \cup {pos}
          /\ pos \in lost[s]
      BY <1>3, <1>5, <1>6, <1>7, <2>1
    <3> HIDE DEF pos, len
    <3> QED
      BY <1>2, <3>1
  <2>2. CASE fresh
    <3>1. /\ next'[s] = next[s] + 1 /\ lost'[s] = lost[s] /\ flight'[s] = flight[s] \cup {next[s]}
          /\ pos = next[s]
      BY <1>5, <1>6, <1>7, <2>2
    <3> HIDE DEF pos, len
    <3> QED
      BY <1>2, <2>2, <3>1
  <2>3. CASE ~resend /\ ~fresh
    <3>1. next'[s] = next[s] /\ lost'[s] = lost[s] /\ flight'[s] = flight[s] /\ len = 0
      BY <1>5, <1>6, <1>7, <2>3
    <3> HIDE DEF pos, len
    <3> QED
      BY <1>2, <3>1
  <2> QED
    BY <2>1, <2>2, <2>3
<1>9. fin => state[s] = "CLOSING"
  BY DEF FinDue
<1>10. fin \in BOOLEAN /\ finack \in BOOLEAN
  BY DEF FinDue, FinAckDue
<1>11. finack => AnswerFits(Peer(s))
  BY FinAckFits
<1>12. m \in Package
  <2>1. have[s] \in SUBSET Nat
    BY <1>1 DEF CloseTypes
  <2> HIDE DEF pos, len, fin, finack
  <2> QED
    BY <1>1, <1>5, <1>10, <2>1 DEF Package
<1>13. /\ m.to = Peer(s) /\ m.pos = pos /\ m.len = len /\ m.fin = fin /\ m.finack = finack
  OBVIOUS
<1> HIDE DEF pos, len, fin, finack, resend, fresh, m
<1>14. /\ early' \in [Sides -> BOOLEAN]
       /\ \A t \in Sides : early[t] => early'[t]
       /\ fin /\ pos + len < end[s] => early'[s]
  <2>1. /\ early' \in [Sides -> BOOLEAN]
        /\ early'[s] = (early[s] \/ (fin /\ pos + len < end[s]))
        /\ \A t \in Sides \ {s} : early'[t] = early[t]
    BY <1>1, <1>4 DEF CloseTypes
  <2> QED
    BY <2>1, Zenon
<1>15. /\ hand' \in [Sides -> Package \cup {None}]
       /\ turns' \in [Sides -> 0 .. 2]
       /\ \A t \in Sides : hand'[t] # None => turns'[t] > 0
       /\ \A t \in Sides : hand'[t] \in {hand[t], None} \/ (t = s /\ hand'[t] = m)
  <2>1. \A t \in Sides : hand[t] # None => turns[t] > 0
    BY DEF CloseInv, QueueFits
  <2>2. CASE hand' = [hand EXCEPT ![s] = m] /\ UNCHANGED turns
    BY <1>1, <1>4, <1>12, <2>1, <2>2 DEF CloseTypes
  <2>3. CASE turns' = [turns EXCEPT ![s] = @ - 1] /\ UNCHANGED hand /\ hand[s] = None
    BY <1>1, <1>4, <2>1, <2>3 DEF CloseTypes
  <2> QED
    BY <1>4, <2>2, <2>3
<1>16. CloseTypes'
  <2>1. lost' \in [Sides -> SUBSET Nat] /\ flight' \in [Sides -> SUBSET Nat]
    BY <1>1, <1>4, <1>5 DEF CloseTypes
  <2> QED
    BY <1>1, <1>4, <1>6, <1>14, <1>15, <2>1 DEF CloseTypes
<1>17. \A t \in Sides : QueueFits(t)'
  <2>1. QueueFits(s)'
    BY <1>2, <1>4, <1>8, <1>15 DEF CloseInv, QueueFits
  <2>2. \A t \in Sides \ {s} : QueueFits(t)'
    BY <1>4, <1>6, <1>7, <1>15 DEF CloseInv, QueueFits
  <2> QED
    BY <2>1, <2>2
<1>18. OnlySentArrives'
  <2>1. \A t \in Sides : next[t] \in Nat /\ next'[t] \in Nat /\ next[t] <= next'[t]
    BY <1>1, <1>6, <1>8 DEF CloseTypes
  <2>2. \A t \in Sides : have[t] \subseteq 1 .. (next[Peer(t)] - 1) /\ Peer(t) \in Sides
    BY Peers DEF CloseInv, OnlySentArrives
  <2> QED
    BY <1>4, <2>1, <2>2 DEF OnlySentArrives
<1>19. \A t \in Sides : /\ state[t] # "ESTABLISH" => state'[t] # "ESTABLISH"
                        /\ Settled(t)' => Settled(t)
                        /\ end'[t] = end[t]
                        /\ have[t] \subseteq have'[t]
                        /\ next[t] <= next'[t]
  <2>1. \A t \in Sides : Settled(t)' => Settled(t)
    BY <1>4, <1>14 DEF Settled
  <2>2. \A t \in Sides : next[t] <= next'[t]
    BY <1>1, <1>6, <1>8 DEF CloseTypes
  <2> QED
    BY <1>4, <2>1, <2>2
<1>20. PICK k \in Package : k = m
  BY <1>12
<1>21. Carried(k)'
  <2>1. k.len = 1 => k.pos \in 1 .. (next'[Peer(k.to)] - 1)
    BY <1>1, <1>8, <1>13, <1>20
  <2>2. k.fin => FinFits(Peer(k.to), FinPos(k))'
    <3>1. PICK q \in Nat : q = pos + len
      BY <1>5
    <3>2. ASSUME fin, Settled(s)' PROVE q = end'[s]
      BY <1>2, <1>4, <1>5, <1>14, <3>1, <3>2 DEF Settled
    <3>3. fin => FinFits(s, q)'
      BY <1>4, <1>9, <3>2 DEF FinFits
    <3>4. Peer(k.to) = s /\ FinPos(k) = q /\ k.fin = fin
      BY <1>1, <1>13, <1>20, <3>1 DEF FinPos
    <3> QED
      BY <3>3, <3>4 DEF FinFits, FinPos
  <2>3. k.finack => AnswerFits(k.to)'
    <3>1. AnswerFits(Peer(s)) => AnswerFits(Peer(s))'
      BY <1>1, <1>16, <1>17, <1>18, <1>19, Forward
    <3>2. k.to = Peer(s) /\ k.finack = finack
      BY <1>13, <1>20
    <3> QED
      BY <1>11, <3>1, <3>2
  <2> QED
    BY <2>1, <2>2, <2>3 DEF Carried
<1>22. \A t \in Sides : SubStateFits(t)' /\ (WasAnswered(t)' => WasAnswered(t))
  BY <1>4 DEF CloseInv, SubStateFits, WasAnswered
<1>23. FinIsRepeated' /\ ClosedMeansReported'
  BY <1>4 DEF CloseInv, FinIsRepeated, ClosedMeansReported
<1>24. \A t \in Sides : \/ hand'[t] \in {hand[t], None}
                        \/ \E c \in Package : c = hand'[t] /\ c.to = Peer(t) /\ Carried(c)'
  <2>1. k.to = Peer(s) /\ \A t \in Sides : hand'[t] \in {hand[t], None} \/ (t = s /\ hand'[t] = k)
    BY <1>13, <1>15, <1>20
  <2> QED
    BY <1>21, <2>1
<1>25. \A w \in handling' : w \in handling /\ StepFits(w)'
  BY <1>4 DEF CloseInv, StepFits
<1> QED
  BY <1>4, <1>16, <1>17, <1>18, <1>19, <1>22, <1>23, <1>24, <1>25, StepInv

(* What is in the network after a package was handed to it.                *)
LEMMA TransmitAdds ==
  ASSUME NEW m, Transmit(m)
  PROVE  \A k \in net' : k \in net \/ k = m
BY DEF Transmit

(* PackageConnectionOnPreSendPackage and PackageConnectionSendPackage: the *)
(* first FIN starts the timer that repeats it.                             *)
LEMMA SendOutInv == ASSUME CloseInv, NEW s \in Sides, SendOut(s) PROVE CloseInv'
<1> DEFINE p == hand[s]
           sub == IF p.fin THEN AfterFinSent(closeSubState[s]) ELSE closeSubState[s]
           ends == state[s] = "CLOSE" \/ p.room = "none" \/ (next[s] = end[s] /\ lost[s] = {})
           m == [p EXCEPT !.room = "mtu"]
<1>1. CloseTypes /\ Peer(s) \in Sides /\ Peer(Peer(s)) = s
  BY Peers DEF CloseInv
<1>2. /\ p # None
      /\ hand' = [hand EXCEPT ![s] = None]
      /\ closeSubState' = [closeSubState EXCEPT ![s] = sub]
      /\ closeTimer' = [closeTimer EXCEPT ![s] = IF sub # closeSubState[s] THEN "fin" ELSE @]
      /\ UNCHANGED net \/ Transmit(m)
      /\ turns' = [turns EXCEPT ![s] = IF ends THEN @ - 1 ELSE @]
      /\ UNCHANGED <<state, selfCloseStreamPos, remoteCloseStreamPos, finCallback, end, next, flight, lost,
                     popped, sending, closing, resetting, have, newAck, handling, reset, early, late>>
  BY DEF SendOut, queueVars, callVars, recvVars
<1>3. p \in Package /\ p.to = Peer(s) /\ Carried(p) /\ turns[s] > 0
  BY <1>1, <1>2 DEF CloseInv, CloseTypes, PackagesFit, QueueFits
<1>4. m \in Package /\ Carried(m)
  <2>1. /\ m \in Package /\ m.to = p.to /\ m.pos = p.pos /\ m.len = p.len /\ m.fin = p.fin
        /\ m.finack = p.finack
    BY <1>3 DEF Package
  <2> HIDE DEF p, m
  <2> QED
    BY <1>3, <2>1 DEF Carried, FinPos
<1>5. /\ sub \in FinStates \cup {"FIN2", "TIMEWAIT", "CLOSED"}
      /\ sub = closeSubState[s] \/ (state[s] # "ESTABLISH" /\ closeSubState[s] = "NONE" /\ sub = "FIN1")
         \/ (state[s] # "ESTABLISH" /\ closeSubState[s] = "WAITCLOSE" /\ sub = "LASTACK")
  <2>1. p.fin => state[s] # "ESTABLISH"
    BY <1>1, <1>3 DEF Carried, FinFits
  <2>2. closeSubState[s] \in FinStates \cup {"FIN2", "TIMEWAIT", "CLOSED"}
    BY <1>1 DEF CloseTypes
  <2> QED
    BY <2>1, <2>2 DEF AfterFinSent, FinStates
<1>6. net' \subseteq Package /\ \A k \in net' : k \in net \/ (k \in Package /\ Carried(k))
  <2>1. net \subseteq Package
    BY <1>1 DEF CloseTypes
  <2> HIDE DEF m
  <2>2. \A k \in net' : k \in net \/ k = m
    BY <1>2, TransmitAdds
  <2> QED
    BY <1>4, <2>1, <2>2
<1> HIDE DEF p, sub, ends, m
<1>7. /\ closeSubState' \in [Sides -> FinStates \cup {"FIN2", "TIMEWAIT", "CLOSED"}]
      /\ closeTimer' \in [Sides -> {"none", "fin", "timewait"}]
      /\ closeSubState'[s] = sub
      /\ closeTimer'[s] = IF sub # closeSubState[s] THEN "fin" ELSE closeTimer[s]
      /\ \A t \in Sides \ {s} : closeSubState'[t] = closeSubState[t] /\ closeTimer'[t] = closeTimer[t]
  BY <1>1, <1>2, <1>5 DEF CloseTypes
<1>8. /\ turns' \in [Sides -> 0 .. 2]
      /\ \A t \in Sides \ {s} : turns'[t] = turns[t]
      /\ hand' \in [Sides -> Package \cup {None}]
      /\ hand'[s] = None /\ \A t \in Sides \ {s} : hand'[t] = hand[t]
  BY <1>1, <1>2, <1>3 DEF CloseTypes
<1>9. CloseTypes'
  BY <1>1, <1>2, <1>6, <1>7, <1>8 DEF CloseTypes
<1>10. (\A t \in Sides : QueueFits(t)') /\ OnlySentArrives'
  BY <1>2, <1>8 DEF CloseInv, QueueFits, OnlySentArrives
<1>11. \A t \in Sides : SubStateFits(t)' /\ (WasAnswered(t)' => WasAnswered(t))
  <2>1. SubStateFits(s)' /\ (WasAnswered(s)' => WasAnswered(s))
    BY <1>2, <1>5, <1>7 DEF CloseInv, SubStateFits, WasAnswered, AnsweredStates, EndStates
  <2>2. \A t \in Sides \ {s} : SubStateFits(t)' /\ (WasAnswered(t)' => WasAnswered(t))
    BY <1>2, <1>7 DEF CloseInv, SubStateFits, WasAnswered
  <2> QED
    BY <2>1, <2>2
<1>12. FinIsRepeated'
  <2> SUFFICES ASSUME NEW t \in Sides, closeSubState'[t] \in {"FIN1", "CLOSING", "LASTACK"}
               PROVE  closeTimer'[t] = "fin" \/ finCallback[t] # "idle"
    BY <1>2 DEF FinIsRepeated
  <2> QED
    BY <1>7 DEF CloseInv, FinIsRepeated
<1>13. ClosedMeansReported'
  BY <1>2 DEF CloseInv, ClosedMeansReported
<1>14. \A t \in Sides : /\ state[t] # "ESTABLISH" => state'[t] # "ESTABLISH"
                        /\ Settled(t)' => Settled(t)
                        /\ end'[t] = end[t]
                        /\ have[t] \subseteq have'[t]
                        /\ next[t] <= next'[t]
  BY <1>1, <1>2 DEF CloseTypes, Settled
<1>15. \A w \in handling' : w \in handling /\ StepFits(w)'
  <2> SUFFICES ASSUME NEW w \in handling PROVE StepFits(w)'
    BY <1>2
  <2>1. StepFits(w) /\ w.m.to \in Sides
    BY <1>1 DEF CloseInv, CloseTypes, Handled, Package
  <2>2. closeSubState[w.m.to] \in AnsweredStates => closeSubState'[w.m.to] = closeSubState[w.m.to]
    BY <1>5, <1>7, <2>1 DEF AnsweredStates
  <2> QED
    BY <2>1, <2>2 DEF StepFits, AnsweredStates, EndStates
<1> QED
  BY <1>2, <1>6, <1>8, <1>9, <1>10, <1>11, <1>12, <1>13, <1>14, <1>15, StepInv

-----------------------------------------------------------------------------
(* The dispatch threads                                                     *)

(* PackageConnectionUpdateCloseSubState: a FIN alone does not begin a      *)
(* close, only a FINACK ends the wait for one, and CLOSED and TIMEWAIT are *)
(* left by no package.                                                     *)
LEMMA PackageMoves ==
  ASSUME NEW sub \in FinStates \cup {"FIN2", "TIMEWAIT", "CLOSED"}
  PROVE  /\ \/ AfterFin(sub) = sub
            \/ sub = "NONE" /\ AfterFin(sub) = "WAITCLOSE"
            \/ sub = "FIN1" /\ AfterFin(sub) = "CLOSING"
            \/ sub = "FIN2" /\ AfterFin(sub) = "TIMEWAIT"
         /\ \/ AfterFinAck(sub) = sub
            \/ sub = "FIN1" /\ AfterFinAck(sub) = "FIN2"
            \/ sub = "CLOSING" /\ AfterFinAck(sub) = "TIMEWAIT"
            \/ sub = "LASTACK" /\ AfterFinAck(sub) = "CLOSED"
BY DEF AfterFin, AfterFinAck, FinStates

(* The number of reasons a package gives to run the send loop.             *)
LEMMA ReasonsFinite ==
  ASSUME NEW S, S \subseteq {"ack", "data"}
  PROVE  Cardinality(S) \in Nat
<1>1. IsFiniteSet({"ack"})
  BY FS_Singleton
<1>2. IsFiniteSet({"ack"} \cup {"data"})
  BY <1>1, FS_AddElement
<1>4. S \subseteq {"ack"} \cup {"data"}
  OBVIOUS
<1>5. IsFiniteSet(S)
  BY <1>2, <1>4, FS_Subset
<1> QED
  BY <1>5, FS_CardinalityType

(* What an ack leaves of the queue: the position the buffers are given     *)
(* back up to does not go down, nor beyond what was sent.                  *)
LEMMA PoppedFits ==
  ASSUME CloseInv, NEW s \in Sides, NEW units, NEW news \in BOOLEAN, NEW v,
         v = IF news THEN Max({popped[s], Min({next[s]} \cup ((flight[s] \cup lost[s]) \ units))})
                     ELSE popped[s]
  PROVE  v \in Nat /\ v <= end[s] /\ v >= popped[s]
<1> DEFINE S == {next[s]} \cup ((flight[s] \cup lost[s]) \ units)
<1>1. /\ next[s] \in Nat /\ end[s] \in Nat /\ popped[s] \in Nat /\ next[s] <= end[s]
      /\ popped[s] <= end[s]
      /\ flight[s] \in SUBSET Nat /\ lost[s] \in SUBSET Nat
  BY DEF CloseInv, CloseTypes, QueueFits
<1>2. S \in SUBSET Nat /\ S # {} /\ next[s] \in S
  BY <1>1
<1>3. Min(S) \in S /\ \A y \in S : Min(S) <= y
  BY <1>2, MinExists
<1> DEFINE c == Min(S)
<1>4. c \in Nat /\ c <= next[s]
  BY <1>2, <1>3
<1>5. v = IF news THEN Max({popped[s], c}) ELSE popped[s]
  OBVIOUS
<1> HIDE DEF c
<1>6. Max({popped[s], c}) = IF popped[s] <= c THEN c ELSE popped[s]
  BY <1>1, <1>4, MinMaxTwo
<1>7. CASE news
  BY <1>1, <1>4, <1>5, <1>6, <1>7
<1>8. CASE ~news
  BY <1>1, <1>5, <1>8
<1> QED
  BY <1>7, <1>8

(* PackageConnectionPushPackage after the sub-state: what a package says   *)
(* of the stream and of its end is taken over.                             *)
LEMMA PushInv ==
  ASSUME CloseInv, NEW m \in Package, Carried(m), Push(m), handling' \subseteq handling
  PROVE  CloseInv'
<1> DEFINE s == m.to
           blocks == flight[s] \cup lost[s]
           confirmed == m.have \cap blocks
           complete == Min({next[s]} \cup (blocks \ m.have))
           news == m.fin \/ m.len = 1
           given == IF confirmed = {} THEN popped[s] ELSE Max({popped[s], complete})
           reasons == {c \in {"ack", "data"} : IF c = "ack" THEN confirmed # {} ELSE news}
           n == Cardinality(reasons)
           arrived == {p \in {m.pos} : m.len = 1}
<1>1. CloseTypes /\ s \in Sides /\ Peer(s) \in Sides /\ Peer(Peer(s)) = s
  <2>1. s \in Sides
    BY DEF Package
  <2> QED
    BY <2>1, Peers DEF CloseInv
<1>2. /\ flight' = [flight EXCEPT ![s] = @ \ m.have]
      /\ lost' = [lost EXCEPT ![s] = @ \ m.have]
      /\ popped' = [popped EXCEPT ![s] = given]
      /\ remoteCloseStreamPos' = [remoteCloseStreamPos EXCEPT ![s] = IF m.fin THEN FinPos(m) ELSE @]
      /\ have' = [have EXCEPT ![s] = @ \cup arrived]
      /\ newAck' = [newAck EXCEPT ![s] = @ \/ news]
      /\ TrySend(s, n)
      /\ UNCHANGED <<state, closeSubState, selfCloseStreamPos, closeTimer, finCallback, end, next, sending,
                     closing, resetting, reset, late, hand, early, net>>
  BY DEF Push, callVars
<1>3. n \in Nat
  <2>1. reasons \subseteq {"ack", "data"}
    OBVIOUS
  <2> HIDE DEF reasons
  <2> QED
    BY <2>1, ReasonsFinite
<1>5. given \in Nat /\ given <= end[s] /\ given >= popped[s]
  <2>1. given = IF confirmed # {} THEN Max({popped[s], Min({next[s]} \cup ((flight[s] \cup lost[s]) \ m.have))})
                                  ELSE popped[s]
    OBVIOUS
  <2>2. (confirmed # {}) \in BOOLEAN
    OBVIOUS
  <2> HIDE DEF s, given, confirmed
  <2> QED
    BY <1>1, <2>1, <2>2, PoppedFits
<1>6. arrived \subseteq 1 .. (next[Peer(s)] - 1)
  BY <1>1 DEF Carried
<1> HIDE DEF s, blocks, confirmed, complete, news, given, reasons, n, arrived
<1>8. turns' \in [Sides -> 0 .. 2] /\ \A t \in Sides : turns[t] > 0 => turns'[t] > 0
  BY <1>1, <1>2, <1>3, TurnsKept
<1>10. /\ popped' \in [Sides -> Nat]
       /\ popped'[s] = given
       /\ \A t \in Sides \ {s} : popped'[t] = popped[t]
  BY <1>1, <1>2, <1>5 DEF CloseTypes
<1>11. /\ flight' \in [Sides -> SUBSET Nat] /\ lost' \in [Sides -> SUBSET Nat]
       /\ \A t \in Sides : flight'[t] \subseteq flight[t] /\ lost'[t] \subseteq lost[t]
  BY <1>1, <1>2 DEF CloseTypes
<1>12. /\ have' \in [Sides -> SUBSET Nat]
       /\ have'[s] = have[s] \cup arrived
       /\ \A t \in Sides \ {s} : have'[t] = have[t]
  <2>1. arrived \in SUBSET Nat
    BY <1>1, <1>6 DEF CloseTypes
  <2> QED
    BY <1>1, <1>2, <2>1 DEF CloseTypes
<1>13. /\ remoteCloseStreamPos' \in [Sides -> Nat]
       /\ remoteCloseStreamPos'[s] = IF m.fin THEN FinPos(m) ELSE remoteCloseStreamPos[s]
       /\ \A t \in Sides \ {s} : remoteCloseStreamPos'[t] = remoteCloseStreamPos[t]
  <2>1. FinPos(m) \in Nat
    BY <1>1 DEF Package, FinPos
  <2> QED
    BY <1>1, <1>2, <2>1 DEF CloseTypes
<1>14. newAck' \in [Sides -> BOOLEAN]
  BY <1>1, <1>2 DEF CloseTypes
<1>15. CloseTypes'
  BY <1>1, <1>2, <1>8, <1>10, <1>11, <1>12, <1>13, <1>14 DEF CloseTypes
<1>16. \A t \in Sides : QueueFits(t)'
  <2> SUFFICES ASSUME NEW t \in Sides PROVE QueueFits(t)'
    OBVIOUS
  <2>1. QueueFits(t) /\ end[t] \in Nat
    BY <1>1 DEF CloseInv, CloseTypes
  <2>2. popped'[t] <= end[t]
    BY <1>5, <1>10, <2>1 DEF QueueFits
  <2>3. flight'[t] \cup lost'[t] \subseteq flight[t] \cup lost[t] /\ flight'[t] \cap lost'[t] \subseteq flight[t] \cap lost[t]
    BY <1>11
  <2> QED
    BY <1>2, <1>8, <2>1, <2>2, <2>3 DEF QueueFits
<1>17. OnlySentArrives'
  BY <1>2, <1>6, <1>12 DEF CloseInv, OnlySentArrives
<1>18. \A t \in Sides : SubStateFits(t)' /\ (WasAnswered(t)' => WasAnswered(t))
  BY <1>2 DEF CloseInv, SubStateFits, WasAnswered
<1>19. FinIsRepeated'
  BY <1>2 DEF CloseInv, FinIsRepeated
<1>20. ClosedMeansReported'
  <2> SUFFICES ASSUME NEW t \in Sides, state[t] = "CLOSE", popped'[t] < end[t]
               PROVE  late[t]
    BY <1>2 DEF ClosedMeansReported
  <2>1. end[t] \in Nat /\ popped[t] \in Nat
    BY <1>1 DEF CloseTypes
  <2>2. popped[t] < end[t]
    BY <1>5, <1>10, <2>1
  <2> QED
    BY <2>2 DEF CloseInv, ClosedMeansReported
<1>21. \A t \in Sides : /\ state[t] # "ESTABLISH" => state'[t] # "ESTABLISH"
                        /\ Settled(t)' => Settled(t)
                        /\ end'[t] = end[t]
                        /\ have[t] \subseteq have'[t]
                        /\ next[t] <= next'[t]
  BY <1>1, <1>2, <1>12 DEF CloseTypes, Settled
<1>22. \A t \in Sides : \/ remoteCloseStreamPos'[t] = remoteCloseStreamPos[t]
                        \/ FinFits(Peer(t), remoteCloseStreamPos'[t])
  <2>1. m.fin => FinFits(Peer(s), FinPos(m))
    BY <1>1 DEF Carried, s
  <2> QED
    BY <1>13, <2>1
<1>23. \A w \in handling' : w \in handling /\ StepFits(w)'
  BY <1>2 DEF CloseInv, StepFits
<1> QED
  BY <1>2, <1>15, <1>16, <1>17, <1>18, <1>19, <1>20, <1>21, <1>22, <1>23, StepInv

(* A package that moves no sub-state.                                      *)
LEMMA ReceiveInv ==
  ASSUME CloseInv, NEW m \in net, NEW t \in Threads, Receive(m, t)
  PROVE  CloseInv'
<1>1. m \in Package /\ Carried(m)
  BY DEF CloseInv, CloseTypes, PackagesFit
<1>2. Push(m) /\ handling' \subseteq handling
  BY DEF Receive
<1> QED
  BY <1>1, <1>2, PushInv

(* The rest of one that has moved it.                                      *)
LEMMA PushHandledInv == ASSUME CloseInv, NEW w \in handling, PushHandled(w) PROVE CloseInv'
<1>1. w.m \in Package /\ Carried(w.m)
  BY DEF CloseInv, CloseTypes, PackagesFit, Handled
<1>2. Push(w.m) /\ handling' \subseteq handling
  BY DEF PushHandled
<1> QED
  BY <1>1, <1>2, PushInv

(* A step of PackageConnectionUpdateCloseSubState that moves the sub-state *)
(* of s, or leaves it, for a FIN or a FINACK, and no timer.                *)
LEMMA MoveInv ==
  ASSUME CloseInv, CloseTypes', NEW s \in Sides, NEW m \in Package, m.to = s, Carried(m),
         \/ closeSubState'[s] = AfterFin(closeSubState[s])
         \/ closeSubState'[s] = AfterFinAck(closeSubState[s]) /\ m.finack,
         \A r \in Sides \ {s} : closeSubState'[r] = closeSubState[r],
         \A r \in Sides : /\ state'[r] = state[r] \/ (state[r] = "ESTABLISH" /\ state'[r] = "CLOSING")
                          /\ selfCloseStreamPos'[r] \in {selfCloseStreamPos[r], end[r]}
                          /\ turns[r] > 0 => turns'[r] > 0,
         \A w \in handling' : w \in handling \/ (w.m = m /\ StepFits(w)'),
         UNCHANGED <<remoteCloseStreamPos, closeTimer, finCallback, end, next, flight, lost, popped,
                     sending, closing, resetting, reset, late, have, newAck, hand, early, net>>
  PROVE  CloseInv'
<1>1. CloseTypes /\ closeSubState[s] \in FinStates \cup {"FIN2", "TIMEWAIT", "CLOSED"}
  BY DEF CloseInv, CloseTypes
<1>2. /\ \/ closeSubState'[s] = closeSubState[s]
         \/ closeSubState[s] = "NONE" /\ closeSubState'[s] = "WAITCLOSE"
         \/ closeSubState[s] = "FIN1" /\ closeSubState'[s] = "CLOSING"
         \/ closeSubState[s] = "FIN2" /\ closeSubState'[s] = "TIMEWAIT"
         \/ closeSubState[s] = "FIN1" /\ closeSubState'[s] = "FIN2" /\ m.finack
         \/ closeSubState[s] = "CLOSING" /\ closeSubState'[s] = "TIMEWAIT" /\ m.finack
         \/ closeSubState[s] = "LASTACK" /\ closeSubState'[s] = "CLOSED" /\ m.finack
  BY <1>1, PackageMoves
<1>3. (\A r \in Sides : QueueFits(r)') /\ OnlySentArrives'
  <2>1. \A r \in Sides : selfCloseStreamPos'[r] <= end[r]
    <3>1. \A r \in Sides : selfCloseStreamPos[r] <= end[r] /\ end[r] \in Nat
      BY <1>1 DEF CloseInv, CloseTypes, QueueFits
    <3>2. \A r \in Sides : end[r] <= end[r]
      BY <3>1
    <3>3. \A r \in Sides : selfCloseStreamPos'[r] \in {selfCloseStreamPos[r], end[r]}
      OBVIOUS
    <3> QED
      BY <3>1, <3>2, <3>3
  <2> QED
    BY <2>1 DEF CloseInv, QueueFits, OnlySentArrives
<1>4. \A r \in Sides : SubStateFits(r)'
  <2>1. SubStateFits(s)'
    BY <1>2 DEF CloseInv, SubStateFits, EndStates
  <2>2. \A r \in Sides \ {s} : SubStateFits(r)'
    BY DEF CloseInv, SubStateFits
  <2> QED
    BY <2>1, <2>2
<1>5. \A r \in Sides : WasAnswered(r)' => WasAnswered(r) \/ AnswerFits(r)
  <2>1. m.finack => AnswerFits(s)
    BY DEF Carried
  <2>2. WasAnswered(s)' => WasAnswered(s) \/ AnswerFits(s)
    BY <1>2, <2>1 DEF WasAnswered, AnsweredStates
  <2>3. \A r \in Sides \ {s} : WasAnswered(r)' => WasAnswered(r)
    BY DEF WasAnswered
  <2> QED
    BY <2>2, <2>3
<1>6. FinIsRepeated'
  <2> SUFFICES ASSUME NEW r \in Sides, closeSubState'[r] \in {"FIN1", "CLOSING", "LASTACK"}
               PROVE  closeTimer[r] = "fin" \/ finCallback[r] # "idle"
    BY DEF FinIsRepeated
  <2>1. closeSubState[r] \in {"FIN1", "CLOSING", "LASTACK"}
    BY <1>2
  <2> QED
    BY <2>1 DEF CloseInv, FinIsRepeated
<1>7. ClosedMeansReported'
  BY DEF CloseInv, ClosedMeansReported
<1>8. \A r \in Sides : /\ state[r] # "ESTABLISH" => state'[r] # "ESTABLISH"
                       /\ Settled(r)' => Settled(r)
                       /\ end'[r] = end[r] /\ have[r] \subseteq have'[r] /\ next[r] <= next'[r]
  BY <1>1 DEF CloseTypes, Settled
<1>9. \A w \in handling' : StepFits(w)'
  <2> SUFFICES ASSUME NEW w \in handling' \cap handling PROVE StepFits(w)'
    OBVIOUS
  <2>1. StepFits(w) /\ w.m.to \in Sides
    BY <1>1 DEF CloseInv, CloseTypes, Handled, Package
  <2>2. /\ closeSubState[w.m.to] \in AnsweredStates => closeSubState'[w.m.to] \in AnsweredStates
        /\ closeSubState[w.m.to] \in EndStates => closeSubState'[w.m.to] = closeSubState[w.m.to]
    BY <1>2, <2>1 DEF AnsweredStates, EndStates
  <2> QED
    BY <2>1, <2>2 DEF StepFits, EndStates
<1>10. \A w \in handling' : (\E v \in handling : w.m = v.m) \/ (w.m \in Package /\ Carried(w.m))
  OBVIOUS
<1> QED
  BY <1>3, <1>4, <1>5, <1>6, <1>7, <1>8, <1>9, <1>10, StepInv

(* The step that follows a compare and swap fits the sub-state it left.    *)
LEMMA AfterSwapFits ==
  ASSUME NEW w \in Handled, NEW sub \in FinStates \cup {"FIN2", "TIMEWAIT", "CLOSED"},
         AfterFinAck(sub) # sub, closeSubState'[w.m.to] = AfterFinAck(sub),
         w.step = AfterSwap(AfterFinAck(sub))
  PROVE  StepFits(w)'
<1>1. AfterFinAck(sub) \in {"FIN2", "TIMEWAIT", "CLOSED"}
  BY PackageMoves
<1> QED
  BY <1>1 DEF StepFits, AfterSwap, AnsweredStates, EndStates

(* The compare and swaps for a FIN.                                        *)
LEMMA UpdateOnFinInv ==
  ASSUME CloseInv, NEW m \in net, NEW t \in Threads, UpdateOnFin(m, t)
  PROVE  CloseInv'
<1> DEFINE s == m.to
           closes == closeSubState[s] = "NONE" /\ ~HalfOpen /\ state[s] = "ESTABLISH"
           n == IF closes /\ end[s] = AckStreamPos(s) THEN 1 ELSE 0
           step == IF closeSubState[s] = "FIN2" THEN "begin" ELSE IF m.finack THEN "finack" ELSE "push"
           w == [thread |-> t, m |-> m, step |-> step]
<1>1. CloseTypes /\ m \in Package /\ s \in Sides /\ Carried(m)
  BY DEF CloseInv, CloseTypes, PackagesFit, Package
<1>2. /\ closeSubState' = [closeSubState EXCEPT ![s] = AfterFin(@)]
      /\ state' = [state EXCEPT ![s] = IF closes THEN "CLOSING" ELSE @]
      /\ selfCloseStreamPos' = [selfCloseStreamPos EXCEPT ![s] = IF closes THEN end[s] ELSE @]
      /\ TrySend(s, n)
      /\ handling' = handling \cup {w}
      /\ UNCHANGED <<remoteCloseStreamPos, closeTimer, finCallback, end, next, flight, lost, popped,
                     sending, closing, resetting, reset, late, have, newAck, hand, early, net>>
  BY DEF UpdateOnFin, Handles, queueVars, callVars
<1>3. n \in Nat /\ w \in Handled
  BY <1>1 DEF Handled
<1>16. PICK v \in Handled : v = w
  BY <1>3
<1>17. v.m = m /\ v.step = step /\ m.to = s
  BY <1>16
<1>4. closeSubState[s] \in FinStates \cup {"FIN2", "TIMEWAIT", "CLOSED"}
  BY <1>1 DEF CloseTypes
<1>5. AfterFin(closeSubState[s]) \in FinStates \cup {"FIN2", "TIMEWAIT", "CLOSED"}
  BY <1>4, PackageMoves DEF FinStates
<1>6. step = "begin" => AfterFin(closeSubState[s]) = "TIMEWAIT"
  BY DEF AfterFin
<1>7. step \notin {"stop", "finish"} /\ (step = "finack" => m.finack)
  OBVIOUS
<1>8. closes => state[s] = "ESTABLISH"
  OBVIOUS
<1> HIDE DEF s, closes, n, step, w
<1>9. turns' \in [Sides -> 0 .. 2] /\ \A r \in Sides : turns[r] > 0 => turns'[r] > 0
  BY <1>1, <1>2, <1>3, TurnsKept
<1>10. /\ closeSubState' \in [Sides -> FinStates \cup {"FIN2", "TIMEWAIT", "CLOSED"}]
       /\ closeSubState'[s] = AfterFin(closeSubState[s])
       /\ \A r \in Sides \ {s} : closeSubState'[r] = closeSubState[r]
  BY <1>1, <1>2, <1>5 DEF CloseTypes
<1>11. /\ state' \in [Sides -> {"ESTABLISH", "CLOSING", "CLOSE"}]
       /\ selfCloseStreamPos' \in [Sides -> Nat]
       /\ \A r \in Sides : /\ state'[r] = state[r] \/ (state[r] = "ESTABLISH" /\ state'[r] = "CLOSING")
                           /\ selfCloseStreamPos'[r] \in {selfCloseStreamPos[r], end[r]}
  BY <1>1, <1>2, <1>8 DEF CloseTypes
<1>12. CloseTypes'
  BY <1>1, <1>2, <1>3, <1>9, <1>10, <1>11 DEF CloseTypes
<1>13. StepFits(v)'
  BY <1>6, <1>7, <1>10, <1>17 DEF StepFits, EndStates
<1>14. \A u \in handling' : u \in handling \/ (u.m = m /\ StepFits(u)')
  BY <1>2, <1>13, <1>16, <1>17
<1> QED
  BY <1>1, <1>2, <1>9, <1>10, <1>11, <1>12, <1>14, <1>17, MoveInv

(* Those for a FINACK, of a package whose FIN moved nothing ...            *)
LEMMA UpdateOnFinAckInv ==
  ASSUME CloseInv, NEW m \in net, NEW t \in Threads, UpdateOnFinAck(m, t)
  PROVE  CloseInv'
<1> DEFINE s == m.to
           w == [thread |-> t, m |-> m, step |-> AfterSwap(closeSubState'[s])]
<1>1. CloseTypes /\ m \in Package /\ s \in Sides /\ Carried(m)
  BY DEF CloseInv, CloseTypes, PackagesFit, Package
<1>2. /\ m.finack /\ AfterFinAck(closeSubState[s]) # closeSubState[s]
      /\ closeSubState' = [closeSubState EXCEPT ![s] = AfterFinAck(@)]
      /\ handling' = handling \cup {w}
      /\ UNCHANGED <<state, selfCloseStreamPos, remoteCloseStreamPos, closeTimer, finCallback, end, next,
                     flight, lost, popped, sending, closing, resetting, reset, late, have, newAck, turns,
                     hand, early, net>>
  BY DEF UpdateOnFinAck, FinAckMoves, Handles, queueVars, callVars, driveVars
<1>3. closeSubState[s] \in FinStates \cup {"FIN2", "TIMEWAIT", "CLOSED"}
  BY <1>1 DEF CloseTypes
<1>4. AfterFinAck(closeSubState[s]) \in {"FIN2", "TIMEWAIT", "CLOSED"}
  BY <1>2, <1>3, PackageMoves
<1>5. /\ closeSubState' \in [Sides -> FinStates \cup {"FIN2", "TIMEWAIT", "CLOSED"}]
      /\ closeSubState'[s] = AfterFinAck(closeSubState[s])
      /\ \A r \in Sides \ {s} : closeSubState'[r] = closeSubState[r]
  BY <1>1, <1>2, <1>4 DEF CloseTypes
<1>13. AfterSwap(closeSubState'[s]) \in {"stop", "begin", "finish"}
  BY <1>4, <1>5 DEF AfterSwap
<1>6. PICK v \in Handled : v = w
  BY <1>1, <1>13 DEF Handled
<1>12. v.m = m /\ v.step = AfterSwap(AfterFinAck(closeSubState[s])) /\ v.m.to = s
  BY <1>5, <1>6
<1> HIDE DEF s, w
<1>7. CloseTypes'
  BY <1>1, <1>2, <1>5, <1>6 DEF CloseTypes
<1>8. StepFits(v)'
  <2>1. PICK sub \in FinStates \cup {"FIN2", "TIMEWAIT", "CLOSED"} : sub = closeSubState[s]
    BY <1>3
  <2> QED
    BY <1>2, <1>5, <1>12, <2>1, AfterSwapFits
<1>9. \A u \in handling' : u \in handling \/ (u.m = m /\ StepFits(u)')
  BY <1>2, <1>6, <1>8, <1>12
<1>10. \A r \in Sides : /\ state'[r] = state[r]
                        /\ selfCloseStreamPos'[r] \in {selfCloseStreamPos[r], end[r]}
                        /\ turns[r] > 0 => turns'[r] > 0
  BY <1>2
<1>11. m.to = s
  BY DEF s
<1> QED
  BY <1>1, <1>2, <1>5, <1>7, <1>9, <1>10, <1>11, MoveInv

(* ... and of one whose FIN did.                                           *)
LEMMA UpdateOnFinAckTooInv ==
  ASSUME CloseInv, NEW w \in handling, UpdateOnFinAckToo(w)
  PROVE  CloseInv'
<1> DEFINE m == w.m
           s == m.to
           step == IF FinAckMoves(s, m) THEN AfterSwap(closeSubState'[s]) ELSE "push"
           v == [w EXCEPT !.step = step]
<1>1. CloseTypes /\ w \in Handled /\ m \in Package /\ s \in Sides /\ Carried(m)
  BY DEF CloseInv, CloseTypes, PackagesFit, Package, Handled
<1>2. /\ closeSubState' = [closeSubState EXCEPT ![s] = AfterFinAck(@)]
      /\ handling' = (handling \ {w}) \cup {v}
      /\ UNCHANGED <<state, selfCloseStreamPos, remoteCloseStreamPos, closeTimer, finCallback, end, next,
                     flight, lost, popped, sending, closing, resetting, reset, late, have, newAck, turns,
                     hand, early, net>>
  BY DEF UpdateOnFinAckToo, GoOn, queueVars, callVars, driveVars
<1>14. w.m.finack = TRUE
  BY <1>1 DEF CloseInv, StepFits, UpdateOnFinAckToo, Package
<1>3. closeSubState[s] \in FinStates \cup {"FIN2", "TIMEWAIT", "CLOSED"}
  BY <1>1 DEF CloseTypes
<1>4. /\ AfterFinAck(closeSubState[s]) \in FinStates \cup {"FIN2", "TIMEWAIT", "CLOSED"}
      /\ AfterFinAck(closeSubState[s]) # closeSubState[s] =>
             AfterFinAck(closeSubState[s]) \in {"FIN2", "TIMEWAIT", "CLOSED"}
  BY <1>3, PackageMoves
<1>5. /\ closeSubState' \in [Sides -> FinStates \cup {"FIN2", "TIMEWAIT", "CLOSED"}]
      /\ closeSubState'[s] = AfterFinAck(closeSubState[s])
      /\ \A r \in Sides \ {s} : closeSubState'[r] = closeSubState[r]
  BY <1>1, <1>2, <1>4 DEF CloseTypes
<1>6. /\ AfterFinAck(closeSubState[s]) # closeSubState[s] => step = AfterSwap(AfterFinAck(closeSubState[s]))
      /\ AfterFinAck(closeSubState[s]) = closeSubState[s] => step = "push"
  BY <1>5, <1>14 DEF FinAckMoves
<1>7. step \in {"finack", "stop", "begin", "finish", "push"}
  BY <1>4, <1>6 DEF AfterSwap
<1> HIDE DEF step
<1>8. PICK x \in Handled : x = v
  BY <1>1, <1>7 DEF Handled
<1>15. x.m = m /\ x.step = step /\ x.m.to = s
  BY <1>1, <1>8 DEF Handled
<1> HIDE DEF m, s, v
<1>9. CloseTypes'
  BY <1>1, <1>2, <1>5, <1>8 DEF CloseTypes
<1>10. StepFits(x)'
  <2>1. CASE AfterFinAck(closeSubState[s]) # closeSubState[s]
    <3>1. PICK sub \in FinStates \cup {"FIN2", "TIMEWAIT", "CLOSED"} : sub = closeSubState[s]
      BY <1>3
    <3> QED
      BY <1>5, <1>6, <1>15, <2>1, <3>1, AfterSwapFits
  <2>2. CASE AfterFinAck(closeSubState[s]) = closeSubState[s]
    BY <1>6, <1>15, <2>2 DEF StepFits
  <2> QED
    BY <2>1, <2>2
<1>11. \A u \in handling' : u \in handling \/ (u.m = m /\ StepFits(u)')
  BY <1>2, <1>8, <1>10, <1>15
<1>12. \A r \in Sides : /\ state'[r] = state[r]
                        /\ selfCloseStreamPos'[r] \in {selfCloseStreamPos[r], end[r]}
                        /\ turns[r] > 0 => turns'[r] > 0
  BY <1>2
<1>13. m.to = s /\ m.finack
  BY <1>14 DEF s, m
<1> QED
  BY <1>1, <1>2, <1>5, <1>9, <1>11, <1>12, <1>13, MoveInv

(* What the threads do to closeTimer after that.                           *)
LEMMA HandleTimerInv ==
  ASSUME CloseInv, NEW w \in handling, StopCloseTimer(w) \/ BeginTimewaitTimer(w)
  PROVE  CloseInv'
<1> DEFINE s == w.m.to
           v == [w EXCEPT !.step = "push"]
<1>1. CloseTypes /\ w \in Handled /\ s \in Sides /\ StepFits(w)
  BY DEF CloseInv, CloseTypes, Package, Handled
<1>2. /\ handling' = (handling \ {w}) \cup {v}
      /\ UNCHANGED <<state, closeSubState, selfCloseStreamPos, remoteCloseStreamPos, finCallback, end, next,
                     flight, lost, popped, sending, closing, resetting, reset, late, have, newAck, turns,
                     hand, early, net>>
  BY DEF StopCloseTimer, BeginTimewaitTimer, GoOn, queueVars, callVars, driveVars
<1>3. /\ closeTimer' = [closeTimer EXCEPT ![s] = closeTimer'[s]]
      /\ \/ closeTimer'[s] = "none" /\ closeSubState[s] \in AnsweredStates
         \/ closeTimer'[s] = "timewait" /\ closeSubState[s] \in EndStates
  BY <1>1 DEF StopCloseTimer, BeginTimewaitTimer, StepFits, CloseTypes
<1>4. v \in Handled /\ v.m = w.m /\ v.step = "push"
  BY <1>1 DEF Handled
<1> HIDE DEF s, v
<1>5. \A r \in Sides \ {s} : closeTimer'[r] = closeTimer[r]
  BY <1>1, <1>3 DEF CloseTypes
<1>6. CloseTypes'
  <2>1. closeTimer' \in [Sides -> {"none", "fin", "timewait"}]
    BY <1>1, <1>3 DEF CloseTypes
  <2> QED
    BY <1>1, <1>2, <1>4, <2>1 DEF CloseTypes
<1>7. (\A t \in Sides : QueueFits(t)') /\ OnlySentArrives'
  BY <1>2 DEF CloseInv, QueueFits, OnlySentArrives
<1>8. \A t \in Sides : SubStateFits(t)' /\ (WasAnswered(t)' => WasAnswered(t))
  <2>1. \A t \in Sides : closeTimer'[t] = "timewait" => closeTimer[t] = "timewait" \/ closeSubState[t] \in EndStates
    BY <1>3, <1>5
  <2> QED
    BY <1>2, <2>1 DEF CloseInv, SubStateFits, WasAnswered
<1>9. FinIsRepeated'
  <2> SUFFICES ASSUME NEW t \in Sides, closeSubState[t] \in {"FIN1", "CLOSING", "LASTACK"}
               PROVE  closeTimer'[t] = "fin" \/ finCallback[t] # "idle"
    BY <1>2 DEF FinIsRepeated
  <2>1. t # s
    BY <1>3 DEF AnsweredStates, EndStates
  <2> QED
    BY <1>5, <2>1 DEF CloseInv, FinIsRepeated
<1>10. ClosedMeansReported'
  BY <1>2 DEF CloseInv, ClosedMeansReported
<1>11. \A t \in Sides : /\ state[t] # "ESTABLISH" => state'[t] # "ESTABLISH"
                        /\ Settled(t)' => Settled(t)
                        /\ end'[t] = end[t] /\ have[t] \subseteq have'[t] /\ next[t] <= next'[t]
  BY <1>1, <1>2 DEF CloseTypes, Settled
<1>12. \A u \in handling' : StepFits(u)' /\ \E x \in handling : u.m = x.m
  BY <1>2, <1>4 DEF CloseInv, StepFits
<1> QED
  BY <1>2, <1>6, <1>7, <1>8, <1>9, <1>10, <1>11, <1>12, StepInv

(* The end of a connection in LASTACK.                                     *)
LEMMA LastAckInv == ASSUME CloseInv, NEW w \in handling, LastAck(w) PROVE CloseInv'
<1> DEFINE s == w.m.to
           v == [w EXCEPT !.step = "push"]
<1>1. CloseTypes /\ w \in Handled /\ s \in Sides /\ StepFits(w)
  BY DEF CloseInv, CloseTypes, Package, Handled
<1>2. /\ w.step = "finish"
      /\ closeTimer' = [closeTimer EXCEPT ![s] = "none"]
      /\ MaybeCloseFinish(s)
      /\ handling' = (handling \ {w}) \cup {v}
      /\ UNCHANGED <<closeSubState, selfCloseStreamPos, remoteCloseStreamPos, finCallback, end, next, flight,
                     lost, sending, closing, resetting, have, newAck, turns, hand, net, reset, early, late>>
  BY DEF LastAck, GoOn, callVars, driveVars
<1>3. closeSubState[s] = "CLOSED" /\ state[s] # "ESTABLISH"
  BY <1>1, <1>2 DEF CloseInv, StepFits, SubStateFits
<1>4. v \in Handled /\ v.m = w.m /\ v.step = "push"
  BY <1>1 DEF Handled
<1> HIDE DEF s, v
<1>5. CloseTypes'
  BY <1>1, <1>2, <1>4, FinishTypes DEF CloseTypes
<1>6. \A t \in Sides \ {s} : closeTimer'[t] = closeTimer[t]
  BY <1>1, <1>2 DEF CloseTypes
<1>7. \A u \in handling' : u \in handling \/ (u.step = "push" /\ \E x \in handling : u.m = x.m)
  BY <1>2, <1>4
<1> QED
  BY <1>1, <1>2, <1>3, <1>5, <1>6, <1>7, FinishInv DEF EndStates

-----------------------------------------------------------------------------
(* The theorems                                                             *)

(* PackageConnectionCreate                                                 *)
LEMMA CloseInit == Init => CloseInv
<1> SUFFICES ASSUME Init PROVE CloseInv
  OBVIOUS
<1>1. CloseTypes
  BY DEF Init, CloseTypes, FinStates
<1>2. \A s \in Sides : QueueFits(s)
  BY DEF Init, QueueFits
<1>3. OnlySentArrives /\ PackagesFit /\ \A w \in handling : StepFits(w)
  BY DEF Init, OnlySentArrives, PackagesFit
<1>4. RemoteFits /\ FinIsRepeated /\ ClosedMeansReported
  BY DEF Init, RemoteFits, FinIsRepeated, ClosedMeansReported
<1>5. \A s \in Sides : SubStateFits(s) /\ Answered(s)
  BY DEF Init, SubStateFits, Answered, WasAnswered, AnsweredStates
<1> QED
  BY <1>1, <1>2, <1>3, <1>4, <1>5 DEF CloseInv

(* Every step of either end and of the network.                            *)
LEMMA CloseNext == CloseInv /\ [Next]_vars => CloseInv'
<1> SUFFICES ASSUME CloseInv, [Next]_vars PROVE CloseInv'
  OBVIOUS
<1>1. CASE \E s \in Sides : \/ Send(s) \/ AddBuffer(s) \/ Close(s) \/ AddCloseOperation(s)
                            \/ Reset(s) \/ ResetFinish(s)
  BY <1>1, SendInv, AddBufferInv, CloseCallInv, AddCloseOperationInv, ResetInv, ResetFinishInv
<1>2. CASE \E s \in Sides : \E room \in Room(s) : Fill(s, room)
  <2>1. PICK s \in Sides : \E room \in Room(s) : Fill(s, room)
    BY <1>2
  <2>2. \A room \in Room(s) : room \in {"mtu", "part", "none"}
    BY DEF Room
  <2> QED
    BY <2>1, <2>2, FillInv
<1>3. CASE \E s \in Sides : SendOut(s) \/ FinTimer(s) \/ FinTimerCallback(s) \/ FinTimerRestart(s)
                            \/ TimewaitTimer(s)
  BY <1>3, SendOutInv, FinTimerInv, TimewaitTimerInv
<1>4. CASE \E s \in Sides : \E old \in SUBSET flight[s] : RtoTimer(s, old)
  BY <1>4, RtoTimerInv
<1>5. CASE \E m \in net : Lose(m) \/ \E t \in Threads : Receive(m, t) \/ UpdateOnFin(m, t) \/ UpdateOnFinAck(m, t)
  BY <1>5, LoseInv, ReceiveInv, UpdateOnFinInv, UpdateOnFinAckInv
<1>7. CASE \E w \in handling : Handle(w)
  BY <1>7, UpdateOnFinAckTooInv, HandleTimerInv, LastAckInv, PushHandledInv DEF Handle
<1>6. CASE UNCHANGED vars
  <2>1. UNCHANGED <<state, closeSubState, selfCloseStreamPos, remoteCloseStreamPos, closeTimer, finCallback,
                    end, next, flight, lost, popped, sending, closing, resetting, have, newAck, handling, turns, hand, net,
                    reset, early, late>>
    BY <1>6 DEF vars, closeVars, queueVars, callVars, recvVars, driveVars
  <2>2. CloseTypes'
    BY <2>1 DEF CloseInv, CloseTypes
  <2> QED
    BY <2>1, <2>2, QuietStep
<1> QED
  BY <1>1, <1>2, <1>3, <1>4, <1>5, <1>6, <1>7 DEF Next

(* The steps that touch no timer of a close and no thread at work.          *)
LEMMA QuietForTimers ==
  ASSUME \/ UNCHANGED vars
         \/ \E s \in Sides : Send(s) \/ AddBuffer(s) \/ Close(s) \/ AddCloseOperation(s) \/ Reset(s)
         \/ \E s \in Sides : \E room \in Room(s) : Fill(s, room)
         \/ \E s \in Sides : \E old \in SUBSET flight[s] : RtoTimer(s, old)
         \/ \E m \in net : Lose(m) \/ \E t \in Threads : Receive(m, t)
  PROVE  UNCHANGED <<closeTimer, finCallback, handling>>
<1>1. CASE UNCHANGED vars
  BY <1>1 DEF vars, closeVars, recvVars
<1>2. CASE \E s \in Sides : Send(s) \/ AddBuffer(s) \/ Close(s) \/ AddCloseOperation(s) \/ Reset(s)
  BY <1>2 DEF closeVars, recvVars, Send, AddBuffer, Close, AddCloseOperation, Reset
<1>3. CASE \E s \in Sides : \E room \in Room(s) : Fill(s, room)
  BY <1>3 DEF closeVars, Fill
<1>4. CASE \E s \in Sides : \E old \in SUBSET flight[s] : RtoTimer(s, old)
  BY <1>4 DEF closeVars, recvVars, RtoTimer
<1>5. CASE \E m \in net : Lose(m) \/ \E t \in Threads : Receive(m, t)
  BY <1>5 DEF closeVars, recvVars, Lose, Receive, Push
<1> QED
  BY <1>1, <1>2, <1>3, <1>4, <1>5

(* A thread that goes on with a package keeps it or is done with it.       *)
LEMMA HandlesOn ==
  ASSUME NEW w \in Handled, Handle(w)
  PROVE  handling' = handling \ {w} \/ \E v : v.m = w.m /\ handling' = (handling \ {w}) \cup {v}
<1>1. \A step : [w EXCEPT !.step = step].m = w.m
  BY DEF Handled
<1> QED
  BY <1>1 DEF Handle, UpdateOnFinAckToo, StopCloseTimer, BeginTimewaitTimer, LastAck, PushHandled, GoOn

(* The close handshake keeps its invariant: whatever is lost, repeated or  *)
(* reordered, a FIN under way names the end of the sender's stream and a   *)
(* FINACK under way stands for all of it, outside the two races of Close.  *)
THEOREM CloseInvariance == Spec => []CloseInv
BY CloseInit, CloseNext, PTL DEF Spec

(* Types, queues and packages are as TypeOK says, for any number of units  *)
(* and any network.                                                        *)
THEOREM CloseTypeCorrect == Spec => []TypeOK
<1>1. CloseInv => TypeOK
  <2> SUFFICES ASSUME CloseInv PROVE TypeOK
    OBVIOUS
  <2>1. CloseTypes /\ OnlySentArrives
    BY DEF CloseInv
  <2>2. ASSUME NEW s \in Sides
        PROVE  /\ flight[s] \cup lost[s] \subseteq 1 .. (next[s] - 1)
               /\ flight[s] \cap lost[s] = {}
               /\ next[s] <= end[s] /\ popped[s] <= end[s]
               /\ have[s] \subseteq 1 .. (next[Peer(s)] - 1)
               /\ selfCloseStreamPos[s] <= end[s]
               /\ turns[s] \in 0 .. 2
               /\ hand[s] # None => hand[s] \in Package /\ turns[s] > 0
    BY <2>1 DEF CloseInv, CloseTypes, QueueFits, OnlySentArrives
  <2> QED
    BY <2>1, <2>2 DEF CloseTypes, TypeOK
<1> QED
  BY <1>1, CloseInvariance, PTL

(* A FIN that waits for its FINACK has a timer, or a callback about to     *)
(* start one: FinTimerCallback, OnPreSendPackage and PushPackage never     *)
(* leave it without, in any order of their steps.                          *)
THEOREM UnansweredFinIsRepeated == Spec => []FinIsRepeated
BY CloseInvariance, PTL DEF CloseInv

(* TIMEWAIT keeps its timer once no older call of closeTimer is under way: *)
(* neither UpdateCloseSubState nor the timers take it away before it ends. *)
THEOREM TimewaitIsKept == Spec => TimewaitKept
<1>1. ASSUME CloseInv, CloseInv', [Next]_vars, NEW s \in Sides, TimewaitAlone(s)
      PROVE  TimewaitAlone(s)' \/ state'[s] = "CLOSE"
  <2> USE <1>1
  <2>1. CloseTypes /\ closeSubState[s] \in EndStates /\ state[s] # "ESTABLISH"
    BY DEF TimewaitAlone, CloseInv, SubStateFits, StepFits, EndStates
  <2>2. CASE UNCHANGED <<closeTimer, finCallback, handling>>
    BY <2>2 DEF TimewaitAlone
  <2>3. CASE \E r \in Sides : ResetFinish(r) \/ TimewaitTimer(r)
    <3>1. PICK r \in Sides : ResetFinish(r) \/ TimewaitTimer(r)
      BY <2>3
    <3>2. CASE r = s
      BY <2>1, <3>1, <3>2 DEF ResetFinish, TimewaitTimer, MaybeCloseFinish, CloseTypes
    <3>3. CASE r # s
      <4>1. closeTimer'[s] = closeTimer[s] /\ UNCHANGED <<finCallback, handling>>
        BY <2>1, <3>1, <3>3 DEF ResetFinish, TimewaitTimer, CloseTypes, recvVars
      <4> QED
        BY <4>1 DEF TimewaitAlone
    <3> QED
      BY <3>2, <3>3
  <2>4. CASE \E r \in Sides : SendOut(r)
    <3>1. PICK r \in Sides : SendOut(r)
      BY <2>4
    <3>2. UNCHANGED <<finCallback, handling>>
      BY <3>1 DEF SendOut, recvVars
    <3>3. closeTimer'[s] = closeTimer[s]
      <4>1. AfterFinSent(closeSubState[s]) = closeSubState[s]
        BY <2>1 DEF AfterFinSent, EndStates
      <4> QED
        BY <2>1, <3>1, <4>1 DEF SendOut, CloseTypes
    <3> QED
      BY <3>2, <3>3 DEF TimewaitAlone
  <2>5. CASE \E r \in Sides : FinTimer(r) \/ FinTimerCallback(r) \/ FinTimerRestart(r)
    <3>1. PICK r \in Sides : FinTimer(r) \/ FinTimerCallback(r) \/ FinTimerRestart(r)
      BY <2>5
    <3>2. r # s
      BY <3>1 DEF FinTimer, FinTimerCallback, FinTimerRestart, TimewaitAlone
    <3>3. closeTimer'[s] = closeTimer[s] /\ finCallback'[s] = finCallback[s] /\ UNCHANGED handling
      BY <2>1, <3>1, <3>2 DEF FinTimer, FinTimerCallback, FinTimerRestart, CloseTypes, recvVars
    <3> QED
      BY <3>3 DEF TimewaitAlone
  <2>6. CASE \E m \in net : \E t \in Threads : UpdateOnFin(m, t) \/ UpdateOnFinAck(m, t)
    <3>1. PICK m \in net, t \in Threads : UpdateOnFin(m, t) \/ UpdateOnFinAck(m, t)
      BY <2>6
    <3>2. UNCHANGED <<closeTimer, finCallback>>
      BY <3>1 DEF UpdateOnFin, UpdateOnFinAck
    <3>3. m.to # s
      <4>1. AfterFin(closeSubState[s]) = closeSubState[s] /\ AfterFinAck(closeSubState[s]) = closeSubState[s]
        BY <2>1 DEF AfterFin, AfterFinAck, EndStates
      <4> QED
        BY <3>1, <4>1 DEF UpdateOnFin, UpdateOnFinAck, FinMoves, FinAckMoves
    <3>4. \E w : handling' = handling \cup {w} /\ w.m = m
      <4>1. \A step : [thread |-> t, m |-> m, step |-> step].m = m
        OBVIOUS
      <4>2. \E step : handling' = handling \cup {[thread |-> t, m |-> m, step |-> step]}
        BY <3>1 DEF UpdateOnFin, UpdateOnFinAck, Handles
      <4> QED
        BY <4>1, <4>2
    <3> QED
      BY <3>2, <3>3, <3>4 DEF TimewaitAlone
  <2>7. CASE \E w \in handling : Handle(w)
    <3>1. PICK w \in handling : Handle(w)
      BY <2>7
    <3>2. w \in Handled /\ w.m.to \in Sides /\ UNCHANGED finCallback
      BY <2>1, <3>1 DEF CloseTypes, Handled, Package, Handle, UpdateOnFinAckToo, StopCloseTimer,
                        BeginTimewaitTimer, LastAck, PushHandled, Push
    <3>3. CASE w.m.to # s
      <4>1. closeTimer'[s] = closeTimer[s]
        BY <2>1, <3>1, <3>2, <3>3 DEF CloseTypes, Handle, UpdateOnFinAckToo, StopCloseTimer,
                          BeginTimewaitTimer, LastAck, PushHandled, Push
      <4>2. handling' = handling \ {w} \/ \E v : v.m = w.m /\ handling' = (handling \ {w}) \cup {v}
        BY <3>1, <3>2, HandlesOn
      <4> QED
        BY <3>2, <3>3, <4>1, <4>2 DEF TimewaitAlone
    <3>4. CASE w.m.to = s /\ BeginTimewaitTimer(w)
      <4>1. closeTimer'[s] = "timewait"
        BY <2>1, <3>4 DEF BeginTimewaitTimer, CloseTypes
      <4>2. \E v : v.step = "push" /\ handling' = (handling \ {w}) \cup {v}
        BY <3>2, <3>4 DEF BeginTimewaitTimer, GoOn, Handled
      <4> QED
        BY <3>2, <4>1, <4>2 DEF TimewaitAlone
    <3>5. CASE w.m.to = s /\ LastAck(w)
      BY <2>1, <3>5 DEF LastAck, MaybeCloseFinish, CloseTypes
    <3>6. CASE w.m.to = s /\ (UpdateOnFinAckToo(w) \/ PushHandled(w))
      <4>1. UNCHANGED closeTimer /\ w.step \in {"finack", "push"}
        BY <3>6 DEF UpdateOnFinAckToo, PushHandled, Push
      <4>2. handling' = handling \ {w} \/ \E v : v.step = "push" /\ handling' = (handling \ {w}) \cup {v}
        <5>1. ~FinAckMoves(s, w.m)
          BY <2>1 DEF FinAckMoves, AfterFinAck, EndStates
        <5> QED
          BY <3>2, <3>6, <5>1 DEF UpdateOnFinAckToo, PushHandled, GoOn, Handled
      <4> QED
        BY <3>2, <4>1, <4>2 DEF TimewaitAlone
    <3>7. ~(w.m.to = s /\ StopCloseTimer(w))
      BY DEF StopCloseTimer, TimewaitAlone
    <3> QED
      BY <3>1, <3>3, <3>4, <3>5, <3>6, <3>7 DEF Handle
  <2> QED
    BY <2>2, <2>3, <2>4, <2>5, <2>6, <2>7, QuietForTimers DEF Next
<1>2. CloseInv /\ CloseInv' /\ [Next]_vars =>
          [\A s \in Sides : TimewaitAlone(s) => TimewaitAlone(s)' \/ state'[s] = "CLOSE"]_vars
  BY <1>1
<1> QED
  BY <1>2, CloseInvariance, PTL DEF Spec, TimewaitKept

(* MaybeCloseFinish reports every buffer, whichever of Reset, the last     *)
(* FINACK and the end of TIMEWAIT calls it, but for a send that raced.     *)
THEOREM CloseReportsBuffers == Spec => []ClosedMeansReported
BY CloseInvariance, PTL DEF CloseInv

(* The receiver's ack position never passes that of a FIN it took: FINs    *)
(* and data may come in any order and any number of times.                 *)
THEOREM AckNeverPassesFin == Spec => []AckStopsAtFin
<1>1. CloseInv => AckStopsAtFin
  <2> SUFFICES ASSUME CloseInv, NEW s \in Sides, remoteCloseStreamPos[s] > 0,
                      ~early[Peer(s)], ~late[Peer(s)]
               PROVE  AckOf(have[s]) <= remoteCloseStreamPos[s]
    BY DEF AckStopsAtFin
  <2>1. Peer(s) \in Sides
    BY Peers
  <2>2. FinFits(Peer(s), remoteCloseStreamPos[s])
    BY DEF CloseInv, RemoteFits
  <2>3. remoteCloseStreamPos[s] = end[Peer(s)]
    BY <2>2 DEF FinFits, Settled
  <2>4. next[Peer(s)] \in Nat /\ end[Peer(s)] \in Nat \ {0} /\ next[Peer(s)] <= end[Peer(s)]
    BY <2>1 DEF CloseInv, CloseTypes, QueueFits
  <2>5. have[s] \subseteq 1 .. (next[Peer(s)] - 1)
    BY DEF CloseInv, OnlySentArrives
  <2>6. have[s] \subseteq 1 .. (end[Peer(s)] - 1)
    BY <2>4, <2>5
  <2>7. AckOf(have[s]) <= end[Peer(s)]
    BY <2>4, <2>6, AckPosition
  <2> QED
    BY <2>3, <2>7
<1> QED
  BY <1>1, CloseInvariance, PTL

(* A connection that closed without Reset has delivered all it took: the   *)
(* success MaybeCloseFinish reports for buffers that no ack confirmed is   *)
(* true, but for the two races of Close.                                   *)
THEOREM CloseDelivers == Spec => []ClosedMeansReceived
<1>1. CloseInv => ClosedMeansReceived
  <2> SUFFICES ASSUME CloseInv, NEW s \in Sides, state[s] = "CLOSE", ~reset[s], ~early[s], ~late[s]
               PROVE  have[Peer(s)] = 1 .. (end[s] - 1)
    BY DEF ClosedMeansReceived
  <2>1. SubStateFits(s) /\ Answered(s)
    BY DEF CloseInv
  <2>2. AnswerFits(s)
    BY <2>1 DEF SubStateFits, Answered, WasAnswered, AnsweredStates
  <2> QED
    BY <2>2 DEF AnswerFits, Settled
<1> QED
  BY <1>1, CloseInvariance, PTL

=============================================================================
