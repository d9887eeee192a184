------------------------- MODULE DispatchDriveProofs -------------------------
(****************************************************************************)
(* The path from the socket threads through the dispatch threads to the     *)
(* send loop loses no datagram, no wakeup and no request, for every number  *)
(* of threads and datagrams.                                                *)
(****************************************************************************)
EXTENDS DispatchDrive, SequenceTheorems, TLAPS

-----------------------------------------------------------------------------
(* The trySendCnt protocol of PackageConnectionTrySendPackage by itself, for *)
(* every set of threads and every bound on the pending requests.           *)

(* A thread inside the loop accounts for at least one request, and for no  *)
(* more than are counted.                                                  *)
DriverCounted ==
    \A t \in Threads : pc[t] # "idle" => 1 <= v[t] /\ v[t] <= trySendCnt

(* A count above zero belongs to a thread inside the loop.                 *)
CountHasDriver == trySendCnt > 0 => \E t \in Threads : pc[t] # "idle"

IndInv ==
    /\ TypeOK
    /\ OneDriver
    /\ DriverCounted
    /\ CountHasDriver
    /\ NoRequestForgotten

(* The state PackageConnectionCreate leaves satisfies the invariant.       *)
LEMMA InitInv == Init => IndInv
<1> SUFFICES ASSUME Init PROVE IndInv
  OBVIOUS
<1>1. \A t \in Threads : pc[t] = "idle" /\ v[t] = 0
  BY DEF Init
<1>2. TypeOK
  <2>1. trySendCnt \in 0 .. MaxPending /\ v \in [Threads -> 0 .. MaxPending]
    BY TrySendAssumption, SMT DEF TrySendAssumption, Init
  <2>2. pc \in [Threads -> {"idle", "drive", "driving"}] /\ asked \in BOOLEAN
    BY Zenon DEF Init
  <2> QED
    BY <2>1, <2>2, Zenon DEF TypeOK
<1>3. OneDriver /\ DriverCounted
  BY <1>1 DEF OneDriver, DriverCounted
<1>4. CountHasDriver /\ NoRequestForgotten
  BY DEF Init, CountHasDriver, NoRequestForgotten
<1> QED
  BY <1>2, <1>3, <1>4 DEF IndInv

(* BfxAtomicInc32: the first request makes its thread the driver, a later  *)
(* one leaves the driver alone and is counted above what it accounts for.  *)
LEMMA AskInv ==
  ASSUME NEW t \in Threads, IndInv, Ask(t)
  PROVE  IndInv'
<1> USE TrySendAssumption DEF TrySendAssumption
<1>1. TypeOK'
  BY DEF IndInv, TypeOK, Ask
<1>2. CASE trySendCnt = 0
  <2>1. \A u \in Threads : pc[u] = "idle"
    BY <1>2 DEF IndInv, TypeOK, DriverCounted
  <2>2. /\ trySendCnt' = 1
        /\ v' = [v EXCEPT ![t] = 1]
        /\ pc' = [pc EXCEPT ![t] = "drive"]
    BY <1>2 DEF Ask
  <2>3. OneDriver' /\ DriverCounted' /\ CountHasDriver' /\ NoRequestForgotten'
    BY <2>1, <2>2 DEF IndInv, TypeOK, OneDriver, DriverCounted, CountHasDriver,
                      NoRequestForgotten
  <2> QED
    BY <1>1, <2>3 DEF IndInv
<1>3. CASE trySendCnt > 0
  <2>1. PICK u \in Threads : pc[u] # "idle"
    BY <1>3 DEF IndInv, CountHasDriver
  <2>2. /\ pc' = pc
        /\ u # t
        /\ v' = [v EXCEPT ![t] = trySendCnt + 1]
        /\ trySendCnt' = trySendCnt + 1
    BY <1>3, <2>1 DEF Ask, IndInv, TypeOK
  <2>3. OneDriver' /\ CountHasDriver'
    BY <2>1, <2>2 DEF IndInv, OneDriver, CountHasDriver
  <2>4. DriverCounted'
    BY <2>2 DEF IndInv, TypeOK, DriverCounted, Ask
  <2>5. v'[u] < trySendCnt'
    BY <2>1, <2>2 DEF IndInv, TypeOK, DriverCounted
  <2>6. NoRequestForgotten'
    BY <2>1, <2>2, <2>5 DEF IndInv, TypeOK, NoRequestForgotten
  <2> QED
    BY <1>1, <2>3, <2>4, <2>6 DEF IndInv
<1> QED
  BY <1>2, <1>3 DEF IndInv, TypeOK

(* A drive that begins sees every request made before it.                  *)
LEMMA DriveBeginsInv ==
  ASSUME NEW t \in Threads, IndInv, DriveBegins(t)
  PROVE  IndInv'
<1>1. TypeOK'
  BY DEF IndInv, TypeOK, DriveBegins
<1>2. OneDriver' /\ DriverCounted' /\ CountHasDriver'
  BY DEF IndInv, TypeOK, OneDriver, DriverCounted, CountHasDriver, DriveBegins
<1>3. NoRequestForgotten'
  BY DEF NoRequestForgotten, DriveBegins
<1> QED
  BY <1>1, <1>2, <1>3 DEF IndInv

(* The driver leaves the loop only with the count at zero, and then every  *)
(* request was there when its last drive began.                            *)
LEMMA DriveEndsInv ==
  ASSUME NEW t \in Threads, IndInv, DriveEnds(t)
  PROVE  IndInv'
<1> USE TrySendAssumption DEF TrySendAssumption
<1> DEFINE left == trySendCnt - v[t]
<1>1. \A u \in Threads \ {t} : pc[u] = "idle"
  BY DEF IndInv, OneDriver, DriveEnds
<1>2. left \in 0 .. MaxPending
  BY DEF IndInv, TypeOK, DriverCounted, DriveEnds
<1>3. /\ trySendCnt' = left
      /\ v' = [v EXCEPT ![t] = left]
      /\ pc' = [pc EXCEPT ![t] = IF left = 0 THEN "idle" ELSE "drive"]
      /\ asked' = asked
  BY DEF DriveEnds
<1>4. TypeOK'
  BY <1>2, <1>3 DEF IndInv, TypeOK
<1>5. OneDriver'
  BY <1>1, <1>3 DEF IndInv, TypeOK, OneDriver
<1>6. DriverCounted' /\ CountHasDriver'
  BY <1>1, <1>2, <1>3 DEF IndInv, TypeOK, DriverCounted, CountHasDriver
<1>7. NoRequestForgotten'
  <2>1. CASE left = 0
    <3>1. ~asked
      BY <1>1, <2>1 DEF IndInv, TypeOK, NoRequestForgotten, DriveEnds
    <3> QED
      BY <1>3, <3>1 DEF NoRequestForgotten
  <2>2. CASE left # 0
    BY <1>3, <2>2 DEF IndInv, TypeOK, NoRequestForgotten
  <2> QED
    BY <2>1, <2>2
<1> QED
  BY <1>4, <1>5, <1>6, <1>7 DEF IndInv

(* The invariant is inductive: it holds in every state of the protocol.    *)
THEOREM Invariance == Spec => []IndInv
<1>1. IndInv /\ [Next]_vars => IndInv'
  <2> SUFFICES ASSUME IndInv, [Next]_vars PROVE IndInv'
    OBVIOUS
  <2>1. CASE Next
    BY <2>1, AskInv, DriveBeginsInv, DriveEndsInv DEF Next
  <2>2. CASE UNCHANGED vars
    BY <2>2 DEF vars, IndInv, TypeOK, OneDriver, DriverCounted, CountHasDriver,
                NoRequestForgotten
  <2> QED
    BY <2>1, <2>2
<1> QED
  BY InitInv, <1>1, PTL DEF Spec

(* The counter never runs below zero and the locals stay in range.         *)
THEOREM TypeCorrect == Spec => []TypeOK
<1>1. IndInv => TypeOK
  BY DEF IndInv
<1> QED
  BY Invariance, <1>1, PTL

(* For any number of threads only one is inside PackageConnectionSendDrive. *)
THEOREM DriverUnique == Spec => []OneDriver
<1>1. IndInv => OneDriver
  BY DEF IndInv
<1> QED
  BY Invariance, <1>1, PTL

(* For any number of threads no call of PackageConnectionTrySendPackage is *)
(* lost between the end of a drive and the subtraction of its requests.    *)
THEOREM RequestsKept == Spec => []NoRequestForgotten
<1>1. IndInv => NoRequestForgotten
  BY DEF IndInv
<1> QED
  BY Invariance, <1>1, PTL

-----------------------------------------------------------------------------
(* The dispatch threads and what they hand to the loop                     *)

Hand ==
    {D!Nothing} \cup [step : {"push"}, to : D!Workers, pkg : Packages]
                \cup [step : {"wake"}, to : D!Workers]

DispatchTypeOK ==
    /\ index \in Nat
    /\ chosen \in [SocketThreads -> Hand]
    /\ packages \in [D!Workers -> Seq(Packages)]
    /\ duringWakeup \in [D!Workers -> {0, 1}]
    /\ sem \in [D!Workers -> Nat]
    /\ step \in [D!Workers -> {"wait", "clear", "peek", "deal"}]
    /\ tmp \in [D!Workers -> Seq(Packages)]
    /\ arrived \subseteq Packages
    /\ dealt \in Seq(Packages)

(* A dispatch thread deals only while packages are left of those it took.  *)
DealHasPackage == \A w \in D!Workers : step[w] = "deal" => tmp[w] # <<>>

(* What a socket thread that finds duringWakeup set relies on: the post it *)
(* leaves out has been made and the dispatch thread has not yet cleared.   *)
WakeupUnderWay ==
    \A w \in D!Workers : duringWakeup[w] = 1 => sem[w] > 0 \/ step[w] = "clear"

DispatchInv ==
    /\ DispatchTypeOK
    /\ DealHasPackage
    /\ WakeupUnderWay
    /\ D!NoLostWakeup

-----------------------------------------------------------------------------
(* The state _initPackageDispatchManager leaves satisfies the invariant.   *)
LEMMA DispatchInit == D!Init => DispatchInv
<1> SUFFICES ASSUME D!Init PROVE DispatchInv
  OBVIOUS
<1> USE DEF D!Init
<1>1. DispatchTypeOK
  <2>1. D!Nothing \in Hand
    BY DEF Hand
  <2>2. <<>> \in Seq(Packages)
    OBVIOUS
  <2> QED
    BY <2>1, <2>2 DEF DispatchTypeOK
<1>2. DealHasPackage /\ WakeupUnderWay /\ D!NoLostWakeup
  BY DEF DealHasPackage, WakeupUnderWay, D!NoLostWakeup
<1> QED
  BY <1>1, <1>2 DEF DispatchInv

(* _uvUdpSocketOnData: the datagram is in hand, whatever index was read.   *)
LEMMA OnDataInv ==
  ASSUME DispatchInv, NEW s \in SocketThreads, NEW p \in Packages, NEW seen \in 0 .. index,
         D!OnData(s, p, seen)
  PROVE  DispatchInv'
<1> DEFINE hand == [step |-> "push", to |-> seen % DispatchThreads, pkg |-> p]
<1>1. seen % DispatchThreads \in D!Workers
  BY DriveAssumption DEF DriveAssumption, DispatchInv, DispatchTypeOK, D!Workers
<1>2. hand \in Hand
  BY <1>1 DEF Hand
<1>3. /\ chosen' = [chosen EXCEPT ![s] = hand]
      /\ chosen[s] = D!Nothing
      /\ index' = seen + 1
      /\ arrived' = arrived \cup {p}
      /\ UNCHANGED <<packages, duringWakeup, sem, step, tmp, dealt>>
  BY DEF D!OnData
<1> HIDE DEF hand
<1>4. DispatchTypeOK'
  BY <1>2, <1>3 DEF DispatchInv, DispatchTypeOK
<1>5. DealHasPackage' /\ WakeupUnderWay'
  BY <1>3 DEF DispatchInv, DealHasPackage, WakeupUnderWay
<1>6. D!NoLostWakeup'
  <2> SUFFICES ASSUME NEW w \in D!Workers, packages[w] # <<>>, step[w] = "wait", ~(sem[w] > 0)
               PROVE  \E u \in SocketThreads : chosen'[u].step = "wake" /\ chosen'[u].to = w
    BY <1>3 DEF D!NoLostWakeup, D!Workers
  <2>1. PICK u \in SocketThreads : chosen[u].step = "wake" /\ chosen[u].to = w
    BY DEF DispatchInv, D!NoLostWakeup
  <2>2. u # s
    BY <2>1, <1>3 DEF D!Nothing
  <2> QED
    BY <2>1, <2>2, <1>3 DEF DispatchInv, DispatchTypeOK
<1> QED
  BY <1>4, <1>5, <1>6 DEF DispatchInv

(* What the record in hand is, by its step.                                *)
LEMMA HandShape ==
  ASSUME DispatchInv, NEW s \in SocketThreads
  PROVE  /\ chosen[s].step = "push" => chosen[s].to \in D!Workers /\ chosen[s].pkg \in Packages
         /\ chosen[s].step = "wake" => chosen[s].to \in D!Workers
BY DEF DispatchInv, DispatchTypeOK, Hand, D!Nothing

(* _dispatchPackage under the lock: whoever appends goes on to wake.       *)
LEMMA PushPackageInv ==
  ASSUME DispatchInv, NEW s \in SocketThreads, D!PushPackage(s)
  PROVE  DispatchInv'
<1> DEFINE w == chosen[s].to
           hand == [step |-> "wake", to |-> w]
<1>1. w \in D!Workers /\ chosen[s].pkg \in Packages
  BY HandShape DEF D!PushPackage
<1>2. hand \in Hand
  BY <1>1 DEF Hand
<1>3. /\ chosen' = [chosen EXCEPT ![s] = hand]
      /\ packages' = [packages EXCEPT ![w] = Append(packages[w], chosen[s].pkg)]
      /\ UNCHANGED <<index, duringWakeup, sem, step, tmp, arrived, dealt>>
  BY DEF D!PushPackage
<1>4. hand.step = "wake" /\ hand.to = w
  OBVIOUS
<1> HIDE DEF hand, w
<1>5. DispatchTypeOK'
  <2>1. Append(packages[w], chosen[s].pkg) \in Seq(Packages)
    BY <1>1 DEF DispatchInv, DispatchTypeOK
  <2> QED
    BY <1>1, <1>2, <1>3, <2>1 DEF DispatchInv, DispatchTypeOK
<1>6. DealHasPackage' /\ WakeupUnderWay'
  BY <1>3 DEF DispatchInv, DealHasPackage, WakeupUnderWay
<1>7. D!NoLostWakeup'
  <2> SUFFICES ASSUME NEW x \in D!Workers, packages'[x] # <<>>, step[x] = "wait", ~(sem[x] > 0)
               PROVE  \E u \in SocketThreads : chosen'[u].step = "wake" /\ chosen'[u].to = x
    BY <1>3 DEF D!NoLostWakeup, D!Workers
  <2>1. CASE x = w
    BY <2>1, <1>3, <1>4 DEF DispatchInv, DispatchTypeOK
  <2>2. CASE x # w
    <3>1. packages[x] # <<>>
      BY <2>2, <1>3 DEF DispatchInv, DispatchTypeOK
    <3>2. PICK u \in SocketThreads : chosen[u].step = "wake" /\ chosen[u].to = x
      BY <3>1 DEF DispatchInv, D!NoLostWakeup
    <3>3. u # s
      BY <3>2 DEF D!PushPackage
    <3> QED
      BY <3>2, <3>3, <1>3 DEF DispatchInv, DispatchTypeOK
  <2> QED
    BY <2>1, <2>2
<1> QED
  BY <1>5, <1>6, <1>7 DEF DispatchInv

(* The wakeup: either the semaphore is posted, or the post that the flag   *)
(* stands for has not been consumed by a sleeping thread.                  *)
LEMMA WakeUpInv ==
  ASSUME DispatchInv, NEW s \in SocketThreads, D!WakeUp(s)
  PROVE  DispatchInv'
<1> DEFINE w == chosen[s].to
<1>1. w \in D!Workers
  BY HandShape DEF D!WakeUp
<1>2. /\ chosen' = [chosen EXCEPT ![s] = D!Nothing]
      /\ duringWakeup' = [duringWakeup EXCEPT ![w] = 1]
      /\ sem' = IF duringWakeup[w] = 0 THEN [sem EXCEPT ![w] = sem[w] + 1] ELSE sem
      /\ UNCHANGED <<index, packages, step, tmp, arrived, dealt>>
  BY DEF D!WakeUp
<1>3. D!Nothing \in Hand
  BY DEF Hand
<1> HIDE DEF w
<1>4. \A x \in D!Workers \ {w} : duringWakeup'[x] = duringWakeup[x] /\ sem'[x] = sem[x]
  BY <1>1, <1>2 DEF DispatchInv, DispatchTypeOK
<1>5. sem'[w] > 0 \/ step[w] = "clear"
  <2>1. CASE duringWakeup[w] = 0
    BY <1>1, <1>2, <2>1 DEF DispatchInv, DispatchTypeOK
  <2>2. CASE duringWakeup[w] = 1
    BY <1>1, <1>2, <2>2 DEF DispatchInv, DispatchTypeOK, WakeupUnderWay
  <2> QED
    BY <1>1, <2>1, <2>2 DEF DispatchInv, DispatchTypeOK
<1>6. DispatchTypeOK'
  <2>1. duringWakeup' \in [D!Workers -> {0, 1}] /\ sem' \in [D!Workers -> Nat]
    BY <1>1, <1>2 DEF DispatchInv, DispatchTypeOK
  <2> QED
    BY <1>2, <1>3, <2>1 DEF DispatchInv, DispatchTypeOK
<1>7. DealHasPackage'
  BY <1>2 DEF DispatchInv, DealHasPackage
<1>8. WakeupUnderWay'
  BY <1>2, <1>4, <1>5 DEF DispatchInv, WakeupUnderWay
<1>9. D!NoLostWakeup'
  <2> SUFFICES ASSUME NEW x \in D!Workers, packages[x] # <<>>, step[x] = "wait", ~(sem'[x] > 0)
               PROVE  \E u \in SocketThreads : chosen'[u].step = "wake" /\ chosen'[u].to = x
    BY <1>2 DEF D!NoLostWakeup, D!Workers
  <2>1. x # w
    BY <1>5
  <2>2. PICK u \in SocketThreads : chosen[u].step = "wake" /\ chosen[u].to = x
    BY <2>1, <1>4 DEF DispatchInv, D!NoLostWakeup
  <2>3. u # s
    BY <2>1, <2>2 DEF w
  <2> QED
    BY <2>2, <2>3, <1>2 DEF DispatchInv, DispatchTypeOK
<1> QED
  BY <1>6, <1>7, <1>8, <1>9 DEF DispatchInv

(* The dispatch thread takes the semaphore, clears the flag and only then  *)
(* looks at the list, so that a later append posts again.                  *)
LEMMA WorkerInv ==
  ASSUME DispatchInv, NEW w \in D!Workers,
         D!SemWait(w) \/ D!ClearWakeup(w) \/ D!PeekPackages(w)
  PROVE  DispatchInv'
<1>1. CASE D!SemWait(w)
  <2> USE <1>1 DEF D!SemWait
  <2>1. DispatchTypeOK'
    BY DEF DispatchInv, DispatchTypeOK
  <2>2. DealHasPackage' /\ WakeupUnderWay'
    BY DEF DispatchInv, DispatchTypeOK, DealHasPackage, WakeupUnderWay
  <2>3. D!NoLostWakeup'
    BY DEF DispatchInv, DispatchTypeOK, D!NoLostWakeup, D!Workers
  <2> QED
    BY <2>1, <2>2, <2>3 DEF DispatchInv
<1>2. CASE D!ClearWakeup(w)
  <2> USE <1>2 DEF D!ClearWakeup
  <2>1. DispatchTypeOK'
    BY DEF DispatchInv, DispatchTypeOK
  <2>2. DealHasPackage' /\ WakeupUnderWay'
    BY DEF DispatchInv, DispatchTypeOK, DealHasPackage, WakeupUnderWay
  <2>3. D!NoLostWakeup'
    BY DEF DispatchInv, DispatchTypeOK, D!NoLostWakeup, D!Workers
  <2> QED
    BY <2>1, <2>2, <2>3 DEF DispatchInv
<1>3. CASE D!PeekPackages(w)
  <2>1. /\ step[w] = "peek"
        /\ tmp' = [tmp EXCEPT ![w] = packages[w]]
        /\ packages' = [packages EXCEPT ![w] = <<>>]
        /\ step' = [step EXCEPT ![w] = IF packages[w] = <<>> THEN "wait" ELSE "deal"]
        /\ UNCHANGED <<index, chosen, duringWakeup, sem, arrived, dealt>>
    BY <1>3 DEF D!PeekPackages
  <2>2. DispatchTypeOK'
    BY <2>1 DEF DispatchInv, DispatchTypeOK
  <2>3. DealHasPackage' /\ WakeupUnderWay'
    BY <2>1 DEF DispatchInv, DispatchTypeOK, DealHasPackage, WakeupUnderWay
  <2>4. D!NoLostWakeup'
    BY <2>1 DEF DispatchInv, DispatchTypeOK, D!NoLostWakeup, D!Workers
  <2> QED
    BY <2>2, <2>3, <2>4 DEF DispatchInv
<1> QED
  BY <1>1, <1>2, <1>3

(* _dispatchDealPackage: nothing of the wakeup protocol is touched.        *)
LEMMA DealInv ==
  ASSUME DispatchInv, NEW w \in D!Workers, D!DealPackage(w)
  PROVE  DispatchInv'
<1>1. /\ step[w] = "deal"
      /\ dealt' = Append(dealt, Head(tmp[w]))
      /\ tmp' = [tmp EXCEPT ![w] = Tail(tmp[w])]
      /\ step' = [step EXCEPT ![w] = IF Len(tmp[w]) = 1 THEN "peek" ELSE "deal"]
      /\ UNCHANGED <<index, chosen, packages, duringWakeup, sem, arrived>>
  BY DEF D!DealPackage
<1>2. tmp[w] \in Seq(Packages) /\ tmp[w] # <<>>
  BY <1>1 DEF DispatchInv, DispatchTypeOK, DealHasPackage
<1>3. Head(tmp[w]) \in Packages /\ Tail(tmp[w]) \in Seq(Packages)
  BY <1>2
<1>4. Len(tmp[w]) # 1 => Tail(tmp[w]) # <<>>
  <2>1. Len(tmp[w]) \in Nat
    BY <1>2, LenProperties
  <2>2. Len(Tail(tmp[w])) = Len(tmp[w]) - 1
    BY <1>2, HeadTailProperties
  <2>3. Tail(tmp[w]) = <<>> => Len(Tail(tmp[w])) = 0
    BY EmptySeq, Zenon
  <2>4. Len(tmp[w]) # 1 => Len(Tail(tmp[w])) # 0
    BY <2>1, <2>2
  <2> QED
    BY <2>3, <2>4, Zenon
<1>5. DispatchTypeOK'
  <2>1. dealt' \in Seq(Packages)
    BY <1>1, <1>3 DEF DispatchInv, DispatchTypeOK
  <2> QED
    BY <1>1, <1>3, <2>1 DEF DispatchInv, DispatchTypeOK
<1>6. DealHasPackage' /\ WakeupUnderWay'
  BY <1>1, <1>4 DEF DispatchInv, DispatchTypeOK, DealHasPackage, WakeupUnderWay
<1>7. D!NoLostWakeup'
  BY <1>1 DEF DispatchInv, DispatchTypeOK, D!NoLostWakeup, D!Workers
<1> QED
  BY <1>5, <1>6, <1>7 DEF DispatchInv

-----------------------------------------------------------------------------
(* Every step of the composition is a step of PackageConnectionTrySendPackage's *)
(* protocol or leaves it alone.                                            *)
LEMMA DriveStepSimulated == [DriveNext]_driveVars => [Next]_vars
<1> SUFFICES ASSUME [DriveNext]_driveVars PROVE [Next]_vars
  OBVIOUS
<1>1. ASSUME NEW w \in D!Workers, Dispatch(w) PROVE [Next]_vars
  <2>1. w \in Threads
    BY DriveAssumption DEF DriveAssumption
  <2> QED
    BY <1>1, <2>1 DEF Dispatch, Deal, Next
<1>2. ASSUME NEW t \in Threads, Drive(t) PROVE Next
  BY <1>2 DEF Drive, Next
<1>3. ASSUME NEW t \in Threads, Ask(t) PROVE Next
  BY <1>3 DEF Next
<1> QED
  BY <1>1, <1>2, <1>3 DEF DriveNext, driveVars

(* The dispatch invariant is kept by every step of the composition.        *)
LEMMA DriveStepInv == DispatchInv /\ [DriveNext]_driveVars => DispatchInv'
<1> SUFFICES ASSUME DispatchInv, [DriveNext]_driveVars PROVE DispatchInv'
  OBVIOUS
<1>1. CASE UNCHANGED dispatchVars
  BY <1>1 DEF dispatchVars, DispatchInv, DispatchTypeOK, DealHasPackage, WakeupUnderWay,
              D!NoLostWakeup, D!Workers
<1>2. ASSUME NEW w \in D!Workers, Dispatch(w) PROVE DispatchInv'
  BY <1>2, WorkerInv, DealInv DEF Dispatch, Deal
<1> QED
  BY <1>1, <1>2, OnDataInv, PushPackageInv, WakeUpInv DEF DriveNext, Drive, driveVars

(* Both halves together, for the composed specification.                   *)
THEOREM DriveInvariance == DriveSpec => [](IndInv /\ DispatchInv)
<1>1. DriveInit => IndInv /\ DispatchInv
  BY InitInv, DispatchInit DEF DriveInit
<1>2. IndInv /\ [Next]_vars => IndInv'
  <2>1. IndInv /\ Next => IndInv'
    BY AskInv, DriveBeginsInv, DriveEndsInv DEF Next
  <2>2. IndInv /\ UNCHANGED vars => IndInv'
    BY DEF vars, IndInv, TypeOK, OneDriver, DriverCounted, CountHasDriver, NoRequestForgotten
  <2> QED
    BY <2>1, <2>2
<1> QED
  BY <1>1, <1>2, DriveStepSimulated, DriveStepInv, PTL DEF DriveSpec

(* For any number of socket and dispatch threads: a dispatch thread never  *)
(* sleeps on packages nobody will wake it for, although duringWakeup keeps *)
(* most socket threads from posting the semaphore.                         *)
THEOREM WakeupKept == DriveSpec => []NoLostWakeup
<1>1. DispatchInv => NoLostWakeup
  BY DEF DispatchInv, NoLostWakeup
<1> QED
  BY DriveInvariance, <1>1, PTL

(* One thread is inside PackageConnectionSendDrive and no request for it   *)
(* is forgotten, with dispatch threads that deal datagrams as the callers. *)
THEOREM DriveLoopSafe == DriveSpec => [](TypeOK /\ OneDriver /\ NoRequestForgotten)
<1>1. IndInv => TypeOK /\ OneDriver /\ NoRequestForgotten
  BY DEF IndInv
<1> QED
  BY DriveInvariance, <1>1, PTL

=============================================================================
