-------------------------- MODULE TimerStackProofs --------------------------
(****************************************************************************)
(* Bdt_TimerHelper on the framework's timers is safe for every number of    *)
(* threads and timers: no system timer leaks from the helper or is          *)
(* destroyed twice, and no timer object is used without a reference.        *)
(*                                                                          *)
(* activeTimeSeq is a counter of 31 bits.  The proofs are about helpers     *)
(* stopped fewer times than it takes to come back to a number (SeqFits);    *)
(* after that many stops inside one Start the comparison in Start is no     *)
(* longer a test for "stopped meanwhile".                                   *)
(****************************************************************************)
EXTENDS TimerStack, FiniteSetTheorems, SequenceTheorems, TLAPS

SeqFits == MaxStops + 1 < SeqModulus

-----------------------------------------------------------------------------
(* The helper                                                              *)

Current(t) == pc[t] \in {"create", "store"} /\ curActiveSeq[t] = activeTimeSeq

(* The sequence number counts the stops; a Start in progress saw an        *)
(* earlier or the present one, never 0.                                    *)
SeqCountsStops ==
    /\ activeTimeSeq = 1 + stops
    /\ \A t \in Threads :
         /\ curActiveSeq[t] <= activeTimeSeq
         /\ pc[t] \in {"create", "store"} => curActiveSeq[t] >= 1

(* A thread holds a timer between creating it and storing it, and between  *)
(* taking it out and destroying it.                                        *)
HeldBySteps ==
    \A t \in Threads :
        /\ pc[t] \in {"idle", "start", "create"} => mine[t] = None
        /\ pc[t] \in {"store", "drop"} => mine[t] # None

(* Whoever knows a timer knows a created one that is not destroyed.        *)
KnownIsAlive ==
    /\ destroyed \subseteq created
    /\ timerInstance # None => timerInstance \in created \ destroyed
    /\ \A t \in Threads : mine[t] # None => mine[t] \in created \ destroyed

CurrentIsPending == \A t \in Threads : Current(t) => isStartPending

HelperInv ==
    /\ TypeOK
    /\ SeqCountsStops
    /\ HeldBySteps
    /\ KnownIsAlive
    /\ CurrentIsPending
    /\ TimersAccounted
    /\ OneCurrentStart

-----------------------------------------------------------------------------
(* The framework                                                           *)

Messages == {"set", "kill"} \X Timers

Stages == {F!Idle} \cup ({"fire", "calling", "release"} \X Timers)

In(p, m) == \E th \in TimerThreads : \E i \in DOMAIN p[th] : p[th][i] = m

Distinct(p) ==
    \A th, u \in TimerThreads : \A i \in DOMAIN p[th], j \in DOMAIN p[u] :
        p[th][i] = p[u][j] => th = u /\ i = j

FrameworkTypeOK ==
    /\ F!TypeOK
    /\ posted \in [TimerThreads -> Seq(Messages)]
    /\ callback \in [TimerThreads -> Stages]

(* The timer thread's part of a timer is at one place at a time: the set   *)
(* message, the armed timer or the callback.                               *)
OneStage ==
    /\ Distinct(posted)
    /\ \A x \in Timers : In(posted, <<"set", x>>) => ~armed[x] /\ ~F!InCallback(x)
    /\ \A x \in Timers : armed[x] => ~F!InCallback(x)
    /\ \A th, u \in TimerThreads :
         callback[th] # F!Idle /\ callback[u] # F!Idle /\ callback[th][2] = callback[u][2] => th = u

(* A timer that fired does not come to its callback again.                 *)
FiredOnce ==
    \A x \in Timers : calls[x] = 1 =>
        /\ ~In(posted, <<"set", x>>)
        /\ ~armed[x]
        /\ \A th \in TimerThreads : callback[th] # <<"fire", x>>

(* The kill message is sent by the owner, who has given the timer up.      *)
KilledByOwner == \A x \in Timers : In(posted, <<"kill", x>>) => x \notin owned

OwnedHasThread == \A x \in owned : thread[x] \in TimerThreads

(* Nothing is known of a timer before its creation.                        *)
Untouched ==
    \A x \in Timers \ created :
        /\ x \notin owned
        /\ ~In(posted, <<"set", x>>) /\ ~In(posted, <<"kill", x>>)
        /\ ~armed[x] /\ ~F!InCallback(x)
        /\ calls[x] = 0

Bit(b) == IF b THEN 1 ELSE 0

ThreadUses(x) == In(posted, <<"set", x>>) \/ armed[x] \/ F!InCallback(x)

Uses(x) == Bit(x \in owned) + Bit(In(posted, <<"kill", x>>)) + Bit(ThreadUses(x))

(* A reference for the owner or its kill message, and one for the thread.  *)
Held(x) == x \in owned \/ In(posted, <<"kill", x>>)

RefCoversUses ==
    \A x \in Timers :
        /\ Held(x) \/ ThreadUses(x) => ref[x] >= 1
        /\ Held(x) /\ ThreadUses(x) => ref[x] >= 2

FrameworkInv ==
    /\ FrameworkTypeOK
    /\ OneStage
    /\ FiredOnce
    /\ KilledByOwner
    /\ OwnedHasThread
    /\ Untouched
    /\ RefCoversUses

StackInv == HelperInv /\ FrameworkInv /\ owned = created \ destroyed

-----------------------------------------------------------------------------
(* Bdt_TimerHelperInit *)
LEMMA HelperInit == Init => HelperInv
<1> SUFFICES ASSUME Init PROVE HelperInv
  OBVIOUS
<1> USE TimerHelperAssumption DEF TimerHelperAssumption, Init
<1>1. TypeOK
  <2>1. restart \in [Threads -> BOOLEAN] /\ isStartPending \in BOOLEAN
    BY Zenon
  <2> QED
    BY <2>1 DEF TypeOK
<1>2. SeqCountsStops /\ HeldBySteps /\ KnownIsAlive /\ CurrentIsPending
  BY DEF SeqCountsStops, HeldBySteps, KnownIsAlive, CurrentIsPending, Current
<1>3. TimersAccounted /\ OneCurrentStart
  BY DEF TimersAccounted, OneCurrentStart
<1> QED
  BY <1>1, <1>2, <1>3 DEF HelperInv

(* Bdt_TimerHelperStop under the lock: no Start in progress is current any *)
(* more, because the new number is above every number seen.                *)
LEMMA StopInv ==
  ASSUME SeqFits, HelperInv, NEW t \in Threads, NEW again \in BOOLEAN, Stop(t, again)
  PROVE  HelperInv'
<1> USE TimerHelperAssumption DEF TimerHelperAssumption, HelperInv, TypeOK
<1>1. /\ pc[t] = "idle" /\ mine[t] = None
      /\ stops < MaxStops
      /\ stops' = stops + 1
      /\ timerInstance' = None
      /\ isStartPending' = FALSE
      /\ mine' = [mine EXCEPT ![t] = timerInstance]
      /\ restart' = [restart EXCEPT ![t] = again]
      /\ pc' = [pc EXCEPT ![t] = "stopped"]
      /\ UNCHANGED <<curActiveSeq, created, destroyed>>
  BY DEF Stop, HeldBySteps
<1>2. activeTimeSeq' = activeTimeSeq + 1 /\ activeTimeSeq + 1 \in 0 .. (SeqModulus - 1)
  <2>1. activeTimeSeq' = (activeTimeSeq + 1) % SeqModulus
    BY DEF Stop
  <2>2. activeTimeSeq + 1 \in 0 .. (SeqModulus - 1)
    BY <1>1 DEF SeqCountsStops, SeqFits
  <2> QED
    BY <2>1, <2>2
<1>3. TypeOK'
  <2>1. restart' \in [Threads -> BOOLEAN] /\ isStartPending' \in BOOLEAN
    BY <1>1, Zenon
  <2>2. mine' \in [Threads -> Timers \cup {None}] /\ timerInstance' \in Timers \cup {None}
    BY <1>1, Zenon
  <2>3. pc' \in [Threads -> {"idle", "stopped", "start", "create", "store", "drop"}]
    BY <1>1
  <2> QED
    BY <1>1, <1>2, <2>1, <2>2, <2>3
<1>4. SeqCountsStops'
  BY <1>1, <1>2 DEF SeqCountsStops
<1>5. \A u \in Threads : ~Current(u)'
  BY <1>1, <1>2 DEF SeqCountsStops, Current
<1>6. CurrentIsPending' /\ OneCurrentStart'
  BY <1>1, <1>5 DEF CurrentIsPending, OneCurrentStart, Current
<1>7. HeldBySteps' /\ KnownIsAlive'
  BY <1>1 DEF HeldBySteps, KnownIsAlive
<1>8. TimersAccounted'
  BY <1>1 DEF TimersAccounted
<1> QED
  BY <1>3, <1>4, <1>6, <1>7, <1>8

(* BdtDestroyTimeout at the end of Stop: the thread was the only one that  *)
(* knew the timer.                                                         *)
LEMMA DestroyOldInv ==
  ASSUME HelperInv, NEW t \in Threads, DestroyOld(t)
  PROVE  HelperInv'
<1> USE TimerHelperAssumption DEF TimerHelperAssumption, HelperInv, TypeOK
<1>1. /\ pc[t] = "stopped"
      /\ destroyed' = IF mine[t] = None THEN destroyed ELSE destroyed \cup {mine[t]}
      /\ mine' = [mine EXCEPT ![t] = None]
      /\ pc' = [pc EXCEPT ![t] = IF restart[t] THEN "start" ELSE "idle"]
      /\ UNCHANGED <<helperVars, restart, curActiveSeq, created, stops>>
  BY DEF DestroyOld
<1>2. /\ isStartPending' = isStartPending
      /\ activeTimeSeq' = activeTimeSeq
      /\ timerInstance' = timerInstance
  BY <1>1 DEF helperVars
<1>3. TypeOK'
  <2>1. destroyed' \subseteq Timers /\ mine' \in [Threads -> Timers \cup {None}]
    BY <1>1 DEF KnownIsAlive
  <2>2. pc' \in [Threads -> {"idle", "stopped", "start", "create", "store", "drop"}]
    BY <1>1
  <2> QED
    BY <1>1, <1>2, <2>1, <2>2
<1>4. SeqCountsStops' /\ HeldBySteps'
  BY <1>1, <1>2 DEF SeqCountsStops, HeldBySteps
<1>5. \A u \in Threads : Current(u)' <=> Current(u)
  BY <1>1, <1>2 DEF Current
<1>6. CurrentIsPending' /\ OneCurrentStart'
  BY <1>1, <1>2, <1>5 DEF CurrentIsPending, OneCurrentStart, Current
<1>7. KnownIsAlive'
  BY <1>1, <1>2 DEF KnownIsAlive, TimersAccounted
<1>8. TimersAccounted'
  BY <1>1, <1>2 DEF TimersAccounted
<1> QED
  BY <1>3, <1>4, <1>6, <1>7, <1>8

(* First lock section of Start.                                            *)
LEMMA StartInv ==
  ASSUME HelperInv, NEW t \in Threads, Start(t)
  PROVE  HelperInv'
<1> USE TimerHelperAssumption DEF TimerHelperAssumption, HelperInv, TypeOK
<1>1. /\ pc[t] \in {"start", "idle"} /\ mine[t] = None
      /\ UNCHANGED <<activeTimeSeq, timerInstance, restart, mine, created, destroyed, stops>>
  BY DEF Start, HeldBySteps
<1>2. activeTimeSeq >= 1
  BY DEF SeqCountsStops
<1>3. CASE timerInstance = None /\ ~isStartPending
  <2>1. /\ isStartPending' = TRUE
        /\ curActiveSeq' = [curActiveSeq EXCEPT ![t] = activeTimeSeq]
        /\ pc' = [pc EXCEPT ![t] = "create"]
    <3>1. /\ isStartPending' = TRUE
          /\ curActiveSeq' = [curActiveSeq EXCEPT ![t] = activeTimeSeq]
      BY <1>3, Zenon DEF Start
    <3>2. curActiveSeq'[t] # 0
      BY <1>2, <3>1
    <3> QED
      BY <3>1, <3>2 DEF Start
  <2>2. TypeOK'
    <3>1. isStartPending' \in BOOLEAN
      BY <2>1, Zenon
    <3>2. pc' \in [Threads -> {"idle", "stopped", "start", "create", "store", "drop"}]
      BY <2>1
    <3> QED
      BY <1>1, <2>1, <3>1, <3>2
  <2>3. SeqCountsStops' /\ HeldBySteps' /\ KnownIsAlive'
    BY <1>1, <1>2, <2>1 DEF SeqCountsStops, HeldBySteps, KnownIsAlive
  <2>4. \A u \in Threads \ {t} : ~Current(u)'
    BY <1>1, <1>3, <2>1 DEF CurrentIsPending, Current
  <2>5. Current(t)'
    BY <1>1, <2>1 DEF Current
  <2>6. CurrentIsPending' /\ OneCurrentStart'
    BY <1>1, <1>3, <2>1, <2>4, <2>5 DEF CurrentIsPending, OneCurrentStart, Current
  <2>7. TimersAccounted'
    BY <1>1 DEF TimersAccounted
  <2> QED
    BY <2>2, <2>3, <2>6, <2>7
<1>4. CASE ~(timerInstance = None /\ ~isStartPending)
  <2>1. /\ isStartPending' = isStartPending
        /\ curActiveSeq' = [curActiveSeq EXCEPT ![t] = 0]
        /\ pc' = [pc EXCEPT ![t] = "idle"]
    BY <1>4 DEF Start
  <2>2. TypeOK'
    <3>1. pc' \in [Threads -> {"idle", "stopped", "start", "create", "store", "drop"}]
      BY <2>1
    <3> QED
      BY <1>1, <2>1, <3>1
  <2>3. SeqCountsStops' /\ HeldBySteps' /\ KnownIsAlive'
    BY <1>1, <1>2, <2>1 DEF SeqCountsStops, HeldBySteps, KnownIsAlive
  <2>4. \A u \in Threads : Current(u)' <=> Current(u)
    BY <1>1, <2>1 DEF Current
  <2>5. CurrentIsPending' /\ OneCurrentStart'
    BY <1>1, <2>1, <2>4 DEF CurrentIsPending, OneCurrentStart, Current
  <2>6. TimersAccounted'
    BY <1>1 DEF TimersAccounted
  <2> QED
    BY <2>2, <2>3, <2>5, <2>6
<1> QED
  BY <1>3, <1>4

(* BdtCreateTimeout: the thread is the only one that knows the new timer.  *)
LEMMA CreateInv ==
  ASSUME HelperInv, NEW t \in Threads, Create(t)
  PROVE  HelperInv'
<1> USE TimerHelperAssumption DEF TimerHelperAssumption, HelperInv, TypeOK
<1>1. PICK x \in Timers \ created : /\ created' = created \cup {x}
                                    /\ mine' = [mine EXCEPT ![t] = x]
  BY DEF Create
<1>2. /\ pc[t] = "create" /\ mine[t] = None
      /\ pc' = [pc EXCEPT ![t] = "store"]
      /\ UNCHANGED <<isStartPending, activeTimeSeq, timerInstance, restart, curActiveSeq,
                     destroyed, stops>>
  BY DEF Create, helperVars, HeldBySteps
<1>3. TypeOK'
  <2>1. pc' \in [Threads -> {"idle", "stopped", "start", "create", "store", "drop"}]
    BY <1>2
  <2> QED
    BY <1>1, <1>2, <2>1
<1>4. SeqCountsStops' /\ HeldBySteps' /\ KnownIsAlive'
  BY <1>1, <1>2 DEF SeqCountsStops, HeldBySteps, KnownIsAlive
<1>5. \A u \in Threads : Current(u)' <=> Current(u)
  BY <1>2 DEF Current
<1>6. CurrentIsPending' /\ OneCurrentStart'
  BY <1>2, <1>5 DEF CurrentIsPending, OneCurrentStart, Current
<1>7. TimersAccounted'
  BY <1>1, <1>2 DEF TimersAccounted, KnownIsAlive
<1> QED
  BY <1>3, <1>4, <1>6, <1>7

(* Second lock section of Start: a Start that is still current is the only *)
(* one and finds no timer stored.                                          *)
LEMMA StoreInv ==
  ASSUME HelperInv, NEW t \in Threads, Store(t)
  PROVE  HelperInv'
<1> USE TimerHelperAssumption DEF TimerHelperAssumption, HelperInv, TypeOK
<1>1. /\ pc[t] = "store" /\ mine[t] # None
      /\ UNCHANGED <<activeTimeSeq, restart, curActiveSeq, created, destroyed, stops>>
  BY DEF Store, HeldBySteps
<1>2. CASE activeTimeSeq = curActiveSeq[t]
  <2>1. /\ timerInstance' = mine[t]
        /\ isStartPending' = FALSE
        /\ mine' = [mine EXCEPT ![t] = None]
        /\ pc' = [pc EXCEPT ![t] = "idle"]
    BY <1>2 DEF Store
  <2>2. Current(t)
    BY <1>1, <1>2 DEF Current
  <2>3. timerInstance = None /\ \A u \in Threads \ {t} : ~Current(u)
    BY <2>2 DEF OneCurrentStart, Current
  <2>4. \A u \in Threads : ~Current(u)'
    BY <1>1, <2>1, <2>3 DEF Current
  <2>5. TypeOK'
    <3>1. isStartPending' \in BOOLEAN
      BY <2>1, Zenon
    <3>2. pc' \in [Threads -> {"idle", "stopped", "start", "create", "store", "drop"}]
      BY <2>1
    <3> QED
      BY <1>1, <2>1, <3>1, <3>2
  <2>6. SeqCountsStops' /\ HeldBySteps' /\ KnownIsAlive'
    BY <1>1, <2>1 DEF SeqCountsStops, HeldBySteps, KnownIsAlive
  <2>7. CurrentIsPending' /\ OneCurrentStart'
    BY <2>1, <2>4 DEF CurrentIsPending, OneCurrentStart, Current
  <2>8. TimersAccounted'
    BY <1>1, <2>1, <2>3 DEF TimersAccounted, KnownIsAlive
  <2> QED
    BY <2>5, <2>6, <2>7, <2>8
<1>3. CASE activeTimeSeq # curActiveSeq[t]
  <2>1. pc' = [pc EXCEPT ![t] = "drop"] /\ UNCHANGED <<timerInstance, isStartPending, mine>>
    BY <1>3 DEF Store
  <2>2. TypeOK'
    <3>1. pc' \in [Threads -> {"idle", "stopped", "start", "create", "store", "drop"}]
      BY <2>1
    <3> QED
      BY <1>1, <2>1, <3>1
  <2>3. SeqCountsStops' /\ HeldBySteps' /\ KnownIsAlive'
    BY <1>1, <2>1 DEF SeqCountsStops, HeldBySteps, KnownIsAlive
  <2>4. \A u \in Threads : Current(u)' <=> Current(u)
    BY <1>1, <1>3, <2>1 DEF Current
  <2>5. CurrentIsPending' /\ OneCurrentStart'
    BY <1>1, <2>1, <2>4 DEF CurrentIsPending, OneCurrentStart, Current
  <2>6. TimersAccounted'
    BY <1>1, <2>1 DEF TimersAccounted
  <2> QED
    BY <2>2, <2>3, <2>5, <2>6
<1> QED
  BY <1>2, <1>3

(* The end of a Start that was stopped.                                    *)
LEMMA DropInv ==
  ASSUME HelperInv, NEW t \in Threads, Drop(t)
  PROVE  HelperInv'
<1> USE TimerHelperAssumption DEF TimerHelperAssumption, HelperInv, TypeOK
<1>1. /\ pc[t] = "drop" /\ mine[t] # None
      /\ destroyed' = destroyed \cup {mine[t]}
      /\ mine' = [mine EXCEPT ![t] = None]
      /\ pc' = [pc EXCEPT ![t] = "idle"]
      /\ UNCHANGED <<isStartPending, activeTimeSeq, timerInstance, restart, curActiveSeq,
                     created, stops>>
  BY DEF Drop, helperVars, HeldBySteps
<1>2. TypeOK'
  <2>1. destroyed' \subseteq Timers
    BY <1>1 DEF KnownIsAlive
  <2>2. pc' \in [Threads -> {"idle", "stopped", "start", "create", "store", "drop"}]
    BY <1>1
  <2> QED
    BY <1>1, <2>1, <2>2
<1>3. SeqCountsStops' /\ HeldBySteps'
  BY <1>1 DEF SeqCountsStops, HeldBySteps
<1>4. \A u \in Threads : Current(u)' <=> Current(u)
  BY <1>1 DEF Current
<1>5. CurrentIsPending' /\ OneCurrentStart'
  BY <1>1, <1>4 DEF CurrentIsPending, OneCurrentStart, Current
<1>6. KnownIsAlive'
  BY <1>1 DEF KnownIsAlive, TimersAccounted
<1>7. TimersAccounted'
  BY <1>1 DEF TimersAccounted
<1> QED
  BY <1>2, <1>3, <1>5, <1>6, <1>7

-----------------------------------------------------------------------------
Posted(p, th, m) == [p EXCEPT ![th] = Append(p[th], m)]

Taken(p, th) == [p EXCEPT ![th] = Tail(p[th])]

(* A message appended to a thread's queue is there besides the others.     *)
LEMMA AppendMessage ==
  ASSUME NEW p \in [TimerThreads -> Seq(Messages)], NEW th \in TimerThreads, NEW m \in Messages
  PROVE  /\ Posted(p, th, m) \in [TimerThreads -> Seq(Messages)]
         /\ \A n : In(Posted(p, th, m), n) <=> In(p, n) \/ n = m
         /\ Distinct(p) /\ ~In(p, m) => Distinct(Posted(p, th, m))
<1> DEFINE q == Posted(p, th, m)
<1>0. q = [p EXCEPT ![th] = Append(p[th], m)]
  BY DEF Posted
<1> HIDE DEF q
<1>1. /\ Append(p[th], m) \in Seq(Messages)
      /\ Len(p[th]) \in Nat
      /\ Len(Append(p[th], m)) = Len(p[th]) + 1
      /\ \A i \in 1 .. Len(p[th]) : Append(p[th], m)[i] = p[th][i]
      /\ Append(p[th], m)[Len(p[th]) + 1] = m
  BY AppendProperties, LenProperties
<1>2. /\ DOMAIN p[th] = 1 .. Len(p[th])
      /\ DOMAIN Append(p[th], m) = 1 .. (Len(p[th]) + 1)
  BY <1>1, LenProperties
<1>3. q \in [TimerThreads -> Seq(Messages)]
  BY <1>0, <1>1
<1>4. /\ DOMAIN q[th] = 1 .. (Len(p[th]) + 1)
      /\ \A i \in 1 .. Len(p[th]) : q[th][i] = p[th][i]
      /\ q[th][Len(p[th]) + 1] = m
      /\ \A u \in TimerThreads \ {th} : q[u] = p[u]
  BY <1>0, <1>1, <1>2
<1>5. \A n : In(q, n) <=> In(p, n) \/ n = m
  <2> SUFFICES ASSUME NEW n PROVE In(q, n) <=> In(p, n) \/ n = m
    OBVIOUS
  <2>1. In(p, n) => In(q, n)
    BY <1>1, <1>2, <1>4 DEF In
  <2>2. In(q, m)
    BY <1>1, <1>4 DEF In
  <2>3. In(q, n) => In(p, n) \/ n = m
    BY <1>0, <1>1, <1>2, <1>4 DEF In
  <2> QED
    BY <2>1, <2>2, <2>3
<1>6. ASSUME Distinct(p), ~In(p, m) PROVE Distinct(q)
  <2> SUFFICES ASSUME NEW a \in TimerThreads, NEW b \in TimerThreads,
                      NEW i \in DOMAIN q[a], NEW j \in DOMAIN q[b], q[a][i] = q[b][j]
               PROVE  a = b /\ i = j
    BY DEF Distinct
  <2>1. CASE (a = th /\ i = Len(p[th]) + 1) \/ (b = th /\ j = Len(p[th]) + 1)
    BY <1>1, <1>2, <1>4, <1>6, <2>1 DEF In
  <2>2. CASE ~((a = th /\ i = Len(p[th]) + 1) \/ (b = th /\ j = Len(p[th]) + 1))
    <3>1. i \in DOMAIN p[a] /\ j \in DOMAIN p[b] /\ p[a][i] = p[b][j]
      BY <1>1, <1>2, <1>4, <2>2
    <3> QED
      BY <3>1, <1>6 DEF Distinct
  <2> QED
    BY <2>1, <2>2
<1> QED
  BY <1>3, <1>5, <1>6 DEF q

(* Of distinct messages exactly the one taken from a queue is gone.        *)
LEMMA TakeMessage ==
  ASSUME NEW p \in [TimerThreads -> Seq(Messages)], NEW th \in TimerThreads, p[th] # <<>>,
         Distinct(p)
  PROVE  /\ Taken(p, th) \in [TimerThreads -> Seq(Messages)]
         /\ In(p, Head(p[th]))
         /\ \A n : In(Taken(p, th), n) <=> In(p, n) /\ n # Head(p[th])
         /\ Distinct(Taken(p, th))
<1> DEFINE q == Taken(p, th)
<1>0. q = [p EXCEPT ![th] = Tail(p[th])]
  BY DEF Taken
<1> HIDE DEF q
<1>1. /\ Tail(p[th]) \in Seq(Messages)
      /\ Len(p[th]) \in Nat \ {0}
      /\ Len(Tail(p[th])) = Len(p[th]) - 1
      /\ \A i \in 1 .. Len(Tail(p[th])) : Tail(p[th])[i] = p[th][i + 1]
  BY HeadTailProperties, EmptySeq
<1>2. /\ DOMAIN p[th] = 1 .. Len(p[th])
      /\ DOMAIN Tail(p[th]) = 1 .. (Len(p[th]) - 1)
  BY <1>1, LenProperties
<1>3. Head(p[th]) = p[th][1]
  BY <1>1
<1>4. q \in [TimerThreads -> Seq(Messages)]
  BY <1>0, <1>1
<1>5. /\ DOMAIN q[th] = 1 .. (Len(p[th]) - 1)
      /\ \A i \in 1 .. (Len(p[th]) - 1) : q[th][i] = p[th][i + 1]
      /\ \A u \in TimerThreads \ {th} : q[u] = p[u]
  BY <1>0, <1>1, <1>2
<1>6. In(p, Head(p[th]))
  BY <1>1, <1>2, <1>3 DEF In
<1>7. \A n : In(q, n) <=> In(p, n) /\ n # Head(p[th])
  <2> SUFFICES ASSUME NEW n PROVE In(q, n) <=> In(p, n) /\ n # Head(p[th])
    OBVIOUS
  <2>1. ASSUME In(q, n) PROVE In(p, n) /\ n # p[th][1]
    <3>1. PICK u \in TimerThreads : \E i \in DOMAIN q[u] : q[u][i] = n
      BY <2>1 DEF In
    <3>2. PICK i \in DOMAIN q[u] : q[u][i] = n
      BY <3>1
    <3>3. CASE u = th
      <4>1. i + 1 \in DOMAIN p[th] /\ p[th][i + 1] = n /\ i + 1 # 1 /\ 1 \in DOMAIN p[th]
        BY <3>2, <3>3, <1>1, <1>2, <1>5
      <4> QED
        BY <4>1 DEF In, Distinct
    <3>4. CASE u # th
      <4>1. i \in DOMAIN p[u] /\ p[u][i] = n /\ 1 \in DOMAIN p[th]
        BY <3>2, <3>4, <1>1, <1>2, <1>5
      <4> QED
        BY <4>1, <3>4 DEF In, Distinct
    <3> QED
      BY <3>3, <3>4
  <2>2. ASSUME In(p, n), n # p[th][1] PROVE In(q, n)
    <3>1. PICK u \in TimerThreads : \E i \in DOMAIN p[u] : p[u][i] = n
      BY <2>2 DEF In
    <3>2. PICK i \in DOMAIN p[u] : p[u][i] = n
      BY <3>1
    <3>3. CASE u = th
      <4>1. i - 1 \in DOMAIN q[th] /\ q[th][i - 1] = n
        BY <3>2, <3>3, <2>2, <1>1, <1>2, <1>5
      <4> QED
        BY <4>1 DEF In
    <3>4. CASE u # th
      BY <3>2, <3>4, <1>5 DEF In
    <3> QED
      BY <3>3, <3>4
  <2> QED
    BY <2>1, <2>2, <1>3
<1>8. Distinct(q)
  <2> SUFFICES ASSUME NEW a \in TimerThreads, NEW b \in TimerThreads,
                      NEW i \in DOMAIN q[a], NEW j \in DOMAIN q[b], q[a][i] = q[b][j]
               PROVE  a = b /\ i = j
    BY DEF Distinct
  <2> DEFINE at(u, k) == IF u = th THEN k + 1 ELSE k
  <2>1. /\ at(a, i) \in DOMAIN p[a] /\ p[a][at(a, i)] = q[a][i]
        /\ at(b, j) \in DOMAIN p[b] /\ p[b][at(b, j)] = q[b][j]
    BY <1>0, <1>1, <1>2, <1>5
  <2>2. a = b /\ at(a, i) = at(b, j)
    BY <2>1 DEF Distinct
  <2> QED
    BY <2>2, <1>1, <1>2, <1>5
<1> QED
  BY <1>4, <1>6, <1>7, <1>8 DEF q

(* The users of a timer, counted.                                          *)
LEMMA UsersCounted ==
  ASSUME NEW x \in Timers
  PROVE  Cardinality(F!Users(x)) = Uses(x)
<1> DEFINE O == {"owner" : y \in owned \cap {x}}
           K == {u \in {"kill"} : F!Waiting(x, "kill")}
           T == {u \in {"thread"} : F!Waiting(x, "set") \/ armed[x] \/ F!InCallback(x)}
<1>1. F!Users(x) = (O \cup K) \cup T
  BY DEF F!Users
<1>2. F!Waiting(x, "kill") = In(posted, <<"kill", x>>) /\ F!Waiting(x, "set") = In(posted, <<"set", x>>)
  BY DEF F!Waiting, In
<1>3. O = IF x \in owned THEN {"owner"} ELSE {}
  OBVIOUS
<1>4. K = IF In(posted, <<"kill", x>>) THEN {"kill"} ELSE {}
  BY <1>2
<1>5. T = IF ThreadUses(x) THEN {"thread"} ELSE {}
  BY <1>2 DEF ThreadUses
<1> HIDE DEF O, K, T
<1>6. IsFiniteSet(O) /\ Cardinality(O) = Bit(x \in owned)
  BY <1>3, FS_EmptySet, FS_Singleton DEF Bit
<1>7. IsFiniteSet(O \cup K) /\ Cardinality(O \cup K) = Bit(x \in owned) + Bit(In(posted, <<"kill", x>>))
  <2>1. CASE In(posted, <<"kill", x>>)
    <3>1. K = {"kill"} /\ "kill" \notin O
      BY <2>1, <1>3, <1>4
    <3> QED
      BY <2>1, <3>1, <1>6, FS_AddElement DEF Bit
  <2>2. CASE ~In(posted, <<"kill", x>>)
    <3>1. O \cup K = O
      BY <2>2, <1>4
    <3> QED
      BY <2>2, <3>1, <1>6 DEF Bit
  <2> QED
    BY <2>1, <2>2
<1>8. Cardinality((O \cup K) \cup T) = Uses(x)
  <2>1. CASE ThreadUses(x)
    <3>1. T = {"thread"} /\ "thread" \notin O \cup K
      BY <2>1, <1>3, <1>4, <1>5
    <3>2. Cardinality((O \cup K) \cup {"thread"}) = Cardinality(O \cup K) + 1
      BY <3>1, <1>7, FS_AddElement
    <3>3. Uses(x) = Bit(x \in owned) + Bit(In(posted, <<"kill", x>>)) + 1
      BY <2>1 DEF Bit, Uses
    <3> QED
      BY <3>1, <3>2, <3>3, <1>7, Zenon
  <2>2. CASE ~ThreadUses(x)
    <3>1. (O \cup K) \cup T = O \cup K
      BY <2>2, <1>5
    <3>2. Uses(x) = Bit(x \in owned) + Bit(In(posted, <<"kill", x>>))
      BY <2>2 DEF Bit, Uses
    <3> QED
      BY <3>1, <3>2, <1>7, Zenon
  <2> QED
    BY <2>1, <2>2
<1> QED
  BY <1>1, <1>8

-----------------------------------------------------------------------------
(* The framework before the first timer.                                   *)
LEMMA FrameworkInit == F!Init => FrameworkInv
<1> SUFFICES ASSUME F!Init PROVE FrameworkInv
  OBVIOUS
<1> USE DEF F!Init
<1>1. FrameworkTypeOK
  <2>1. <<>> \in Seq(Messages) /\ F!Idle \in Stages
    BY DEF Stages
  <2>2. armed \in [Timers -> BOOLEAN]
    BY Zenon
  <2> QED
    BY <2>1, <2>2 DEF FrameworkTypeOK, F!TypeOK
<1>2. \A m : ~In(posted, m)
  BY DEF In
<1>3. \A x \in Timers : ~F!InCallback(x) /\ ~armed[x]
  BY DEF F!InCallback
<1>4. OneStage
  <2>1. Distinct(posted)
    BY DEF Distinct
  <2> QED
    BY <1>2, <1>3, <2>1 DEF OneStage
<1>5. FiredOnce /\ KilledByOwner /\ OwnedHasThread /\ Untouched
  BY <1>2, <1>3 DEF FiredOnce, KilledByOwner, OwnedHasThread, Untouched
<1>6. RefCoversUses
  BY <1>2, <1>3 DEF RefCoversUses, Held, ThreadUses
<1> QED
  BY <1>1, <1>4, <1>5, <1>6 DEF FrameworkInv

(* _setTimer: the new timer has an owner and a timer thread, two users.    *)
LEMMA CreateTimeoutInv ==
  ASSUME FrameworkInv, NEW x \in Timers \ created, NEW th \in TimerThreads, NEW onTarget \in BOOLEAN,
         F!CreateTimeout(x, th, onTarget), created' = created \cup {x}
  PROVE  FrameworkInv'
<1> USE DEF FrameworkInv, FrameworkTypeOK, F!TypeOK
<1>1. /\ thread' = [thread EXCEPT ![x] = th]
      /\ ref' = [ref EXCEPT ![x] = 2]
      /\ owned' = owned \cup {x}
      /\ armed' = [armed EXCEPT ![x] = onTarget]
      /\ posted' = IF onTarget THEN posted
                   ELSE [posted EXCEPT ![th] = Append(posted[th], <<"set", x>>)]
      /\ UNCHANGED <<state, callback, calls>>
  BY DEF F!CreateTimeout
<1>2. /\ x \notin owned /\ ~armed[x] /\ ~F!InCallback(x) /\ calls[x] = 0
      /\ ~In(posted, <<"set", x>>) /\ ~In(posted, <<"kill", x>>)
  BY DEF Untouched
<1>3. /\ posted' \in [TimerThreads -> Seq(Messages)]
      /\ \A m : In(posted', m) <=> In(posted, m) \/ (~onTarget /\ m = <<"set", x>>)
      /\ Distinct(posted')
  <2>1. posted \in [TimerThreads -> Seq(Messages)] /\ Distinct(posted)
    BY DEF OneStage
  <2>2. CASE onTarget
    BY <1>1, <2>1, <2>2, Zenon
  <2>3. CASE ~onTarget
    <3>1. <<"set", x>> \in Messages
      BY DEF Messages
    <3>2. posted' = Posted(posted, th, <<"set", x>>)
      BY <1>1, <2>3 DEF Posted
    <3> HIDE DEF FrameworkInv
    <3> QED
      BY <1>2, <2>1, <2>3, <3>1, <3>2, AppendMessage, Zenon
  <2> QED
    BY <2>2, <2>3
<1>4. \A y : F!InCallback(y)' <=> F!InCallback(y)
  BY <1>1 DEF F!InCallback
<1>5. /\ \A y \in Timers : In(posted', <<"kill", y>>) <=> In(posted, <<"kill", y>>)
      /\ \A y \in Timers : In(posted', <<"set", y>>) <=> In(posted, <<"set", y>>) \/ (~onTarget /\ y = x)
  BY <1>3
<1>6. armed'[x] = onTarget /\ \A y \in Timers \ {x} : armed'[y] = armed[y]
  BY <1>1, Zenon
<1>7. FrameworkTypeOK'
  <2>1. armed' \in [Timers -> BOOLEAN]
    BY <1>1, Zenon
  <2>2. ref' \in [Timers -> 0 .. 2] /\ owned' \subseteq Timers
    BY <1>1
  <2>3. thread' \in [Timers -> TimerThreads \cup {"none"}]
    BY <1>1, Zenon
  <2> QED
    BY <1>1, <1>3, <2>1, <2>2, <2>3
<1>8. OneStage'
  <2>1. \A y \in Timers : In(posted', <<"set", y>>) => ~armed'[y] /\ ~F!InCallback(y)
    BY <1>2, <1>5, <1>6 DEF OneStage
  <2>2. \A y \in Timers : armed'[y] => ~F!InCallback(y)
    BY <1>2, <1>6 DEF OneStage
  <2> QED
    BY <1>1, <1>3, <1>4, <2>1, <2>2 DEF OneStage
<1>9. FiredOnce'
  <2> SUFFICES ASSUME NEW y \in Timers, calls[y] = 1
               PROVE  /\ ~In(posted', <<"set", y>>)
                      /\ ~armed'[y]
                      /\ \A u \in TimerThreads : callback[u] # <<"fire", y>>
    BY <1>1 DEF FiredOnce
  <2>1. y # x
    BY <1>2
  <2> QED
    BY <2>1, <1>5, <1>6 DEF FiredOnce
<1>10. KilledByOwner' /\ OwnedHasThread'
  BY <1>1, <1>2, <1>5 DEF KilledByOwner, OwnedHasThread
<1>11. Untouched'
  BY <1>1, <1>4, <1>5, <1>6 DEF Untouched
<1>12. RefCoversUses'
  <2> SUFFICES ASSUME NEW y \in Timers
               PROVE  /\ Held(y)' \/ ThreadUses(y)' => ref'[y] >= 1
                      /\ Held(y)' /\ ThreadUses(y)' => ref'[y] >= 2
    BY DEF RefCoversUses
  <2>1. CASE y = x
    BY <1>1, <2>1
  <2>2. CASE y # x
    <3>1. (ThreadUses(y)' <=> ThreadUses(y)) /\ (Held(y)' <=> Held(y))
      BY <1>1, <1>4, <1>5, <1>6, <2>2 DEF ThreadUses, Held
    <3>2. ref'[y] = ref[y]
      BY <1>1, <2>2
    <3> QED
      BY <3>1, <3>2 DEF RefCoversUses
  <2> QED
    BY <2>1, <2>2
<1> QED
  BY <1>7, <1>8, <1>9, <1>10, <1>11, <1>12

(* _destroyTimer: the owner's reference goes to the kill message or is     *)
(* released.                                                               *)
LEMMA DestroyTimeoutInv ==
  ASSUME FrameworkInv, NEW x \in Timers, NEW onTarget \in BOOLEAN,
         F!DestroyTimeout(x, onTarget), created' = created
  PROVE  FrameworkInv'
<1> USE DEF FrameworkInv, FrameworkTypeOK, F!TypeOK
<1>1. x \in owned /\ owned' = owned \ {x} /\ UNCHANGED <<thread, callback, calls>>
  BY DEF F!DestroyTimeout
<1>2. x \in created /\ ~In(posted, <<"kill", x>>) /\ thread[x] \in TimerThreads
  BY <1>1 DEF Untouched, KilledByOwner, OwnedHasThread
<1>3. ref[x] >= 1 /\ (ThreadUses(x) => ref[x] >= 2)
  BY <1>1 DEF RefCoversUses, Held
<1>4. \A y : F!InCallback(y)' <=> F!InCallback(y)
  BY <1>1 DEF F!InCallback
<1>5. CASE /\ state' = [state EXCEPT ![x] = "CANCELED"]
           /\ posted' = [posted EXCEPT ![thread[x]] = Append(posted[thread[x]], <<"kill", x>>)]
           /\ UNCHANGED <<ref, armed>>
  <2>1. /\ posted' \in [TimerThreads -> Seq(Messages)]
        /\ \A m : In(posted', m) <=> In(posted, m) \/ m = <<"kill", x>>
        /\ Distinct(posted')
    <3>1. <<"kill", x>> \in Messages
      BY DEF Messages
    <3>2. posted \in [TimerThreads -> Seq(Messages)] /\ Distinct(posted)
      BY DEF OneStage
    <3>3. posted' = Posted(posted, thread[x], <<"kill", x>>)
      BY <1>5 DEF Posted
    <3> HIDE DEF FrameworkInv
    <3> QED
      BY <1>2, <3>1, <3>2, <3>3, AppendMessage, Zenon
  <2>2. /\ \A y \in Timers : In(posted', <<"set", y>>) <=> In(posted, <<"set", y>>)
        /\ \A y \in Timers : In(posted', <<"kill", y>>) <=> In(posted, <<"kill", y>>) \/ y = x
    BY <2>1
  <2>3. FrameworkTypeOK'
    BY <1>1, <1>5, <2>1
  <2>4. OneStage'
    BY <1>1, <1>4, <1>5, <2>1, <2>2 DEF OneStage
  <2>5. FiredOnce' /\ KilledByOwner' /\ OwnedHasThread' /\ Untouched'
    BY <1>1, <1>2, <1>4, <1>5, <2>2 DEF FiredOnce, KilledByOwner, OwnedHasThread, Untouched
  <2>6. RefCoversUses'
    <3>1. \A y \in Timers : (ThreadUses(y)' <=> ThreadUses(y)) /\ (Held(y)' <=> Held(y))
      BY <1>1, <1>4, <1>5, <2>2 DEF ThreadUses, Held
    <3> QED
      BY <1>5, <3>1 DEF RefCoversUses
  <2> QED
    BY <2>3, <2>4, <2>5, <2>6
<1>6. CASE /\ ref' = [ref EXCEPT ![x] = ref[x] - 1]
           /\ posted' = posted
           /\ armed' \in [Timers -> BOOLEAN]
           /\ \A y \in Timers : armed'[y] => armed[y]
           /\ state' \in [Timers -> {"INIT", "CANCELED", "FIRED"}]
  <2>1. FrameworkTypeOK'
    <3>1. ref' \in [Timers -> 0 .. 2]
      BY <1>3, <1>6
    <3> QED
      BY <1>1, <1>6, <3>1
  <2>2. OneStage'
    BY <1>1, <1>4, <1>6 DEF OneStage
  <2>3. FiredOnce' /\ KilledByOwner' /\ OwnedHasThread' /\ Untouched'
    BY <1>1, <1>4, <1>6 DEF FiredOnce, KilledByOwner, OwnedHasThread, Untouched
  <2>4. RefCoversUses'
    <3> SUFFICES ASSUME NEW y \in Timers
                 PROVE  /\ Held(y)' \/ ThreadUses(y)' => ref'[y] >= 1
                        /\ Held(y)' /\ ThreadUses(y)' => ref'[y] >= 2
      BY DEF RefCoversUses
    <3>1. ThreadUses(y)' => ThreadUses(y)
      BY <1>4, <1>6 DEF ThreadUses
    <3>2. CASE y = x
      <4>1. ~Held(y)'
        BY <1>1, <1>2, <1>6, <3>2 DEF Held
      <4>2. ref'[y] = ref[x] - 1 /\ ref[x] \in 0 .. 2
        BY <1>6, <3>2
      <4> QED
        BY <1>3, <3>1, <3>2, <4>1, <4>2
    <3>3. CASE y # x
      <4>1. ref'[y] = ref[y] /\ (Held(y)' <=> Held(y))
        BY <1>1, <1>6, <3>3 DEF Held
      <4> QED
        BY <3>1, <4>1 DEF RefCoversUses
    <3> QED
      BY <3>2, <3>3
  <2> QED
    BY <2>1, <2>2, <2>3, <2>4
<1>7. \/ state[x] = "INIT" /\ ~onTarget
      \/ state[x] = "INIT" /\ onTarget
      \/ state[x] # "INIT"
  OBVIOUS
<1> QED
  BY <1>5, <1>6, ZenonT(40) DEF F!DestroyTimeout

(* What a timer thread takes from its queue was there once.                *)
LEMMA TakenFromQueue ==
  ASSUME FrameworkInv, NEW th \in TimerThreads, NEW m, posted[th] # <<>>, Head(posted[th]) = m,
         posted' = [posted EXCEPT ![th] = Tail(posted[th])]
  PROVE  /\ posted' \in [TimerThreads -> Seq(Messages)]
         /\ In(posted, m)
         /\ \A n : In(posted', n) <=> In(posted, n) /\ n # m
         /\ Distinct(posted')
<1>1. posted \in [TimerThreads -> Seq(Messages)] /\ Distinct(posted)
  BY DEF FrameworkInv, FrameworkTypeOK, OneStage
<1>2. posted' = Taken(posted, th)
  BY DEF Taken
<1>3. /\ Taken(posted, th) \in [TimerThreads -> Seq(Messages)]
      /\ In(posted, Head(posted[th]))
      /\ \A n : In(Taken(posted, th), n) <=> In(posted, n) /\ n # Head(posted[th])
      /\ Distinct(Taken(posted, th))
  BY <1>1, TakeMessage, Zenon
<1> QED
  BY <1>2, <1>3, Zenon

(* _setTimerOnTargetThread: the thread's reference goes to the armed timer *)
(* or is released.                                                         *)
LEMMA SetOnTargetInv ==
  ASSUME FrameworkInv, NEW x \in Timers, NEW th \in TimerThreads,
         F!SetOnTarget(th, x), created' = created
  PROVE  FrameworkInv'
<1> USE DEF FrameworkInv, FrameworkTypeOK, F!TypeOK
<1>1. /\ posted[th] # <<>> /\ Head(posted[th]) = <<"set", x>>
      /\ posted' = [posted EXCEPT ![th] = Tail(posted[th])]
      /\ armed' = [armed EXCEPT ![x] = (state[x] = "INIT")]
      /\ ref' = [ref EXCEPT ![x] = IF state[x] = "INIT" THEN ref[x] ELSE ref[x] - 1]
      /\ UNCHANGED <<thread, state, callback, owned, calls>>
  BY DEF F!SetOnTarget
<1>2. /\ posted' \in [TimerThreads -> Seq(Messages)]
      /\ In(posted, <<"set", x>>)
      /\ \A n : In(posted', n) <=> In(posted, n) /\ n # <<"set", x>>
      /\ Distinct(posted')
  <2> HIDE DEF FrameworkInv
  <2> QED
    BY <1>1, TakenFromQueue, Zenon
<1>3. /\ ~In(posted', <<"set", x>>)
      /\ \A y \in Timers \ {x} : In(posted', <<"set", y>>) <=> In(posted, <<"set", y>>)
      /\ \A y \in Timers : In(posted', <<"kill", y>>) <=> In(posted, <<"kill", y>>)
  BY <1>2
<1>4. \A y : F!InCallback(y)' <=> F!InCallback(y)
  BY <1>1 DEF F!InCallback
<1>5. ~F!InCallback(x) /\ x \in created /\ calls[x] # 1
  BY <1>2 DEF OneStage, Untouched, FiredOnce
<1>6. /\ armed'[x] = (state[x] = "INIT")
      /\ \A y \in Timers \ {x} : armed'[y] = armed[y]
      /\ armed' \in [Timers -> BOOLEAN]
  BY <1>1, Zenon
<1>7. ref[x] >= 1 /\ (Held(x) => ref[x] >= 2)
  BY <1>2 DEF RefCoversUses, ThreadUses
<1>8. FrameworkTypeOK'
  <2>1. ref' \in [Timers -> 0 .. 2]
    BY <1>1, <1>7
  <2> QED
    BY <1>1, <1>2, <1>6, <2>1
<1>9. OneStage'
  <2>1. \A y \in Timers : In(posted', <<"set", y>>) => ~armed'[y] /\ ~F!InCallback(y)
    BY <1>3, <1>6 DEF OneStage
  <2>2. \A y \in Timers : armed'[y] => ~F!InCallback(y)
    BY <1>5, <1>6 DEF OneStage
  <2> QED
    BY <1>1, <1>2, <1>4, <2>1, <2>2 DEF OneStage
<1>10. FiredOnce' /\ KilledByOwner' /\ OwnedHasThread'
  BY <1>1, <1>3, <1>5, <1>6 DEF FiredOnce, KilledByOwner, OwnedHasThread
<1>11. Untouched'
  BY <1>1, <1>3, <1>4, <1>5, <1>6 DEF Untouched
<1>12. RefCoversUses'
  <2> SUFFICES ASSUME NEW y \in Timers
               PROVE  /\ Held(y)' \/ ThreadUses(y)' => ref'[y] >= 1
                      /\ Held(y)' /\ ThreadUses(y)' => ref'[y] >= 2
    BY DEF RefCoversUses
  <2>1. Held(y)' <=> Held(y)
    BY <1>1, <1>3 DEF Held
  <2>2. CASE y = x
    <3>1. ThreadUses(y)' => state[x] = "INIT"
      BY <1>3, <1>4, <1>5, <1>6, <2>2 DEF ThreadUses
    <3>2. ref'[y] = (IF state[x] = "INIT" THEN ref[x] ELSE ref[x] - 1) /\ ref[x] \in 0 .. 2
      BY <1>1, <2>2
    <3> QED
      BY <1>7, <2>1, <2>2, <3>1, <3>2
  <2>3. CASE y # x
    <3>1. ThreadUses(y)' <=> ThreadUses(y)
      BY <1>3, <1>4, <1>6, <2>3 DEF ThreadUses
    <3>2. ref'[y] = ref[y]
      BY <1>1, <2>3
    <3> QED
      BY <2>1, <3>1, <3>2 DEF RefCoversUses
  <2> QED
    BY <2>2, <2>3
<1> QED
  BY <1>8, <1>9, <1>10, <1>11, <1>12

(* _killTimerOnTargetThread: the message's reference is released.          *)
LEMMA KillOnTargetInv ==
  ASSUME FrameworkInv, NEW x \in Timers, NEW th \in TimerThreads,
         F!KillOnTarget(th, x), created' = created
  PROVE  FrameworkInv'
<1> USE DEF FrameworkInv, FrameworkTypeOK, F!TypeOK
<1>1. /\ posted[th] # <<>> /\ Head(posted[th]) = <<"kill", x>>
      /\ posted' = [posted EXCEPT ![th] = Tail(posted[th])]
      /\ armed' = [armed EXCEPT ![x] = FALSE]
      /\ ref' = [ref EXCEPT ![x] = ref[x] - 1]
      /\ UNCHANGED <<thread, state, callback, owned, calls>>
  BY DEF F!KillOnTarget
<1>2. /\ posted' \in [TimerThreads -> Seq(Messages)]
      /\ In(posted, <<"kill", x>>)
      /\ \A n : In(posted', n) <=> In(posted, n) /\ n # <<"kill", x>>
      /\ Distinct(posted')
  <2> HIDE DEF FrameworkInv
  <2> QED
    BY <1>1, TakenFromQueue, Zenon
<1>3. /\ ~In(posted', <<"kill", x>>)
      /\ \A y \in Timers \ {x} : In(posted', <<"kill", y>>) <=> In(posted, <<"kill", y>>)
      /\ \A y \in Timers : In(posted', <<"set", y>>) <=> In(posted, <<"set", y>>)
  BY <1>2
<1>4. \A y : F!InCallback(y)' <=> F!InCallback(y)
  BY <1>1 DEF F!InCallback
<1>5. x \in created /\ x \notin owned
  BY <1>2 DEF Untouched, KilledByOwner
<1>6. /\ ~armed'[x]
      /\ \A y \in Timers \ {x} : armed'[y] = armed[y]
      /\ armed' \in [Timers -> BOOLEAN]
  BY <1>1, Zenon
<1>7. ref[x] >= 1 /\ (ThreadUses(x) => ref[x] >= 2)
  BY <1>2 DEF RefCoversUses, Held
<1>8. FrameworkTypeOK'
  <2>1. ref' \in [Timers -> 0 .. 2]
    BY <1>1, <1>7
  <2> QED
    BY <1>1, <1>2, <1>6, <2>1
<1>9. OneStage'
  <2>1. \A y \in Timers : In(posted', <<"set", y>>) => ~armed'[y] /\ ~F!InCallback(y)
    BY <1>3, <1>6 DEF OneStage
  <2>2. \A y \in Timers : armed'[y] => ~F!InCallback(y)
    BY <1>6 DEF OneStage
  <2> QED
    BY <1>1, <1>2, <1>4, <2>1, <2>2 DEF OneStage
<1>10. FiredOnce' /\ KilledByOwner' /\ OwnedHasThread'
  BY <1>1, <1>3, <1>6 DEF FiredOnce, KilledByOwner, OwnedHasThread
<1>11. Untouched'
  BY <1>1, <1>3, <1>4, <1>5, <1>6 DEF Untouched
<1>12. RefCoversUses'
  <2> SUFFICES ASSUME NEW y \in Timers
               PROVE  /\ Held(y)' \/ ThreadUses(y)' => ref'[y] >= 1
                      /\ Held(y)' /\ ThreadUses(y)' => ref'[y] >= 2
    BY DEF RefCoversUses
  <2>1. ThreadUses(y)' => ThreadUses(y)
    BY <1>3, <1>4, <1>6 DEF ThreadUses
  <2>2. CASE y = x
    <3>1. ~Held(y)'
      BY <1>1, <1>3, <1>5, <2>2 DEF Held
    <3>2. ref'[y] = ref[x] - 1 /\ ref[x] \in 0 .. 2
      BY <1>1, <2>2
    <3> QED
      BY <1>7, <2>1, <2>2, <3>1, <3>2
  <2>3. CASE y # x
    <3>1. ref'[y] = ref[y] /\ (Held(y)' <=> Held(y))
      BY <1>1, <1>3, <2>3 DEF Held
    <3> QED
      BY <2>1, <3>1 DEF RefCoversUses
  <2> QED
    BY <2>2, <2>3
<1> QED
  BY <1>8, <1>9, <1>10, <1>11, <1>12

(* The first half of _baseTimerCallback: the armed timer becomes a         *)
(* callback in progress.                                                   *)
LEMMA CallbackBeginInv ==
  ASSUME FrameworkInv, NEW x \in Timers, NEW th \in TimerThreads,
         F!CallbackBegin(th, x), created' = created
  PROVE  FrameworkInv'
<1> USE DEF FrameworkInv, FrameworkTypeOK, F!TypeOK
<1> DEFINE stage == IF state[x] = "INIT" THEN <<"fire", x>> ELSE <<"release", x>>
<1>1. /\ callback[th] = F!Idle
      /\ armed[x]
      /\ armed' = [armed EXCEPT ![x] = FALSE]
      /\ callback' = [callback EXCEPT ![th] = stage]
      /\ UNCHANGED <<thread, state, ref, posted, owned, calls>>
  BY DEF F!CallbackBegin
<1>2. stage \in Stages /\ stage # F!Idle /\ stage[2] = x /\ (\A y \in Timers : stage = <<"fire", y>> => y = x)
  BY DEF Stages, F!Idle
<1> HIDE DEF stage
<1>3. /\ ~armed'[x]
      /\ \A y \in Timers \ {x} : armed'[y] = armed[y]
      /\ armed' \in [Timers -> BOOLEAN]
  BY <1>1, Zenon
<1>4. callback'[th] = stage /\ \A u \in TimerThreads \ {th} : callback'[u] = callback[u]
  BY <1>1
<1>5. \A y \in Timers : F!InCallback(y)' <=> F!InCallback(y) \/ y = x
  BY <1>1, <1>2, <1>4 DEF F!InCallback, F!Idle
<1>6. /\ ~F!InCallback(x) /\ ~In(posted, <<"set", x>>) /\ calls[x] # 1 /\ x \in created
  BY <1>1 DEF OneStage, FiredOnce, Untouched
<1>7. FrameworkTypeOK'
  BY <1>1, <1>2, <1>3
<1>8. OneStage'
  <2>1. \A a, b \in TimerThreads :
          callback'[a] # F!Idle /\ callback'[b] # F!Idle /\ callback'[a][2] = callback'[b][2] => a = b
    <3>1. \A u \in TimerThreads \ {th} : callback[u] # F!Idle => callback[u][2] # x
      BY <1>6 DEF F!InCallback
    <3> QED
      BY <1>2, <1>4, <3>1, SMTT(40) DEF OneStage
  <2>2. \A y \in Timers : In(posted, <<"set", y>>) => ~armed'[y] /\ ~F!InCallback(y)'
    BY <1>3, <1>5, <1>6 DEF OneStage
  <2>3. \A y \in Timers : armed'[y] => ~F!InCallback(y)'
    BY <1>3, <1>5 DEF OneStage
  <2> QED
    BY <1>1, <2>1, <2>2, <2>3 DEF OneStage, F!Idle
<1>9. FiredOnce'
  BY <1>1, <1>2, <1>3, <1>4, <1>6, SMTT(60) DEF FiredOnce
<1>10. KilledByOwner' /\ OwnedHasThread'
  BY <1>1 DEF KilledByOwner, OwnedHasThread
<1>11. Untouched'
  BY <1>1, <1>3, <1>5, <1>6 DEF Untouched
<1>12. RefCoversUses'
  <2>1. \A y \in Timers : ThreadUses(y)' => ThreadUses(y)
    BY <1>1, <1>3, <1>5 DEF ThreadUses
  <2>2. \A y \in Timers : Held(y)' <=> Held(y)
    BY <1>1 DEF Held
  <2> QED
    BY <1>1, <2>1, <2>2 DEF RefCoversUses
<1> QED
  BY <1>7, <1>8, <1>9, <1>10, <1>11, <1>12

(* Its second half: FIRED is stored, whatever _destroyTimer stored since,  *)
(* and onTimeout is called for the first time.                             *)
LEMMA CallbackFireInv ==
  ASSUME FrameworkInv, NEW x \in Timers, NEW th \in TimerThreads,
         F!CallbackFire(th, x), created' = created
  PROVE  FrameworkInv'
<1> USE DEF FrameworkInv, FrameworkTypeOK, F!TypeOK
<1>1. /\ callback[th] = <<"fire", x>>
      /\ state' = [state EXCEPT ![x] = "FIRED"]
      /\ calls' = [calls EXCEPT ![x] = calls[x] + 1]
      /\ callback' = [callback EXCEPT ![th] = <<"calling", x>>]
      /\ UNCHANGED <<thread, armed, ref, posted, owned>>
  BY DEF F!CallbackFire
<1>2. /\ <<"calling", x>> \in Stages
      /\ <<"calling", x>> # F!Idle /\ <<"fire", x>> # F!Idle
      /\ <<"calling", x>>[2] = x /\ <<"fire", x>>[2] = x
      /\ \A y \in Timers : <<"calling", x>> # <<"fire", y>>
  BY DEF Stages, F!Idle
<1>3. callback'[th] = <<"calling", x>> /\ \A u \in TimerThreads \ {th} : callback'[u] = callback[u]
  BY <1>1
<1>4. \A y : F!InCallback(y)' <=> F!InCallback(y)
  BY <1>1, <1>2, <1>3 DEF F!InCallback, F!Idle
<1>5. F!InCallback(x)
  BY <1>1, <1>2 DEF F!InCallback
<1>6. calls[x] = 0 /\ ~In(posted, <<"set", x>>) /\ ~armed[x] /\ x \in created
  <2>1. ~In(posted, <<"set", x>>) /\ ~armed[x] /\ x \in created
    BY <1>5 DEF OneStage, Untouched
  <2>2. calls[x] # 1 /\ calls[x] \in 0 .. 1
    BY <1>1 DEF FiredOnce
  <2> QED
    BY <2>1, <2>2
<1>7. FrameworkTypeOK'
  <2>1. calls' \in [Timers -> 0 .. 1]
    BY <1>1, <1>6
  <2>2. state' \in [Timers -> {"INIT", "CANCELED", "FIRED"}]
    BY <1>1
  <2> QED
    BY <1>1, <1>2, <2>1, <2>2
<1>8. OneStage'
  <2>1. \A a, b \in TimerThreads :
          callback'[a] # F!Idle /\ callback'[b] # F!Idle /\ callback'[a][2] = callback'[b][2] => a = b
    BY <1>1, <1>2, <1>3 DEF OneStage
  <2> QED
    BY <1>1, <1>4, <2>1 DEF OneStage, F!Idle
<1>9. FiredOnce'
  <2> SUFFICES ASSUME NEW y \in Timers, calls'[y] = 1
               PROVE  /\ ~In(posted, <<"set", y>>)
                      /\ ~armed[y]
                      /\ \A u \in TimerThreads : callback'[u] # <<"fire", y>>
    BY <1>1 DEF FiredOnce
  <2>1. CASE y = x
    <3>1. \A u \in TimerThreads \ {th} : callback[u] # <<"fire", x>>
      BY <1>1, <1>2 DEF OneStage
    <3> QED
      BY <1>2, <1>3, <1>6, <2>1, <3>1
  <2>2. CASE y # x
    BY <1>1, <1>2, <1>3, <2>2 DEF FiredOnce
  <2> QED
    BY <2>1, <2>2
<1>10. KilledByOwner' /\ OwnedHasThread'
  BY <1>1 DEF KilledByOwner, OwnedHasThread
<1>11. Untouched'
  BY <1>1, <1>4, <1>6 DEF Untouched
<1>12. RefCoversUses'
  BY <1>1, <1>4 DEF RefCoversUses, ThreadUses, Held
<1> QED
  BY <1>7, <1>8, <1>9, <1>10, <1>11, <1>12

(* The end of _baseTimerCallback: the thread's reference is released, and  *)
(* the thread has no other use of the timer.                               *)
LEMMA CallbackEndInv ==
  ASSUME FrameworkInv, NEW x \in Timers, NEW th \in TimerThreads,
         F!CallbackEnd(th, x), created' = created
  PROVE  FrameworkInv'
<1> USE DEF FrameworkInv, FrameworkTypeOK, F!TypeOK
<1>1. /\ callback[th] \in {<<"calling", x>>, <<"release", x>>}
      /\ ref' = [ref EXCEPT ![x] = ref[x] - 1]
      /\ callback' = [callback EXCEPT ![th] = F!Idle]
      /\ UNCHANGED <<thread, state, armed, posted, owned, calls>>
  BY DEF F!CallbackEnd, F!Idle
<1>2. /\ F!Idle \in Stages
      /\ callback[th] # F!Idle /\ callback[th][2] = x
      /\ \A y \in Timers : F!Idle # <<"fire", y>>
  BY <1>1 DEF Stages, F!Idle
<1>3. callback'[th] = F!Idle /\ \A u \in TimerThreads \ {th} : callback'[u] = callback[u]
  BY <1>1
<1>4. \A u \in TimerThreads \ {th} : callback[u] # F!Idle => callback[u][2] # x
  BY <1>2 DEF OneStage
<1>5. \A y : F!InCallback(y)' <=> F!InCallback(y) /\ y # x
  BY <1>2, <1>3, <1>4 DEF F!InCallback, F!Idle
<1>6. F!InCallback(x)
  BY <1>2 DEF F!InCallback
<1>7. ~In(posted, <<"set", x>>) /\ ~armed[x] /\ x \in created
  BY <1>6 DEF OneStage, Untouched
<1>8. ref[x] >= 1 /\ (Held(x) => ref[x] >= 2)
  BY <1>6 DEF RefCoversUses, ThreadUses
<1>9. FrameworkTypeOK'
  <2>1. ref' \in [Timers -> 0 .. 2]
    BY <1>1, <1>8
  <2> QED
    BY <1>1, <1>2, <2>1
<1>10. OneStage'
  <2>1. \A a, b \in TimerThreads :
          callback'[a] # F!Idle /\ callback'[b] # F!Idle /\ callback'[a][2] = callback'[b][2] => a = b
    BY <1>3 DEF OneStage
  <2> QED
    BY <1>1, <1>5, <2>1 DEF OneStage, F!Idle
<1>11. FiredOnce'
  BY <1>1, <1>2, <1>3 DEF FiredOnce
<1>12. KilledByOwner' /\ OwnedHasThread'
  BY <1>1 DEF KilledByOwner, OwnedHasThread
<1>13. Untouched'
  BY <1>1, <1>5 DEF Untouched
<1>14. RefCoversUses'
  <2> SUFFICES ASSUME NEW y \in Timers
               PROVE  /\ Held(y)' \/ ThreadUses(y)' => ref'[y] >= 1
                      /\ Held(y)' /\ ThreadUses(y)' => ref'[y] >= 2
    BY DEF RefCoversUses
  <2>1. Held(y)' <=> Held(y)
    BY <1>1 DEF Held
  <2>2. CASE y = x
    <3>1. ~ThreadUses(y)'
      BY <1>1, <1>5, <1>7, <2>2 DEF ThreadUses
    <3>2. ref'[y] = ref[x] - 1 /\ ref[x] \in 0 .. 2
      BY <1>1, <2>2
    <3> QED
      BY <1>8, <2>1, <2>2, <3>1, <3>2
  <2>3. CASE y # x
    <3>1. ref'[y] = ref[y] /\ (ThreadUses(y)' => ThreadUses(y))
      BY <1>1, <1>5, <2>3 DEF ThreadUses
    <3> QED
      BY <2>1, <3>1 DEF RefCoversUses
  <2> QED
    BY <2>2, <2>3
<1> QED
  BY <1>9, <1>10, <1>11, <1>12, <1>13, <1>14

-----------------------------------------------------------------------------
(* The lock sections of the helper leave the framework alone.              *)
LEMMA LockSectionInv ==
  ASSUME SeqFits, StackInv, NEW t \in Threads, LockSection(t)
  PROVE  StackInv'
<1>1. HelperInv'
  BY StopInv, StartInv, StoreInv DEF StackInv, LockSection
<1>2. created' = created /\ destroyed' = destroyed
  BY DEF LockSection, Stop, Start, Store
<1>3. UNCHANGED <<thread, state, armed, ref, posted, callback, owned, calls>>
  BY DEF LockSection, frameworkVars
<1>4. FrameworkInv'
  BY <1>2, <1>3 DEF StackInv, FrameworkInv, FrameworkTypeOK, F!TypeOK, OneStage, F!InCallback, F!Idle,
                    FiredOnce, KilledByOwner, OwnedHasThread, Untouched, RefCoversUses, Held, ThreadUses
<1> QED
  BY <1>1, <1>2, <1>3, <1>4 DEF StackInv

(* Destroying the timer a thread holds: it is owned, as it is created and  *)
(* not destroyed, and no other thread will destroy it.                     *)
LEMMA DestroyHeldInv ==
  ASSUME StackInv, NEW t \in Threads, DestroyOld(t) \/ Drop(t), DestroyHeld(t)
  PROVE  StackInv'
<1>1. HelperInv'
  BY DestroyOldInv, DropInv DEF StackInv
<1>2. created' = created
  BY DEF DestroyOld, Drop
<1>3. destroyed' = IF mine[t] = None THEN destroyed ELSE destroyed \cup {mine[t]}
  BY DEF DestroyOld, Drop, StackInv, HelperInv, HeldBySteps
<1>4. CASE mine[t] = None
  <2>1. UNCHANGED <<thread, state, armed, ref, posted, callback, owned, calls>>
    BY <1>4 DEF DestroyHeld, frameworkVars
  <2>2. FrameworkInv'
    BY <1>2, <2>1 DEF StackInv, FrameworkInv, FrameworkTypeOK, F!TypeOK, OneStage, F!InCallback, F!Idle,
                      FiredOnce, KilledByOwner, OwnedHasThread, Untouched, RefCoversUses, Held, ThreadUses
  <2> QED
    BY <1>1, <1>2, <1>3, <1>4, <2>1, <2>2 DEF StackInv
<1>5. CASE mine[t] # None
  <2>1. mine[t] \in Timers
    BY <1>5 DEF StackInv, HelperInv, TypeOK
  <2>2. F!DestroyTimeout(mine[t], thread[mine[t]] = t)
    BY <1>5 DEF DestroyHeld
  <2>3. FrameworkInv'
    BY <1>2, <2>1, <2>2, DestroyTimeoutInv DEF StackInv
  <2>4. owned' = owned \ {mine[t]}
    BY <2>2 DEF F!DestroyTimeout
  <2> QED
    BY <1>1, <1>2, <1>3, <1>5, <2>3, <2>4 DEF StackInv
<1> QED
  BY <1>4, <1>5

(* The calls of the framework.                                             *)
LEMMA SystemCallInv ==
  ASSUME StackInv, NEW t \in Threads, SystemCall(t)
  PROVE  StackInv'
<1>1. CASE Create(t) /\ \E th \in TimerThreads : F!CreateTimeout(mine'[t], th, th = t)
  <2>1. HelperInv'
    BY <1>1, CreateInv DEF StackInv
  <2>2. PICK x \in Timers \ created : created' = created \cup {x} /\ mine' = [mine EXCEPT ![t] = x]
    BY <1>1 DEF Create
  <2>3. mine'[t] = x /\ destroyed' = destroyed
    BY <1>1, <2>2 DEF Create, StackInv, HelperInv, TypeOK
  <2>4. PICK th \in TimerThreads : F!CreateTimeout(x, th, th = t)
    BY <1>1, <2>3
  <2>5. FrameworkInv'
    BY <2>2, <2>4, CreateTimeoutInv DEF StackInv
  <2>6. owned' = owned \cup {x}
    BY <2>4 DEF F!CreateTimeout
  <2>7. x \notin destroyed
    BY <2>2 DEF StackInv, HelperInv, KnownIsAlive
  <2> QED
    BY <2>1, <2>2, <2>3, <2>5, <2>6, <2>7 DEF StackInv
<1>2. CASE (DestroyOld(t) \/ Drop(t)) /\ DestroyHeld(t)
  BY <1>2, DestroyHeldInv
<1> QED
  BY <1>1, <1>2 DEF SystemCall

(* A timer thread on its own.                                              *)
LEMMA TimerLoopInv ==
  ASSUME StackInv, NEW th \in TimerThreads, TimerLoop(th)
  PROVE  StackInv'
<1>1. UNCHANGED <<isStartPending, activeTimeSeq, timerInstance, pc, restart, curActiveSeq, mine,
                  created, destroyed, stops>>
  BY DEF TimerLoop, vars, helperVars
<1>2. HelperInv'
  BY <1>1 DEF StackInv, HelperInv, TypeOK, SeqCountsStops, HeldBySteps, KnownIsAlive, CurrentIsPending,
              Current, TimersAccounted, OneCurrentStart
<1>3. PICK x \in Timers : F!TargetStep(th, x)
  BY DEF TimerLoop
<1>4. FrameworkInv'
  BY <1>1, <1>3, SetOnTargetInv, CallbackBeginInv, CallbackFireInv, CallbackEndInv, KillOnTargetInv
     DEF StackInv, F!TargetStep
<1>5. owned' = owned
  BY <1>3 DEF F!TargetStep, F!SetOnTarget, F!CallbackBegin, F!CallbackFire, F!CallbackEnd, F!KillOnTarget
<1> QED
  BY <1>1, <1>2, <1>4, <1>5 DEF StackInv

(* The invariant of helper and framework together is inductive.            *)
THEOREM StackInvariance == ASSUME SeqFits PROVE StackSpec => []StackInv
<1>1. StackInit => StackInv
  <2>1. StackInit => owned = created \ destroyed
    BY DEF StackInit, Init, F!Init
  <2> QED
    BY <2>1, HelperInit, FrameworkInit DEF StackInit, StackInv
<1>2. StackInv /\ [StackNext]_stackVars => StackInv'
  <2> SUFFICES ASSUME StackInv, [StackNext]_stackVars PROVE StackInv'
    OBVIOUS
  <2>1. CASE StackNext
    BY <2>1, LockSectionInv, SystemCallInv, TimerLoopInv DEF StackNext
  <2>2. CASE UNCHANGED stackVars
    <3>1. UNCHANGED <<isStartPending, activeTimeSeq, timerInstance, pc, restart, curActiveSeq, mine,
                      created, destroyed, stops, thread, state, armed, ref, posted, callback, owned, calls>>
      BY <2>2 DEF stackVars, vars, helperVars, frameworkVars
    <3>2. HelperInv'
      BY <3>1 DEF StackInv, HelperInv, TypeOK, SeqCountsStops, HeldBySteps, KnownIsAlive,
                  CurrentIsPending, Current, TimersAccounted, OneCurrentStart
    <3>3. FrameworkInv'
      BY <3>1 DEF StackInv, FrameworkInv, FrameworkTypeOK, F!TypeOK, OneStage, F!InCallback, F!Idle,
                  FiredOnce, KilledByOwner, OwnedHasThread, Untouched, RefCoversUses, Held, ThreadUses
    <3> QED
      BY <3>1, <3>2, <3>3 DEF StackInv
  <2> QED
    BY <2>1, <2>2
<1> QED
  BY <1>1, <1>2, PTL DEF StackSpec

(* No system timer leaks from the helper and none is destroyed twice, for  *)
(* any number of threads that Start, Stop and Restart it at the same time. *)
THEOREM NoTimerLeaks == ASSUME SeqFits PROVE StackSpec => []TimersAccounted
<1>1. StackInv => TimersAccounted
  BY DEF StackInv, HelperInv
<1> QED
  BY <1>1, StackInvariance, PTL

(* A pending start belongs to exactly one thread that will clear it, and   *)
(* two threads never both store the timer they created.                    *)
THEOREM StartIsUnique == ASSUME SeqFits PROVE StackSpec => []OneCurrentStart
<1>1. StackInv => OneCurrentStart
  BY DEF StackInv, HelperInv
<1> QED
  BY <1>1, StackInvariance, PTL

(* The sequence number never comes back to a value in use, the reference   *)
(* count stays in 0 .. 2 and onTimeout is called at most once per timer.   *)
THEOREM StackTypeCorrect == ASSUME SeqFits PROVE StackSpec => []StackTypeOK
<1>1. StackInv => StackTypeOK
  BY DEF StackInv, HelperInv, FrameworkInv, FrameworkTypeOK, StackTypeOK
<1> QED
  BY <1>1, StackInvariance, PTL

(* _destroyTimer is called once per timer, and whoever touches a timer     *)
(* object holds a reference on it: the owner, the kill message, and the    *)
(* timer thread from the set message to the end of the callback.           *)
THEOREM TimerObjectsCovered == ASSUME SeqFits PROVE StackSpec => []OwnedAndCovered
<1>1. StackInv => OwnedAndCovered
  <2> SUFFICES ASSUME StackInv PROVE F!RefCoversUsers
    BY DEF OwnedAndCovered, StackInv
  <2>0. \A S : F!Cardinality(S) = Cardinality(S)
    BY DEF F!Cardinality, Cardinality
  <2> SUFFICES ASSUME NEW x \in Timers PROVE ref[x] >= Cardinality(F!Users(x))
    BY <2>0 DEF F!RefCoversUsers
  <2>1. ref[x] \in 0 .. 2
    BY DEF StackInv, FrameworkInv, FrameworkTypeOK, F!TypeOK
  <2>2. ~(x \in owned /\ In(posted, <<"kill", x>>))
    BY DEF StackInv, FrameworkInv, KilledByOwner
  <2>3. /\ Held(x) \/ ThreadUses(x) => ref[x] >= 1
        /\ Held(x) /\ ThreadUses(x) => ref[x] >= 2
    BY DEF StackInv, FrameworkInv, RefCoversUses
  <2>4. ref[x] >= Uses(x)
    <3>1. CASE ThreadUses(x)
      BY <2>1, <2>2, <2>3, <3>1 DEF Uses, Held, Bit
    <3>2. CASE ~ThreadUses(x)
      BY <2>1, <2>2, <2>3, <3>2 DEF Uses, Held, Bit
    <3> QED
      BY <3>1, <3>2
  <2> QED
    BY <2>4, UsersCounted
<1> QED
  BY <1>1, StackInvariance, PTL

=============================================================================
