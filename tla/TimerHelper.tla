----------------------------- MODULE TimerHelper -----------------------------
(****************************************************************************)
(* Bdt_TimerHelper (TimerHelper.imp.inl): one restartable timer shared by   *)
(* several threads.  Start and Stop drop the lock while they create and     *)
(* destroy the system timer, so each is several steps; activeTimeSeq tells  *)
(* a Start that came back from creating its timer whether it was stopped    *)
(* meanwhile.                                                               *)
(****************************************************************************)
EXTENDS Integers, FiniteSets

CONSTANTS
    Threads,     \* dispatch and timer threads and the application's own
    Timers,      \* bound: the system timers that can be created
    SeqModulus,  \* activeTimeSeq is a 31 bit field: 2^31 in the code
    MaxStops,    \* bound: calls of Stop
    None         \* NULL

ASSUME TimerHelperAssumption ==
    /\ SeqModulus \in Nat \ {0, 1}
    /\ MaxStops \in Nat
    /\ None \notin Timers

VARIABLES
    isStartPending, activeTimeSeq, timerInstance,  \* the helper, under lock
    pc,            \* per thread: its next step
    restart,       \* per thread: TRUE while Restart is in its Stop
    curActiveSeq,  \* per thread: the sequence number Start saw
    mine,          \* per thread: newTimer of Start or oldTimer of Stop
    created, destroyed,
    stops

helperVars == <<isStartPending, activeTimeSeq, timerInstance>>
vars == <<helperVars, pc, restart, curActiveSeq, mine, created, destroyed, stops>>

(* Bdt_TimerHelperInit *)
Init ==
    /\ isStartPending = FALSE
    /\ activeTimeSeq = 1
    /\ timerInstance = None
    /\ pc = [t \in Threads |-> "idle"]
    /\ restart = [t \in Threads |-> FALSE]
    /\ curActiveSeq = [t \in Threads |-> 0]
    /\ mine = [t \in Threads |-> None]
    /\ created = {}
    /\ destroyed = {}
    /\ stops = 0

(* Bound: a Start or Restart begins only while a timer is left for it.     *)
TimerLeft ==
    LET reserved == {t \in Threads : \/ pc[t] \in {"start", "create"}
                                     \/ pc[t] = "stopped" /\ restart[t]}
    IN  Cardinality(reserved) < Cardinality(Timers \ created)

\* Mutant of Stop: a pending start is not cleared.
StopKeepsPending(t, again) ==
    /\ pc[t] = "idle"
    /\ stops < MaxStops /\ (again => TimerLeft)
    /\ stops' = stops + 1
    /\ activeTimeSeq' = (activeTimeSeq + 1) % SeqModulus
    /\ mine' = [mine EXCEPT ![t] = timerInstance]
    /\ timerInstance' = None
    /\ restart' = [restart EXCEPT ![t] = again]
    /\ pc' = [pc EXCEPT ![t] = "stopped"]
    /\ UNCHANGED <<isStartPending, curActiveSeq, created, destroyed>>

(* Bdt_TimerHelperStop under the lock; Bdt_TimerHelperRestart is a Stop    *)
(* followed by a Start.                                                    *)
Stop(t, again) ==
    /\ pc[t] = "idle"
    /\ stops < MaxStops /\ (again => TimerLeft)
    /\ stops' = stops + 1
    /\ activeTimeSeq' = (activeTimeSeq + 1) % SeqModulus
    /\ mine' = [mine EXCEPT ![t] = timerInstance]
    /\ timerInstance' = None
    /\ isStartPending' = FALSE
    /\ restart' = [restart EXCEPT ![t] = again]
    /\ pc' = [pc EXCEPT ![t] = "stopped"]
    /\ UNCHANGED <<curActiveSeq, created, destroyed>>

(* The end of Stop, outside the lock: BdtDestroyTimeout on the old timer.  *)
DestroyOld(t) ==
    /\ pc[t] = "stopped"
    /\ destroyed' = IF mine[t] = None THEN destroyed ELSE destroyed \cup {mine[t]}
    /\ mine' = [mine EXCEPT ![t] = None]
    /\ pc' = [pc EXCEPT ![t] = IF restart[t] THEN "start" ELSE "idle"]
    /\ UNCHANGED <<helperVars, restart, curActiveSeq, created, stops>>

(* Bdt_TimerHelperStart, first lock section.  Sequence number 0 stands for *)
(* a refused start.                                                        *)
Start(t) ==
    /\ pc[t] = "start" \/ (pc[t] = "idle" /\ TimerLeft)
    /\ IF timerInstance = None /\ ~isStartPending
       THEN /\ isStartPending' = TRUE
            /\ curActiveSeq' = [curActiveSeq EXCEPT ![t] = activeTimeSeq]
       ELSE /\ curActiveSeq' = [curActiveSeq EXCEPT ![t] = 0]
            /\ UNCHANGED isStartPending
    /\ pc' = [pc EXCEPT ![t] = IF curActiveSeq'[t] = 0 THEN "idle" ELSE "create"]
    /\ UNCHANGED <<activeTimeSeq, timerInstance, restart, mine, created, destroyed, stops>>

(* BdtCreateTimeout, outside the lock.                                     *)
Create(t) ==
    /\ pc[t] = "create"
    /\ \E timer \in Timers \ created :
        /\ created' = created \cup {timer}
        /\ mine' = [mine EXCEPT ![t] = timer]
    /\ pc' = [pc EXCEPT ![t] = "store"]
    /\ UNCHANGED <<helperVars, restart, curActiveSeq, destroyed, stops>>

(* Second lock section of Start: keep the timer unless a Stop came.        *)
Store(t) ==
    /\ pc[t] = "store"
    /\ IF activeTimeSeq = curActiveSeq[t]
       THEN /\ timerInstance' = mine[t]
            /\ isStartPending' = FALSE
            /\ mine' = [mine EXCEPT ![t] = None]
            /\ pc' = [pc EXCEPT ![t] = "idle"]
       ELSE /\ pc' = [pc EXCEPT ![t] = "drop"]
            /\ UNCHANGED <<timerInstance, isStartPending, mine>>
    /\ UNCHANGED <<activeTimeSeq, restart, curActiveSeq, created, destroyed, stops>>

\* Mutant of Drop: the new timer is not destroyed.
DropLeaks(t) ==
    /\ pc[t] = "drop"
    /\ mine' = [mine EXCEPT ![t] = None]
    /\ pc' = [pc EXCEPT ![t] = "idle"]
    /\ UNCHANGED <<helperVars, restart, curActiveSeq, created, destroyed, stops>>

(* The end of a Start that was stopped: destroy the new timer.             *)
Drop(t) ==
    /\ pc[t] = "drop"
    /\ destroyed' = destroyed \cup {mine[t]}
    /\ mine' = [mine EXCEPT ![t] = None]
    /\ pc' = [pc EXCEPT ![t] = "idle"]
    /\ UNCHANGED <<helperVars, restart, curActiveSeq, created, stops>>

Next == \E t \in Threads :
    \/ \E again \in BOOLEAN : Stop(t, again)
    \/ DestroyOld(t)
    \/ Start(t)
    \/ Create(t)
    \/ Store(t)
    \/ Drop(t)

Spec == Init /\ [][Next]_vars

-----------------------------------------------------------------------------
(* Properties                                                              *)

TypeOK ==
    /\ isStartPending \in BOOLEAN
    /\ activeTimeSeq \in 0 .. (SeqModulus - 1)
    /\ timerInstance \in Timers \cup {None}
    /\ pc \in [Threads -> {"idle", "stopped", "start", "create", "store", "drop"}]
    /\ restart \in [Threads -> BOOLEAN]
    /\ curActiveSeq \in [Threads -> 0 .. (SeqModulus - 1)]
    /\ mine \in [Threads -> Timers \cup {None}]
    /\ created \subseteq Timers
    /\ destroyed \subseteq Timers
    /\ stops \in 0 .. MaxStops

(* No system timer leaks and none is destroyed twice, however Start, Stop  *)
(* and Restart overlap: a created timer that is not destroyed is known to  *)
(* the helper or to one thread, and to nobody else; a destroyed one to     *)
(* nobody.  (_destroyTimer may be called only once for a timer.)           *)
TimersAccounted ==
    /\ \A x \in created \ destroyed :
         x = timerInstance \/ \E t \in Threads : mine[t] = x
    /\ \A t \in Threads : mine[t] # None => mine[t] # timerInstance
    /\ \A t, u \in Threads : mine[t] # None /\ mine[t] = mine[u] => t = u
    /\ \A x \in destroyed : x # timerInstance /\ \A t \in Threads : mine[t] # x

(* A pending start is always some thread's own: it cannot be left set with *)
(* nobody to clear it, which would refuse every later Start (a Start that  *)
(* finds it set, as the second of two racing Restarts does, reaches        *)
(* BLOG_CHECK(false) and leaves it alone).  And two starts never both come *)
(* back to store their timer: the second would overwrite the first, which  *)
(* nobody could stop any more.                                             *)
OneCurrentStart ==
    LET current(t) == pc[t] \in {"create", "store"} /\ curActiveSeq[t] = activeTimeSeq IN
    /\ isStartPending => \E t \in Threads : current(t)
    /\ \A t, u \in Threads : current(t) /\ current(u) => t = u /\ timerInstance = None

=============================================================================
