----------------------------- MODULE TimerStack -----------------------------
(****************************************************************************)
(* Bdt_TimerHelper on the framework's timers: TimerHelper composed with     *)
(* FrameworkTimer.  The helper's BdtCreateTimeout and BdtDestroyTimeout are *)
(* the framework's _createTimeout and _destroyTimer, and a timer thread may *)
(* call the helper from inside onTimeout, as the connections' handlers do.  *)
(****************************************************************************)
EXTENDS TimerHelper, Sequences

CONSTANT TimerThreads   \* the threads of the timer pool

ASSUME TimerStackAssumption == TimerThreads \subseteq Threads

VARIABLES thread, state, armed, ref, posted, callback, owned, calls

frameworkVars == <<thread, state, armed, ref, posted, callback, owned, calls>>
stackVars == <<vars, frameworkVars>>

F == INSTANCE FrameworkTimer WITH pc <- callback

StackInit == Init /\ F!Init

(* A timer thread runs the helper's code only inside onTimeout.            *)
MayCall(t) == t \in TimerThreads => callback[t][1] = "calling"

(* The lock sections of the helper touch no system timer.                  *)
LockSection(t) ==
    /\ MayCall(t)
    /\ \/ \E again \in BOOLEAN : Stop(t, again)
       \/ Start(t)
       \/ Store(t)
    /\ UNCHANGED frameworkVars

(* BdtDestroyTimeout on the timer t holds; NULL is not destroyed.          *)
DestroyHeld(t) ==
    IF mine[t] = None THEN UNCHANGED frameworkVars
    ELSE F!DestroyTimeout(mine[t], thread[mine[t]] = t)

SystemCall(t) ==
    /\ MayCall(t)
    /\ \/ Create(t) /\ \E th \in TimerThreads : F!CreateTimeout(mine'[t], th, th = t)
       \/ DestroyOld(t) /\ DestroyHeld(t)
       \/ Drop(t) /\ DestroyHeld(t)

(* A timer thread on its own: its loop goes on when onTimeout returned.    *)
TimerLoop(th) ==
    /\ pc[th] = "idle"
    /\ \E x \in Timers : F!TargetStep(th, x)
    /\ UNCHANGED vars

StackNext ==
    \/ \E t \in Threads : LockSection(t) \/ SystemCall(t)
    \/ \E th \in TimerThreads : TimerLoop(th)

(* A thread inside Start or Stop comes to its end, and the timer threads   *)
(* run their messages and the timers that stay armed.                      *)
Fairness ==
    /\ \A t \in Threads : WF_stackVars(pc[t] # "idle" /\ (LockSection(t) \/ SystemCall(t)))
    /\ \A th \in TimerThreads : WF_stackVars(TimerLoop(th))
    /\ \A x \in Timers :
         SF_stackVars(\E th \in TimerThreads : F!CallbackBegin(th, x) /\ UNCHANGED vars)

StackSpec == StackInit /\ [][StackNext]_stackVars /\ Fairness

-----------------------------------------------------------------------------
(* Properties                                                              *)

StackTypeOK == TypeOK /\ F!TypeOK

(* _destroyTimer may be called only once for a timer, because it releases  *)
(* the owner's reference: the helper has given up every destroyed timer    *)
(* and still owes the call for every other, and nobody touches a timer     *)
(* object without a reference, whichever way Start, Stop, Restart, the set *)
(* and kill messages and the callback interleave.                          *)
OwnedAndCovered == owned = created \ destroyed /\ F!RefCoversUsers

(* A timer the helper keeps is not lost: it fires unless it is stopped.    *)
StartedFires ==
    \A x \in Timers : (timerInstance = x) ~> (calls[x] = 1 \/ timerInstance # x)

(* The references of a timer nobody uses any more are all released, and    *)
(* with them the one it holds on its user data (the connection).  The      *)
(* comments of _setTimerOnTargetThread and _killTimerOnTargetThread say    *)
(* where each is released.                                                 *)
UnusedIsDeleted == F!UnusedIsDeleted
=============================================================================
