---------------------------- MODULE FrameworkTimer ----------------------------
(****************************************************************************)
(* The framework's system timers (timer_manager.c), as Bdt_TimerHelper uses *)
(* them: created by any thread, run by a thread of the timer pool, and      *)
(* destroyed once by any thread.  A timer object is counted: one reference  *)
(* for its owner, one for its timer thread.                                 *)
(*                                                                          *)
(* _baseTimerCallback tests the state and then stores FIRED, while          *)
(* _destroyTimer exchanges it atomically on another thread: two steps here. *)
(****************************************************************************)
EXTENDS Integers, Sequences, FiniteSets

CONSTANTS
    Timers,        \* the timer objects
    TimerThreads   \* the threads of the timer pool

VARIABLES
    thread,   \* the timer thread chosen for a timer, "none" before creation
    state,    \* "INIT", "CANCELED" or "FIRED"
    armed,    \* timer->timer is set: the thread's loop will call back
    ref,      \* the reference count; the object is deleted when it becomes 0
    posted,   \* per timer thread: its messages in order, <<"set" or "kill", timer>>
    pc,       \* per timer thread: <<"idle">>, or <<where, timer>> in a callback
    owned,    \* timers whose owner has yet to call destroyTimeout
    calls     \* how often onTimeout was called

vars == <<thread, state, armed, ref, posted, pc, owned, calls>>

Idle == <<"idle">>

Init ==
    /\ thread = [x \in Timers |-> "none"]
    /\ state = [x \in Timers |-> "INIT"]
    /\ armed = [x \in Timers |-> FALSE]
    /\ ref = [x \in Timers |-> 0]
    /\ posted = [th \in TimerThreads |-> <<>>]
    /\ pc = [th \in TimerThreads |-> Idle]
    /\ owned = {}
    /\ calls = [x \in Timers |-> 0]

(* The timer thread runs other code: its loop, or onTimeout of a timer.    *)
RunsCode(th) == pc[th] = Idle \/ pc[th][1] = "calling"

\* Mutant of CreateTimeout: a reference too many.
CreateCounted(x, th, onTarget) ==
    /\ thread[x] = "none"
    /\ onTarget => RunsCode(th)
    /\ thread' = [thread EXCEPT ![x] = th]
    /\ ref' = [ref EXCEPT ![x] = 3]
    /\ owned' = owned \cup {x}
    /\ armed' = [armed EXCEPT ![x] = onTarget]
    /\ posted' = IF onTarget THEN posted
                 ELSE [posted EXCEPT ![th] = Append(@, <<"set", x>>)]
    /\ UNCHANGED <<state, pc, calls>>

\* Mutant of CreateTimeout: the timer thread's reference is not taken.
CreateUncounted(x, th, onTarget) ==
    /\ thread[x] = "none"
    /\ onTarget => RunsCode(th)
    /\ thread' = [thread EXCEPT ![x] = th]
    /\ ref' = [ref EXCEPT ![x] = 1]
    /\ owned' = owned \cup {x}
    /\ armed' = [armed EXCEPT ![x] = onTarget]
    /\ posted' = IF onTarget THEN posted
                 ELSE [posted EXCEPT ![th] = Append(@, <<"set", x>>)]
    /\ UNCHANGED <<state, pc, calls>>

(* _setTimer for _createTimeout: on the chosen timer thread itself the     *)
(* timer is set at once, from elsewhere by a message.                      *)
CreateTimeout(x, th, onTarget) ==
    /\ thread[x] = "none"
    /\ onTarget => RunsCode(th)
    /\ thread' = [thread EXCEPT ![x] = th]
    /\ ref' = [ref EXCEPT ![x] = 2]
    /\ owned' = owned \cup {x}
    /\ armed' = [armed EXCEPT ![x] = onTarget]
    /\ posted' = IF onTarget THEN posted
                 ELSE [posted EXCEPT ![th] = Append(@, <<"set", x>>)]
    /\ UNCHANGED <<state, pc, calls>>

\* Mutant of SetOnTarget: the timer is not set.
SetNever(th, x) ==
    /\ pc[th] = Idle
    /\ posted[th] # <<>> /\ Head(posted[th]) = <<"set", x>>
    /\ posted' = [posted EXCEPT ![th] = Tail(@)]
    /\ ref' = [ref EXCEPT ![x] = IF state[x] = "INIT" THEN @ ELSE @ - 1]
    /\ UNCHANGED <<thread, state, armed, pc, owned, calls>>

(* _setTimerOnTargetThread: a timer cancelled while the message was under  *)
(* way is not set, and its thread's reference is released.                 *)
SetOnTarget(th, x) ==
    /\ pc[th] = Idle
    /\ posted[th] # <<>> /\ Head(posted[th]) = <<"set", x>>
    /\ posted' = [posted EXCEPT ![th] = Tail(@)]
    /\ armed' = [armed EXCEPT ![x] = (state[x] = "INIT")]
    /\ ref' = [ref EXCEPT ![x] = IF state[x] = "INIT" THEN @ ELSE @ - 1]
    /\ UNCHANGED <<thread, state, pc, owned, calls>>

(* _baseTimerCallback: clear the handle and look at the state ...          *)
CallbackBegin(th, x) ==
    /\ pc[th] = Idle
    /\ thread[x] = th
    /\ armed[x]
    /\ armed' = [armed EXCEPT ![x] = FALSE]
    /\ pc' = [pc EXCEPT ![th] = IF state[x] = "INIT" THEN <<"fire", x>> ELSE <<"release", x>>]
    /\ UNCHANGED <<thread, state, ref, posted, owned, calls>>

(* ... store FIRED and call onTimeout ...                                  *)
CallbackFire(th, x) ==
    /\ pc[th] = <<"fire", x>>
    /\ state' = [state EXCEPT ![x] = "FIRED"]
    /\ calls' = [calls EXCEPT ![x] = @ + 1]
    /\ pc' = [pc EXCEPT ![th] = <<"calling", x>>]
    /\ UNCHANGED <<thread, armed, ref, posted, owned>>

(* ... and release the reference of the timer thread.                      *)
CallbackEnd(th, x) ==
    /\ pc[th] \in {<<"calling", x>>, <<"release", x>>}
    /\ ref' = [ref EXCEPT ![x] = @ - 1]
    /\ pc' = [pc EXCEPT ![th] = Idle]
    /\ UNCHANGED <<thread, state, armed, posted, owned, calls>>

(* _destroyTimer: a timer that was not fired is cancelled and killed on    *)
(* its thread, at once if that is the calling thread; else the owner's     *)
(* reference is released.                                                  *)
DestroyTimeout(x, onTarget) ==
    /\ x \in owned
    /\ onTarget => RunsCode(thread[x])
    /\ owned' = owned \ {x}
    /\ \/ /\ state[x] = "INIT"
          /\ ~onTarget
          /\ state' = [state EXCEPT ![x] = "CANCELED"]
          /\ posted' = [posted EXCEPT ![thread[x]] = Append(@, <<"kill", x>>)]
          /\ UNCHANGED <<ref, armed>>
       \/ /\ state[x] = "INIT"
          /\ onTarget
          /\ state' = [state EXCEPT ![x] = "CANCELED"]
          /\ armed' = [armed EXCEPT ![x] = FALSE]
          /\ ref' = [ref EXCEPT ![x] = @ - 1]
          /\ UNCHANGED posted
       \/ /\ state[x] # "INIT"
          /\ ref' = [ref EXCEPT ![x] = @ - 1]
          /\ UNCHANGED <<state, posted, armed>>
    /\ UNCHANGED <<thread, pc, calls>>

(* _killTimerOnTargetThread: BfxClearTimer stops an armed timer, whose     *)
(* callback then never runs.                                               *)
KillOnTarget(th, x) ==
    /\ pc[th] = Idle
    /\ posted[th] # <<>> /\ Head(posted[th]) = <<"kill", x>>
    /\ posted' = [posted EXCEPT ![th] = Tail(@)]
    /\ armed' = [armed EXCEPT ![x] = FALSE]
    /\ ref' = [ref EXCEPT ![x] = @ - 1]
    /\ UNCHANGED <<thread, state, pc, owned, calls>>

TargetStep(th, x) ==
    \/ SetOnTarget(th, x)
    \/ CallbackBegin(th, x)
    \/ CallbackFire(th, x)
    \/ CallbackEnd(th, x)
    \/ KillOnTarget(th, x)

Next ==
    \/ \E x \in Timers, th \in TimerThreads, onTarget \in BOOLEAN : CreateTimeout(x, th, onTarget)
    \/ \E x \in Timers, onTarget \in BOOLEAN : DestroyTimeout(x, onTarget)
    \/ \E th \in TimerThreads, x \in Timers : TargetStep(th, x)

Spec == Init /\ [][Next]_vars

-----------------------------------------------------------------------------
(* Properties                                                              *)

TypeOK ==
    /\ thread \in [Timers -> TimerThreads \cup {"none"}]
    /\ state \in [Timers -> {"INIT", "CANCELED", "FIRED"}]
    /\ armed \in [Timers -> BOOLEAN]
    /\ ref \in [Timers -> 0 .. 2]
    /\ owned \subseteq Timers
    /\ calls \in [Timers -> 0 .. 1]

Waiting(x, what) == \E th \in TimerThreads : \E i \in DOMAIN posted[th] : posted[th][i] = <<what, x>>

InCallback(x) == \E th \in TimerThreads : pc[th] # Idle /\ pc[th][2] = x

(* The users that still touch a timer object: its owner, a kill message,   *)
(* and its thread from the set message to the end of the callback.         *)
Users(x) ==
    {"owner" : y \in owned \cap {x}}
      \cup {u \in {"kill"} : Waiting(x, "kill")}
      \cup {u \in {"thread"} : Waiting(x, "set") \/ armed[x] \/ InCallback(x)}

(* Nobody touches a deleted timer: a reference is held for every user of   *)
(* the object, whichever way creation, cancelling and firing interleave.   *)
RefCoversUsers == \A x \in Timers : ref[x] >= Cardinality(Users(x))

(* The comments in _setTimerOnTargetThread and _killTimerOnTargetThread    *)
(* say where the thread's and the owner's reference are released: a timer  *)
(* nobody uses any more is deleted, and with it the reference it holds on  *)
(* its user data (the connection).                                         *)
UnusedIsDeleted ==
    \A x \in Timers : thread[x] # "none" /\ Users(x) = {} => ref[x] = 0

=============================================================================
