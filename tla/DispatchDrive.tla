---------------------------- MODULE DispatchDrive ----------------------------
(****************************************************************************)
(* From the socket to the send loop: the dispatch threads of                *)
(* PackageDispatch.tla hand every datagram to the connection, whose         *)
(* PackageConnectionPushPackage asks for the send loop of TrySend.tla on    *)
(* the same thread.  A dispatch thread that became the driver deals no      *)
(* datagram until the loop lets it go.  Other threads (timers, the          *)
(* application) ask for the loop as well.                                   *)
(****************************************************************************)
EXTENDS TrySend, Sequences, FiniteSets

CONSTANTS Packages, SocketThreads, DispatchThreads

VARIABLES index, chosen, packages, duringWakeup, sem, step, tmp, arrived, dealt

D == INSTANCE PackageDispatch WITH pc <- step

ASSUME DriveAssumption ==
    /\ DispatchThreads \in Nat \ {0}
    /\ D!Workers \subseteq Threads

dispatchVars == <<index, chosen, packages, duringWakeup, sem, step, tmp, arrived, dealt>>
driveVars == <<vars, dispatchVars>>

DriveInit == Init /\ D!Init

(* _dispatchDealPackage: the datagram reaches PackageConnectionPushPackage *)
(* and TrySendPackage runs before the next one is dealt.                   *)
Deal(w) == D!DealPackage(w) /\ Ask(w)

Dispatch(w) ==
    \/ /\ pc[w] = "idle"
       /\ \/ D!SemWait(w)
          \/ D!ClearWakeup(w)
          \/ D!PeekPackages(w)
       /\ UNCHANGED vars
    \/ Deal(w)

Drive(t) == (DriveBegins(t) \/ DriveEnds(t)) /\ UNCHANGED dispatchVars

DriveNext ==
    \/ /\ \/ \E s \in SocketThreads, p \in Packages, seen \in 0 .. index : D!OnData(s, p, seen)
          \/ \E s \in SocketThreads : D!PushPackage(s) \/ D!WakeUp(s)
       /\ UNCHANGED vars
    \/ \E w \in D!Workers : Dispatch(w)
    \/ \E t \in Threads \ D!Workers : Ask(t) /\ UNCHANGED dispatchVars
    \/ \E t \in Threads : Drive(t)

(* Every thread that can run does, and a request fits under the bound      *)
(* sooner or later.                                                        *)
DriveFairness ==
    /\ \A s \in SocketThreads : WF_driveVars((D!PushPackage(s) \/ D!WakeUp(s)) /\ UNCHANGED vars)
    /\ \A w \in D!Workers : SF_driveVars(Dispatch(w))
    /\ \A t \in Threads : WF_driveVars(Drive(t))

DriveSpec == DriveInit /\ [][DriveNext]_driveVars /\ DriveFairness

-----------------------------------------------------------------------------
(* A dispatch thread never sleeps on packages nobody will wake it for: the *)
(* socket thread that found duringWakeup set relied on a wakeup to come.   *)
NoLostWakeup == D!NoLostWakeup

(* Every datagram a socket received is dealt, and the send loop, which     *)
(* answers it, begins again after that: neither the wakeup nor the request *)
(* is lost on the way.  The loop keeps its thread, and the datagrams       *)
(* behind it, for as long as a request comes during every drive; the       *)
(* property is about executions where the requests run out again and again. *)
ArrivedIsServed ==
    []<>(trySendCnt = 0) =>
        \A p \in Packages :
            (p \in arrived) ~> (~asked /\ \E i \in DOMAIN dealt : dealt[i] = p)

=============================================================================
