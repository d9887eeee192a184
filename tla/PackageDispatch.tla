--------------------------- MODULE PackageDispatch ---------------------------
(****************************************************************************)
(* The framework's dispatch of received datagrams (thread_dispatch.c): the  *)
(* socket threads append every datagram to the list of a dispatch thread,   *)
(* chosen round robin, and wake it through a semaphore that duringWakeup    *)
(* keeps from being posted for every datagram.                              *)
(****************************************************************************)
EXTENDS Integers, Sequences, FiniteSets

CONSTANTS
    Packages,         \* bound: the datagrams that arrive
    SocketThreads,    \* threads of the udp pool
    DispatchThreads   \* number of dispatch threads

Workers == 0 .. (DispatchThreads - 1)

VARIABLES
    index,         \* manager->index
    chosen,        \* per socket thread: the package it has in hand and for whom
    packages,      \* per dispatch thread: its list, under lock
    duringWakeup,  \* per dispatch thread
    sem,           \* per dispatch thread: the semaphore
    pc,            \* per dispatch thread
    tmp,           \* per dispatch thread: the packages it took over
    arrived,       \* packages the sockets received
    dealt          \* packages given to bdtPushUdpSocketData, in order

vars == <<index, chosen, packages, duringWakeup, sem, pc, tmp, arrived, dealt>>

Nothing == [step |-> "none"]

(* _initPackageDispatchManager *)
Init ==
    /\ index = 0
    /\ chosen = [s \in SocketThreads |-> Nothing]
    /\ packages = [w \in Workers |-> <<>>]
    /\ duringWakeup = [w \in Workers |-> 0]
    /\ sem = [w \in Workers |-> 0]
    /\ pc = [w \in Workers |-> "wait"]
    /\ tmp = [w \in Workers |-> <<>>]
    /\ arrived = {}
    /\ dealt = <<>>

(* _uvUdpSocketOnData and _selectDispatchThread.  index++ is no atomic     *)
(* operation: a socket thread may have read an index that is stale by now, *)
(* so any value up to the current one is used.                             *)
OnData(s, p, seen) ==
    /\ chosen[s] = Nothing
    /\ p \notin arrived
    /\ arrived' = arrived \cup {p}
    /\ index' = seen + 1
    /\ chosen' = [chosen EXCEPT ![s] = [step |-> "push", to |-> seen % DispatchThreads, pkg |-> p]]
    /\ UNCHANGED <<packages, duringWakeup, sem, pc, tmp, dealt>>

(* _dispatchPackage, under the lock ...                                    *)
PushPackage(s) ==
    LET w == chosen[s].to IN
    /\ chosen[s].step = "push"
    /\ packages' = [packages EXCEPT ![w] = Append(@, chosen[s].pkg)]
    /\ chosen' = [chosen EXCEPT ![s] = [step |-> "wake", to |-> w]]
    /\ UNCHANGED <<index, duringWakeup, sem, pc, tmp, arrived, dealt>>

(* ... then post the semaphore unless a wakeup is under way.               *)
WakeUp(s) ==
    LET w == chosen[s].to IN
    /\ chosen[s].step = "wake"
    /\ duringWakeup' = [duringWakeup EXCEPT ![w] = 1]
    /\ sem' = IF duringWakeup[w] = 0 THEN [sem EXCEPT ![w] = @ + 1] ELSE sem
    /\ chosen' = [chosen EXCEPT ![s] = Nothing]
    /\ UNCHANGED <<index, packages, pc, tmp, arrived, dealt>>

(* _recvDispatchMain: wait, clear duringWakeup, deal packages.             *)
SemWait(w) ==
    /\ pc[w] = "wait"
    /\ sem[w] > 0
    /\ sem' = [sem EXCEPT ![w] = @ - 1]
    /\ pc' = [pc EXCEPT ![w] = "clear"]
    /\ UNCHANGED <<index, chosen, packages, duringWakeup, tmp, arrived, dealt>>

\* Mutant of ClearWakeup: duringWakeup stays set.
ClearNothing(w) ==
    /\ pc[w] = "clear"
    /\ pc' = [pc EXCEPT ![w] = "peek"]
    /\ UNCHANGED <<index, chosen, packages, duringWakeup, sem, tmp, arrived, dealt>>

ClearWakeup(w) ==
    /\ pc[w] = "clear"
    /\ duringWakeup' = [duringWakeup EXCEPT ![w] = 0]
    /\ pc' = [pc EXCEPT ![w] = "peek"]
    /\ UNCHANGED <<index, chosen, packages, sem, tmp, arrived, dealt>>

(* _dispatchPeekPackages: take the whole list over, or go back to waiting. *)
PeekPackages(w) ==
    /\ pc[w] = "peek"
    /\ tmp' = [tmp EXCEPT ![w] = packages[w]]
    /\ packages' = [packages EXCEPT ![w] = <<>>]
    /\ pc' = [pc EXCEPT ![w] = IF packages[w] = <<>> THEN "wait" ELSE "deal"]
    /\ UNCHANGED <<index, chosen, duringWakeup, sem, arrived, dealt>>

\* Mutant of DealPackage: only the first package is dealt.
DealFirst(w) ==
    /\ pc[w] = "deal"
    /\ dealt' = Append(dealt, Head(tmp[w]))
    /\ tmp' = [tmp EXCEPT ![w] = <<>>]
    /\ pc' = [pc EXCEPT ![w] = "peek"]
    /\ UNCHANGED <<index, chosen, packages, duringWakeup, sem, arrived>>

(* _dispatchDealPackage *)
DealPackage(w) ==
    /\ pc[w] = "deal"
    /\ dealt' = Append(dealt, Head(tmp[w]))
    /\ tmp' = [tmp EXCEPT ![w] = Tail(@)]
    /\ pc' = [pc EXCEPT ![w] = IF Len(tmp[w]) = 1 THEN "peek" ELSE "deal"]
    /\ UNCHANGED <<index, chosen, packages, duringWakeup, sem, arrived>>

WorkerStep(w) == SemWait(w) \/ ClearWakeup(w) \/ PeekPackages(w) \/ DealPackage(w)

SocketStep(s) == PushPackage(s) \/ WakeUp(s)

Next ==
    \/ \E s \in SocketThreads, p \in Packages, seen \in 0 .. index : OnData(s, p, seen)
    \/ \E s \in SocketThreads : SocketStep(s)
    \/ \E w \in Workers : WorkerStep(w)

-----------------------------------------------------------------------------
(* Properties                                                              *)

(* A dispatch thread never sleeps on packages nobody will wake it for: the *)
(* thread that found duringWakeup set relied on a wakeup still to come.    *)
NoLostWakeup ==
    \A w \in Workers :
        packages[w] # <<>> /\ pc[w] = "wait" =>
            \/ sem[w] > 0
            \/ \E s \in SocketThreads : chosen[s].step = "wake" /\ chosen[s].to = w

=============================================================================
