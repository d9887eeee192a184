------------------------------- MODULE TrySend -------------------------------
(****************************************************************************)
(* PackageConnectionTrySendPackage: any thread may ask for the send loop,   *)
(* one thread runs it.  trySendCnt counts the requests: the thread that     *)
(* raises it from 0 drives, and drives again until it has subtracted every  *)
(* request it did not know of when its last drive began.                    *)
(****************************************************************************)
EXTENDS Integers

CONSTANTS
    Threads,     \* dispatch and timer threads and the application's own
    MaxPending   \* bound: requests counted at a time

ASSUME TrySendAssumption == MaxPending \in Nat \ {0}

VARIABLES
    trySendCnt,
    pc,      \* per thread: "idle", "drive" (about to), "driving"
    v,       \* per thread: the local v, the requests its drive accounts for
    asked    \* history: a request came after the last drive began

vars == <<trySendCnt, pc, v, asked>>

Init ==
    /\ trySendCnt = 0
    /\ pc = [t \in Threads |-> "idle"]
    /\ v = [t \in Threads |-> 0]
    /\ asked = FALSE

\* Mutant of Ask: the old count is tested in place of the new one.
AskByOldCount(t) ==
    /\ pc[t] = "idle"
    /\ trySendCnt < MaxPending
    /\ trySendCnt' = trySendCnt + 1
    /\ asked' = TRUE
    /\ v' = [v EXCEPT ![t] = trySendCnt + 1]
    /\ pc' = [pc EXCEPT ![t] = IF trySendCnt > 1 THEN "idle" ELSE "drive"]

(* BfxAtomicInc32 returns the new count: the first request drives.         *)
Ask(t) ==
    /\ pc[t] = "idle"
    /\ trySendCnt < MaxPending
    /\ trySendCnt' = trySendCnt + 1
    /\ asked' = TRUE
    /\ v' = [v EXCEPT ![t] = trySendCnt + 1]
    /\ pc' = [pc EXCEPT ![t] = IF trySendCnt + 1 > 1 THEN "idle" ELSE "drive"]

(* PackageConnectionSendDrive begins and reads the queues and the window.  *)
DriveBegins(t) ==
    /\ pc[t] = "drive"
    /\ asked' = FALSE
    /\ pc' = [pc EXCEPT ![t] = "driving"]
    /\ UNCHANGED <<trySendCnt, v>>

\* Mutant of DriveEnds: the count is reset.
DriveEndsReset(t) ==
    /\ pc[t] = "driving"
    /\ trySendCnt' = 0
    /\ v' = [v EXCEPT ![t] = 0]
    /\ pc' = [pc EXCEPT ![t] = "idle"]
    /\ UNCHANGED asked

(* It returned; BfxAtomicAdd32 gives the requests that came meanwhile.     *)
DriveEnds(t) ==
    /\ pc[t] = "driving"
    /\ trySendCnt' = trySendCnt - v[t]
    /\ v' = [v EXCEPT ![t] = trySendCnt - v[t]]
    /\ pc' = [pc EXCEPT ![t] = IF trySendCnt - v[t] = 0 THEN "idle" ELSE "drive"]
    /\ UNCHANGED asked

Next == \E t \in Threads : Ask(t) \/ DriveBegins(t) \/ DriveEnds(t)

(* The thread inside the loop runs on.                                     *)
Fairness == \A t \in Threads : WF_vars(DriveBegins(t) \/ DriveEnds(t))

Spec == Init /\ [][Next]_vars /\ Fairness

-----------------------------------------------------------------------------
(* Properties                                                              *)

TypeOK ==
    /\ trySendCnt \in 0 .. MaxPending
    /\ pc \in [Threads -> {"idle", "drive", "driving"}]
    /\ v \in [Threads -> 0 .. MaxPending]
    /\ asked \in BOOLEAN

(* Only one thread is inside PackageConnectionSendDrive: two would cut the *)
(* same window twice and interleave retransmissions.                       *)
OneDriver == \A t, u \in Threads : pc[t] # "idle" /\ pc[u] # "idle" => t = u

(* No request is forgotten: one that came after the last drive began finds *)
(* a thread that is about to drive, or that will see at the end of its     *)
(* drive that requests are left.                                           *)
NoRequestForgotten ==
    asked => \E t \in Threads :
                \/ pc[t] = "drive"
                \/ pc[t] = "driving" /\ v[t] < trySendCnt

=============================================================================
