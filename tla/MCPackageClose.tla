---------------------------- MODULE MCPackageClose ----------------------------
(* Both ends of a connection: the first sends and may reset, or none does. *)
EXTENDS PackageClose, TLC

CONSTANTS a, b, t1, t2, t3

FewUnits == (a :> 1) @@ (b :> 0)

NoUnits == [s \in Sides |-> 0]

OneThread == (t1 :> a) @@ (t3 :> b)

\* The end that closes, sends, resets and has a FIN timer has two threads.
TwoThreads == (t1 :> a) @@ (t2 :> a) @@ (t3 :> b)

\* The two threads of that end are alike.
Symmetry == Permutations({t1, t2})

TwoAtWork == \E v, w \in handling : v.thread # w.thread /\ v.m.to = w.m.to

\* Two threads are at work at one end only while nothing was sent and no Reset
\* was called: they meet over the sub-state and the timer, and units add
\* nothing to that race but states.
TwoAtWorkAlone ==
    TwoAtWork => \A s \in Sides : end[s] = 1 /\ ~sending[s] /\ ~reset[s]

\* What SomeFinAnswered promises is not taken back (AfterFin, AfterFinAck), so
\* the states in which it has come true need not be searched any further.
NoFinAnswered == \A s \in Sides : closeSubState[s] \notin {"TIMEWAIT", "CLOSED"}
=============================================================================
