------------------------------ MODULE ByteStream ------------------------------
(****************************************************************************)
(* What a package connection promises for one direction: a reliable ordered *)
(* stream of bytes.  Bytes are written at one end, accepted by the other,   *)
(* handed to the application there in the order they were written, and      *)
(* reported as sent to the writer only once the other end has accepted      *)
(* them.  The byte at position p is represented by p.                       *)
(****************************************************************************)
EXTENDS Integers, Sequences

CONSTANT MaxWritten  \* bound: bytes the application writes

VARIABLES
    written,    \* how many bytes the application wrote
    accepted,   \* how many of them the peer took over
    handed,     \* the bytes the peer's application received, in that order
    completed   \* how many bytes were reported as sent

vars == <<written, accepted, handed, completed>>

Init ==
    /\ written = 0
    /\ accepted = 0
    /\ handed = <<>>
    /\ completed = 0

Write ==
    /\ written' \in (written + 1) .. MaxWritten
    /\ UNCHANGED <<accepted, handed, completed>>

Accept ==
    /\ accepted' \in (accepted + 1) .. written
    /\ UNCHANGED <<written, handed, completed>>

HandOver ==
    /\ \E n \in (Len(handed) + 1) .. accepted : handed' = [i \in 1 .. n |-> i]
    /\ UNCHANGED <<written, accepted, completed>>

Complete ==
    /\ completed' \in (completed + 1) .. accepted
    /\ UNCHANGED <<written, accepted, handed>>

Next == Write \/ Accept \/ HandOver \/ Complete

Spec == Init /\ [][Next]_vars
=============================================================================
