--------------------------- MODULE SendQueueParams ---------------------------
(* The parameters of the send queue and of the bounds it is checked in.    *)
EXTENDS Integers

CONSTANTS
    InitStreamPos,  \* first stream position, PackageConnectionCreate passes 1
    Mtu,            \* longest payload of one package
    MaxStreamPos,   \* bound: the application writes positions below this one
    MaxSackRanges,  \* bound: ranges of one SACK
    DupAckModulus   \* dupAckTimes is a uint8_t: 256 in the code

ASSUME SendQueueAssumption ==
    /\ InitStreamPos \in Nat \ {0}
    /\ Mtu \in Nat \ {0}
    /\ MaxStreamPos \in Nat
    /\ InitStreamPos <= MaxStreamPos
    /\ MaxSackRanges \in Nat
    /\ DupAckModulus \in Nat
    /\ DupAckModulus > 4
=============================================================================
