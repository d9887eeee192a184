---------------------------- MODULE MCRecvQueue ----------------------------
(* RecvQueue with a stream cut into a few payloads and receive buffers of  *)
(* different lengths that the application offers again and again.          *)
EXTENDS RecvQueueList, TLC

CONSTANTS b1, b2

Payload(s, e) == [start |-> s, end |-> e]

\* Payloads of one mtu (2) and below, so that both kinds of pop happen; four
\* of them, so that two separate blocks can lie ahead of the ack position.
FourPayloads == {Payload(1, 3), Payload(3, 4), Payload(4, 5), Payload(5, 7)}

\* A buffer shorter than a payload and one that holds several.
TwoLengths == (b1 :> 1) @@ (b2 :> 4)
=============================================================================
