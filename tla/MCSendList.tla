----------------------------- MODULE MCSendList -----------------------------
(* The send queue on a stream of a few bytes.                              *)
EXTENDS SendQueueList
=============================================================================
