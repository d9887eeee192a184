---------------------------- MODULE MCConnection ----------------------------
(* One connection attempt, with every connector.                           *)
EXTENDS Connection
=============================================================================
