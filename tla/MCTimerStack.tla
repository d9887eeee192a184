---------------------------- MODULE MCTimerStack ----------------------------
(* An application thread and two timer threads share one helper.           *)
EXTENDS TimerStack
=============================================================================
