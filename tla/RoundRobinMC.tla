---------------------------- MODULE RoundRobinMC ----------------------------
(* Instances of RoundRobinScheduler for TLC. *)
EXTENDS RoundRobinScheduler

CONSTANTS c1, c2, t1

(* c1 gets a result, c2 an exception. *)
TwoCalls == {c1, c2}

SecondFails == {c2}

NobodyRefused == {}
=============================================================================
