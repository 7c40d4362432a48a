---------------------------- MODULE WorkerThreadMC ----------------------------
(* Instances of WorkerThread for TLC. *)
EXTENDS WorkerThread

CONSTANTS p1, p2

(* work() throws for one of two packages. *)
TwoPackages == {p1, p2}

SecondFails == {p2}
=============================================================================
