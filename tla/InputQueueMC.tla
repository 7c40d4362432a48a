---------------------------- MODULE InputQueueMC ----------------------------
(* Packages of users for TLC. *)
EXTENDS InputQueue

CONSTANTS u1, u2, u3, p1, p2, p3

(* u1 has two packages, the sorter puts p1 before p2; u2 has one. *)
TwoUsers == [p \in {p1, p2, p3} |-> IF p = p3 THEN u2 ELSE u1]

P1First == {<<p2, p1>>}

(* A package for each user *)
ThreeUsers == [p \in {p1, p2, p3} |-> CASE p = p1 -> u1 [] p = p2 -> u2 [] p = p3 -> u3]

NoOrder == {}
=============================================================================
