-------------------------- MODULE SessionStorageMC --------------------------
(* Instances of SessionStorage for TLC. *)
EXTENDS SessionStorage, TLC

CONSTANTS s1, c1, c2, c3

(* All connections are of one session. *)
OneSession == [c \in Connections |-> s1]

(* Connections are alike, and so are ids. *)
Alike == Permutations(Connections) \union Permutations(ReinitIds)
=============================================================================
