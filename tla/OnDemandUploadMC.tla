-------------------------- MODULE OnDemandUploadMC --------------------------
(* Instances of OnDemandUpload for TLC. *)
EXTENDS OnDemandUpload, TLC

(* Threads are alike. *)
Alike == Permutations(Threads)
=============================================================================
