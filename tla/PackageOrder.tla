---------------------------- MODULE PackageOrder ----------------------------
(***************************************************************************)
(* The order of work packages: sequence numbers, which may say "out of     *)
(* order", and the comparisons the schedulers pass to the input queue.     *)
(*                                                                         *)
(* RoundRobinScheduler orders by SortDescendingBySequenceNum; the reinit   *)
(* scheduler passes a sorter made from the numbers its sessions have       *)
(* reached at the time of the call.                                        *)
(***************************************************************************)
EXTENDS Naturals

CONSTANTS
    Packages,
    SessionOf,      \* SessionOf[p] is p's session_id
    NumOf,          \* NumOf[p] is p's sequence_num
    OutOfOrder,     \* a SequenceNumber without a value
    HashOf,         \* std::hash of a session_id
    Reinit          \* the packages have sessions

Sessions == {SessionOf[p] : p \in Packages}

(* What the theorems on the sorters ask of the packages *)
OrderAssumption ==
    /\ Reinit \in BOOLEAN
    /\ OutOfOrder \notin Nat
    /\ \A p \in Packages : NumOf[p] \in Nat \union {OutOfOrder}
    /\ \A s \in Sessions : HashOf[s] \in Nat

-----------------------------------------------------------------------------
(* SequenceNumber *)

IsInOrder(n) == n # OutOfOrder

(* operator< and operator>: false as soon as one side has no value *)
NumLess(m, n) == IsInOrder(m) /\ IsInOrder(n) /\ m < n

NumGreater(m, n) == NumLess(n, m)

(* operator==: true as soon as one side has no value *)
NumEqual(m, n) == IsInOrder(m) /\ IsInOrder(n) => m = n

-----------------------------------------------------------------------------
(* The sorters: Sorter(l, r) says that r comes out of the heap before l.   *)
(* The mutants are plausible slips, which the specification does not use.  *)

(* SortDescendingBySequenceNum; packages without sessions skip the hashes. *)
SortDescending(l, r) ==
    IF Reinit /\ HashOf[SessionOf[l]] # HashOf[SessionOf[r]]
      THEN HashOf[SessionOf[l]] > HashOf[SessionOf[r]]
      ELSE NumGreater(NumOf[l], NumOf[r])

(* get_heap_sorter_most_completed(): reached is the copy of the numbers    *)
(* the sessions have reached.                                              *)
SortMostCompleted(reached, l, r) ==
    LET left == reached[SessionOf[l]]
        right == reached[SessionOf[r]]
    IN  IF ~NumEqual(left, right) THEN NumLess(left, right) ELSE SortDescending(l, r)
=============================================================================
