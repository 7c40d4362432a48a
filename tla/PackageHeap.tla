---------------------------- MODULE PackageHeap ----------------------------
(***************************************************************************)
(* One user's queue of the InputQueue: a deque of work packages kept as a  *)
(* binary heap, ordered by sequence numbers that may say "out of order".   *)
(*                                                                         *)
(* RoundRobinScheduler orders by SortDescendingBySequenceNum; the reinit   *)
(* scheduler passes a sorter made from a copy of the numbers its sessions  *)
(* have reached, which change between the calls, and between the copy and  *)
(* its use: each operation may order by numbers of its own.                *)
(*                                                                         *)
(* push_heap, pop_heap and make_heap are those of libstdc++.               *)
(***************************************************************************)
EXTENDS PackageOrder, SequencesExt

CONSTANT MaxNum     \* bound of the numbers the sessions reach

VARIABLES
    heap,       \* m_user_to_input_queue[user]
    reached,    \* m_session_to_sequence_num
    made        \* history: the numbers the heap is ordered by; Mixed if by those of several calls

vars == <<heap, reached, made>>

Mixed == <<>>

-----------------------------------------------------------------------------
(* The sorter of the scheduler, made of a copy of the numbers *)
Sorter(copy, l, r) == IF Reinit THEN SortMostCompleted(copy, l, r) ELSE SortDescending(l, r)

(* What an operation may have copied: the numbers of now, or of before *)
Copies == {copy \in [Sessions -> 0..MaxNum] : \A s \in Sessions : copy[s] <= reached[s]}

-----------------------------------------------------------------------------
(* Heap algorithms; positions count from 1. *)

Swap(h, i, j) == [h EXCEPT ![i] = h[j], ![j] = h[i]]

(* __push_heap: the element at i rises, at most to position top. *)
RECURSIVE SiftUp(_, _, _, _)
SiftUp(copy, h, i, top) ==
    IF i > top /\ Sorter(copy, h[i \div 2], h[i])
      THEN SiftUp(copy, Swap(h, i, i \div 2), i \div 2, top)
      ELSE h

(* __adjust_heap: the element at i sinks to a leaf, its larger child       *)
(* rising each time, and rises again to its place.                         *)
RECURSIVE AdjustHeap(_, _, _, _)
AdjustHeap(copy, h, i, top) ==
    LET left == 2 * i
        right == 2 * i + 1
        child == IF right > Len(h) \/ Sorter(copy, h[right], h[left]) THEN left ELSE right
    IN  IF left > Len(h)
          THEN SiftUp(copy, h, i, top)
          ELSE AdjustHeap(copy, Swap(h, i, child), child, top)

RECURSIVE MakeHeapFrom(_, _, _)
MakeHeapFrom(copy, h, i) == IF i = 0 THEN h ELSE MakeHeapFrom(copy, AdjustHeap(copy, h, i, i), i - 1)

MakeHeap(copy, h) == MakeHeapFrom(copy, h, Len(h) \div 2)

IsHeap(copy, h) == \A i \in 2..Len(h) : ~Sorter(copy, h[i \div 2], h[i])

PushHeap(copy, h) == SiftUp(copy, h, Len(h), 1)

(* The last element takes the place of the first. *)
PopHeap(copy, h) ==
    IF Len(h) = 1 THEN <<>> ELSE AdjustHeap(copy, <<Last(h)>> \o SubSeq(h, 2, Len(h) - 1), 1, 1)

EnsureHeap(copy, h) == IF IsHeap(copy, h) THEN h ELSE MakeHeap(copy, h)

-----------------------------------------------------------------------------
(* Mutant: the heap is not ordered anew for the sorter of the call. *)
AddWorkUnordered(p) ==
    /\ p \notin ToSet(heap)
    /\ \E copy \in Copies :
          /\ heap' = PushHeap(copy, Append(heap, p))
          /\ made' = copy
    /\ UNCHANGED reached

(* add_work with a package that is new or was retrieved and is requeued *)
AddWork(p) ==
    /\ p \notin ToSet(heap)
    /\ \E copy \in Copies :
          /\ heap' = PushHeap(copy, Append(EnsureHeap(copy, heap), p))
          /\ made' = copy
    /\ UNCHANGED reached

(* retrieve_work: the sorter of the call is not used to restore the heap.  *)
RetrieveWork ==
    /\ heap # <<>>
    /\ \E copy \in Copies :
          /\ heap' = PopHeap(copy, heap)
          /\ made' = IF copy = made THEN made ELSE Mixed
    /\ UNCHANGED reached

(* sequence_num_next(), or sequence_num_fast_forward() of a session that   *)
(* is at 0                                                                 *)
SessionAdvances(s) ==
    /\ Reinit
    /\ \E n \in (IF reached[s] = 0 THEN 1..MaxNum ELSE {reached[s] + 1}) :
          /\ n <= MaxNum
          /\ reached' = [reached EXCEPT ![s] = n]
    /\ UNCHANGED <<heap, made>>

Init ==
    /\ heap = <<>>
    /\ reached = [s \in Sessions |-> 0]
    /\ made = Mixed

Next ==
    \/ \E p \in Packages : AddWork(p)
    \/ RetrieveWork
    \/ \E s \in Sessions : SessionAdvances(s)

Spec == Init /\ [][Next]_vars

-----------------------------------------------------------------------------
(* Properties *)

(* work-methods.h:322-323 of the sorter: "sort work packages descending in *)
(* priority queue (lowest sequence number first)".  If the heap was last   *)
(* ordered by the numbers of this retrieval, no package is left that the   *)
(* sorter puts first, whatever numbers the calls before were made with:    *)
(* one add_work() puts right what retrievals with other numbers did.       *)
(* A package without a number is not ordered against the others of its     *)
(* session, and may hide a lower number below it.                          *)
LowestFirst ==
    [][/\ Len(heap') < Len(heap) /\ made' # Mixed
       /\ \A p \in ToSet(heap) : SessionOf[p] = SessionOf[Head(heap)] => IsInOrder(NumOf[p])
       => \A p \in ToSet(heap') : ~Sorter(made, Head(heap), p)]_vars
=============================================================================
