------------------------------ MODULE QueuesMC ------------------------------
(* Instances of InputQueue, PackageHeap and OutputQueue for TLC.  The      *)
(* queues share nothing: the worker thread, which takes from one and       *)
(* pushes to the other, holds no lock of one while it uses the other, and  *)
(* the heap of a user is used under the user's mutex.  So each of them is  *)
(* checked against its own threads while the others are at rest.           *)
EXTENDS InputQueueMC, OutputQueue, TLC

CONSTANTS c1, c2, c3, t1, t2, h1, h2, h3, h4, h5, h6, MaxNum, OutOfOrder

(* Two sessions of a user; one package of the first is without a number *)
OfSession == [h \in {h1, h2, h3, h4, h5, h6} |-> IF h \in {h4, h5} THEN u2 ELSE u1]
Numbered == (h1 :> 0) @@ (h2 :> 1) @@ (h3 :> 2) @@ (h4 :> 0) @@ (h5 :> 1) @@ (h6 :> OutOfOrder)

VARIABLES
    heap, reached, made,
    part        \* the queue that is used

H == INSTANCE PackageHeap WITH
        Packages <- DOMAIN OfSession, SessionOf <- OfSession,
        NumOf <- Numbered, HashOf <- (u1 :> 1) @@ (u2 :> 2), Reinit <- TRUE

ASSUME HeapAssumption == H!OrderAssumption

heapVars == <<heap, reached, made>>
allVars == <<vars, outputVars, heapVars, part>>

QueuesInit == Init /\ OutputInit /\ H!Init /\ part \in {"input", "output", "heap"}

OnlyInput == part = "input" /\ Next /\ UNCHANGED <<outputVars, heapVars, part>>

OnlyHeap == part = "heap" /\ H!Next /\ UNCHANGED <<vars, outputVars, part>>

OnlyOutput(A) == part = "output" /\ A /\ UNCHANGED <<vars, heapVars, part>>

(* The output queue is gone in the end; this is the only way to stop. *)
Gone == OnlyOutput(dpc = "gone" /\ UNCHANGED outputVars)

QueuesNext == OnlyInput \/ OnlyHeap \/ OnlyOutput(OutputNext) \/ Gone

QueuesSpec == QueuesInit /\ [][QueuesNext]_allVars

LowestFirst == H!LowestFirst
=============================================================================
