------------------------- MODULE WorkerThread_proofs -------------------------
(***************************************************************************)
(* Proofs about WorkerThread, for any sets of packages and visitors and    *)
(* any release interval.                                                   *)
(***************************************************************************)
EXTENDS WorkerThread, TLAPS

(* Where main_thread is between ensure_worker_is_set_up and the end of     *)
(* work() *)
Ready == {"retrieve", "busy", "work"}

(* In the loop's body the worker stays set up, because visitors only set   *)
(* up and every teardown is main_thread's own; a worker that threw is torn *)
(* down before anything else; only who holds m_mutex makes the worker      *)
(* idle.  The package worked on is not in the queue at the same time.      *)
BodyInv ==
    /\ wpc \in Ready => isSetUp
    /\ tainted => wpc = "recover"
    /\ wpc = "work" => ~isIdle
    /\ held \notin input

(* The inductive invariant *)
IInv == TypeOK /\ BodyInv /\ FlagTellsTruth /\ AcceptedIsAccountedFor

(* The initial states satisfy the invariant. *)
LEMMA InitHolds == Init => IInv
  BY WorkerThreadAssumption
     DEF Init, IInv, TypeOK, BodyInv, FlagTellsTruth, AcceptedIsAccountedFor, Labels, Ready

(* Every step keeps the invariant. *)
LEMMA NextKeeps == IInv /\ [Next]_vars => IInv'
<1> SUFFICES ASSUME IInv, [Next]_vars PROVE IInv'
  OBVIOUS
<1> USE WorkerThreadAssumption
    DEF IInv, TypeOK, BodyInv, FlagTellsTruth, AcceptedIsAccountedFor, Labels, Ready, Goto,
        queueVars, workerVars
<1>1. ASSUME Start PROVE IInv'
  BY <1>1 DEF Start, Running
<1>2. ASSUME Begin PROVE IInv'
  BY <1>2 DEF Begin
<1>3. ASSUME LoopHead PROVE IInv'
  BY <1>3 DEF LoopHead, IsTeardownNeeded
<1>4. ASSUME Release PROVE IInv'
  BY <1>4 DEF Release, PerformTeardown, SetIdle
<1>5. ASSUME CheckInput PROVE IInv'
  BY <1>5 DEF CheckInput, SetIdle
<1>6. ASSUME EvaluatePredicate PROVE IInv'
  BY <1>6 DEF EvaluatePredicate
<1>7. ASSUME Block PROVE IInv'
  BY <1>7 DEF Block
<1>8. ASSUME WakeSpuriously PROVE IInv'
  BY <1>8 DEF WakeSpuriously
<1>9. ASSUME WaitTimesOut PROVE IInv'
  BY <1>9 DEF WaitTimesOut
<1>10. ASSUME Relock PROVE IInv'
  BY <1>10 DEF Relock
<1>11. ASSUME Awake PROVE IInv'
  BY <1>11 DEF Awake
<1>12. ASSUME SetUp PROVE IInv'
  BY <1>12 DEF SetUp, EnsureWorkerIsSetUp, SetIdle
<1>13. ASSUME NEW p \in Packages, RetrieveWork(p) PROVE IInv'
  BY <1>13 DEF RetrieveWork
<1>14. ASSUME SetBusy PROVE IInv'
  BY <1>14 DEF SetBusy
<1>15. ASSUME WorkReturns PROVE IInv'
  <2>1. held \in Packages /\ held \notin input
    BY <1>15 DEF WorkReturns
  <2>2. /\ TypeOK'
        /\ BodyInv'
        /\ FlagTellsTruth'
    BY <1>15, <2>1 DEF WorkReturns
  <2>3. AcceptedIsAccountedFor'
    BY <1>15, <2>1 DEF WorkReturns
  <2> QED
    BY <2>2, <2>3
<1>16. ASSUME WorkThrows PROVE IInv'
  <2>1. held \in Packages /\ held \notin input
    BY <1>16 DEF WorkThrows
  <2>2. /\ TypeOK'
        /\ BodyInv'
        /\ FlagTellsTruth'
    BY <1>16, <2>1 DEF WorkThrows
  <2>3. AcceptedIsAccountedFor'
    BY <1>16, <2>1 DEF WorkThrows
  <2> QED
    BY <2>2, <2>3
<1>17. ASSUME Recover PROVE IInv'
  BY <1>17 DEF Recover, PerformTeardown, SetIdle
<1>18. ASSUME Exit PROVE IInv'
  BY <1>18 DEF Exit
<1>19. ASSUME NEW p \in Packages, AddWork(p) PROVE IInv'
  BY <1>19 DEF AddWork
<1>20. ASSUME NEW p \in Packages, Notify(p) PROVE IInv'
  BY <1>20 DEF Notify, Signal
<1>21. ASSUME NEW v \in Visitors, VisitCheck(v) PROVE IInv'
  BY <1>21 DEF VisitCheck
<1>22. ASSUME NEW v \in Visitors, VisitSetUp(v) PROVE IInv'
  BY <1>22 DEF VisitSetUp, EnsureWorkerIsSetUp, SetIdle, Locked
<1>23. ASSUME NEW v \in Visitors, VisitEnd(v) PROVE IInv'
  BY <1>23 DEF VisitEnd
<1>24. ASSUME RequestStop PROVE IInv'
  BY <1>24 DEF RequestStop
<1>25. ASSUME StopNotify PROVE IInv'
  BY <1>25 DEF StopNotify, Signal, Running
<1>26. ASSUME PeriodElapses PROVE IInv'
  BY <1>26 DEF PeriodElapses
<1>27. ASSUME IdleTimePasses PROVE IInv'
  BY <1>27 DEF IdleTimePasses
<1>28. ASSUME ResetLastIdle PROVE IInv'
  BY <1>28 DEF ResetLastIdle
<1>s. ASSUME UNCHANGED vars PROVE IInv'
  BY <1>s DEF vars
<1> QED
  BY <1>1, <1>2, <1>3, <1>4, <1>5, <1>6, <1>7, <1>8, <1>9, <1>10, <1>11, <1>12, <1>13,
     <1>14, <1>15, <1>16, <1>17, <1>18, <1>19, <1>20, <1>21, <1>22, <1>23, <1>24, <1>25,
     <1>26, <1>27, <1>28, <1>s
     DEF Next, MainThread, MainThreadAlone, Submitter, Visitor

(* The inductive invariant holds in every reachable state. *)
THEOREM Invariant == Spec => []IInv
<1>1. Init => IInv
  BY InitHolds
<1>2. IInv /\ [Next]_vars => IInv'
  BY NextKeeps
<1> QED
  BY <1>1, <1>2, PTL DEF Spec

(* The variables keep their types. *)
THEOREM TypeCorrect == Spec => []TypeOK
<1>1. IInv => TypeOK
  BY DEF IInv
<1> QED
  BY <1>1, Invariant, PTL

(* work() is only called on a worker that is set up, holds its resources,  *)
(* has been torn down since it last threw, and is not taken to be idle     *)
(* (worker-thread.tcc:139-162), whatever any number of visitors do.        *)
THEOREM WorkIsSafe == Spec => []WorksOnSetUpWorker
<1>1. IInv => WorksOnSetUpWorker
  BY DEF IInv, BodyInv, FlagTellsTruth, WorksOnSetUpWorker, Ready
<1> QED
  BY <1>1, Invariant, PTL

(* m_is_set_up is true exactly while the worker holds its resources, as    *)
(* long as main_thread runs (worker-thread.tcc:234-260).                   *)
THEOREM FlagIsTrue == Spec => []FlagTellsTruth
<1>1. IInv => FlagTellsTruth
  BY DEF IInv
<1> QED
  BY <1>1, Invariant, PTL

(* No accepted package is lost or answered early, for any number of        *)
(* packages and any that throw (worker-thread.tcc:141-163).                *)
THEOREM PackagesAccountedFor == Spec => []AcceptedIsAccountedFor
<1>1. IInv => AcceptedIsAccountedFor
  BY DEF IInv
<1> QED
  BY <1>1, Invariant, PTL

-----------------------------------------------------------------------------
(* main_thread uses the input queue as a WorkStore allows. *)

(* The initial state is one of the store. *)
LEMMA InitStore == Init => Store!Init
  BY DEF Init, Store!Init

(* Every step is a step of the store or leaves it alone. *)
LEMMA StepUsesStore == IInv /\ [Next]_vars => [Store!Next]_(Store!storeVars)
<1> SUFFICES ASSUME IInv, [Next]_vars PROVE [Store!Next]_(Store!storeVars)
  OBVIOUS
<1> USE WorkerThreadAssumption
    DEF IInv, TypeOK, BodyInv, AcceptedIsAccountedFor, Labels, Goto, queueVars, workerVars,
        Store!storeVars
<1>1. ASSUME NEW p \in Packages, AddWork(p) PROVE Store!Add(p)
  BY <1>1 DEF AddWork, Store!Add
<1>2. ASSUME Awake PROVE Store!Ask \/ UNCHANGED Store!storeVars
  BY <1>2 DEF Awake, Store!Ask
<1>3. ASSUME SetUp PROVE Store!Commit
  BY <1>3 DEF SetUp, Store!Commit
<1>4. ASSUME NEW p \in Packages, RetrieveWork(p) PROVE Store!Take(p)
  BY <1>4 DEF RetrieveWork, Store!Take
<1>5. ASSUME WorkReturns \/ WorkThrows PROVE Store!Release
  BY <1>5 DEF WorkReturns, WorkThrows, Store!Release
<1>6. ASSUME \/ Begin \/ LoopHead \/ Release \/ CheckInput \/ EvaluatePredicate \/ Block
             \/ WaitTimesOut \/ Relock \/ SetBusy \/ Recover \/ Exit
      PROVE  UNCHANGED Store!storeVars
  BY <1>6 DEF Begin, LoopHead, Release, CheckInput, EvaluatePredicate, Block,
     WaitTimesOut,
              Relock, SetBusy, Recover, Exit
<1>7. ASSUME \/ Start \/ WakeSpuriously \/ RequestStop \/ StopNotify
             \/ PeriodElapses \/ IdleTimePasses \/ ResetLastIdle
      PROVE  UNCHANGED Store!storeVars
  BY <1>7 DEF Start, WakeSpuriously, RequestStop, StopNotify, Signal, PeriodElapses,
              IdleTimePasses, ResetLastIdle
<1>8. ASSUME NEW p \in Packages, Notify(p) PROVE UNCHANGED Store!storeVars
  BY <1>8 DEF Notify, Signal
<1>9. ASSUME NEW v \in Visitors, Visitor(v) PROVE UNCHANGED Store!storeVars
  BY <1>9 DEF Visitor, VisitCheck, VisitSetUp, VisitEnd
<1>10. ASSUME UNCHANGED vars PROVE UNCHANGED Store!storeVars
  BY <1>10 DEF vars
<1> QED
  BY <1>1, <1>2, <1>3, <1>4, <1>5, <1>6, <1>7, <1>8, <1>9, <1>10
     DEF Next, MainThread, MainThreadAlone, Submitter, Store!Next

(* main_thread retrieves only after is_empty() returned false, one package *)
(* at a time: what the assertion and the exception of the input queue rely *)
(* on (worker-thread.tcc:134-141, input-queue.tcc:71-75).                  *)
THEOREM UsesInputQueueWell == Spec => UsesStore
<1>1. Init => Store!Init
  BY InitStore
<1>2. IInv /\ [Next]_vars => [Store!Next]_(Store!storeVars)
  BY StepUsesStore
<1> QED
  BY <1>1, <1>2, Invariant, PTL DEF Spec, UsesStore, Store!Spec
=============================================================================
