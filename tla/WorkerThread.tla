---------------------------- MODULE WorkerThread ----------------------------
(***************************************************************************)
(* WorkerThread of the round-robin scheduler: one thread sets the worker   *)
(* up, hands it one package after the other, and tears it down again.      *)
(*                                                                         *)
(* The thread holds m_mutex except while it waits on m_cv; the input queue *)
(* is guarded by mutexes of its own and notify() takes no lock at all.     *)
(* The input queue is the set a WorkStore promises (InputQueue implements  *)
(* it).  Other threads add work and notify, visit the worker, and destroy  *)
(* the object.                                                             *)
(***************************************************************************)
CONSTANTS
    Packages,       \* work packages; a client submits one again once answered
    NoPackage,
    Failing,        \* packages whose work() throws
    Visitors,       \* threads that call visit_set_up_const
    ReleaseIsZero   \* m_teardown_period == 0s

ASSUME WorkerThreadAssumption ==
    /\ NoPackage \notin Packages
    /\ Failing \subseteq Packages
    /\ ReleaseIsZero \in BOOLEAN

VARIABLES
    input,      \* packages in m_input
    held,       \* the package main_thread retrieved
    outcome,    \* what became of a package
    notifying,  \* packages added whose submitter has not called notify() yet
    wpc,        \* where main_thread is
    timed,      \* main_thread waits with wait_for, not with wait
    isSetUp,    \* m_is_set_up
    acquired,   \* m_worker holds its resources: setup() after the last teardown()
    tainted,    \* work() threw since the last teardown()
    elapsed,    \* m_teardown_period has passed since m_last_release
    isIdle,     \* m_is_idle
    idleLong,   \* the idle timeout has passed since m_last_idle
    stop,       \* m_thread's stop token
    vpc         \* where each visitor is

queueVars == <<input, held, outcome, notifying>>
workerVars == <<isSetUp, acquired, tainted, elapsed, isIdle, idleLong>>
vars == <<queueVars, wpc, timed, workerVars, stop, vpc>>

Labels == {"new", "starting", "loop", "release", "check", "predicate", "block",
           "waiting", "signalled", "awake", "set_up", "retrieve", "busy", "work",
           "recover", "exit", "ended"}

-----------------------------------------------------------------------------
(* Helpers.  A mutant is what a plausible slip would make of the operator  *)
(* it precedes; the specification does not use it.                         *)

Goto(label) == wpc' = label

(* m_running *)
Running == wpc \notin {"new", "ended"}

(* main_thread holds m_mutex. *)
Locked == wpc \notin {"new", "starting", "waiting", "signalled", "ended"}

(* Mutant: the worker is released whenever there is no work. *)
IsTeardownNeededWhenEmpty == input = {}

IsTeardownNeeded == IF ReleaseIsZero THEN input = {} ELSE elapsed

SetIdle == isIdle' = TRUE /\ idleLong' = FALSE

EnsureWorkerIsSetUp ==
    IF isSetUp
      THEN UNCHANGED workerVars
      ELSE /\ isSetUp' = TRUE
           /\ acquired' = TRUE
           /\ elapsed' = FALSE
           /\ SetIdle
           /\ UNCHANGED tainted

PerformTeardown ==
    /\ SetIdle
    /\ isSetUp' = FALSE
    /\ acquired' = FALSE
    /\ tainted' = FALSE
    /\ UNCHANGED elapsed

(* m_cv.notify_one(): only a thread that waits already is woken. *)
Signal(label) == IF label = "waiting" THEN "signalled" ELSE label

-----------------------------------------------------------------------------
(* main_thread *)

(* start(), called by start_server *)
Start ==
    /\ ~Running /\ wpc = "new"
    /\ Goto("starting")
    /\ UNCHANGED <<queueVars, timed, workerVars, stop, vpc>>

(* The new thread locks m_mutex. *)
Begin ==
    /\ wpc = "starting"
    /\ Goto("loop")
    /\ UNCHANGED <<queueVars, timed, workerVars, stop, vpc>>

(* The loop condition, and whether it is time for the periodic teardown *)
LoopHead ==
    /\ wpc = "loop"
    /\ Goto(IF stop THEN "exit"
            ELSE IF isSetUp /\ IsTeardownNeeded THEN "release" ELSE "check")
    /\ UNCHANGED <<queueVars, timed, workerVars, stop, vpc>>

Release ==
    /\ wpc = "release"
    /\ PerformTeardown
    /\ Goto("check")
    /\ UNCHANGED <<queueVars, timed, stop, vpc>>

(* Without work the worker becomes idle; if it is set up it only sleeps    *)
(* until the next release.                                                 *)
CheckInput ==
    /\ wpc = "check"
    /\ IF input = {}
         THEN /\ Goto("predicate")
              /\ timed' = isSetUp
              /\ SetIdle
         ELSE /\ Goto("awake")
              /\ UNCHANGED <<timed, isIdle, idleLong>>
    /\ UNCHANGED <<queueVars, isSetUp, acquired, tainted, elapsed, stop, vpc>>

(* Mutant: the wait is only over when the thread shall stop. *)
EvaluatePredicateStopOnly ==
    /\ wpc = "predicate"
    /\ Goto(IF stop THEN "awake" ELSE "block")
    /\ UNCHANGED <<queueVars, timed, workerVars, stop, vpc>>

(* st.stop_requested() || !m_input.is_empty() *)
EvaluatePredicate ==
    /\ wpc = "predicate"
    /\ Goto(IF stop \/ input # {} THEN "awake" ELSE "block")
    /\ UNCHANGED <<queueVars, timed, workerVars, stop, vpc>>

(* m_cv gives m_mutex back and starts to wait: notify_one() reaches the    *)
(* thread from now on, not since the predicate was evaluated.              *)
Block ==
    /\ wpc = "block"
    /\ Goto("waiting")
    /\ UNCHANGED <<queueVars, timed, workerVars, stop, vpc>>

(* A condition variable may wake up on its own. *)
WakeSpuriously ==
    /\ wpc = "waiting"
    /\ Goto("signalled")
    /\ UNCHANGED <<queueVars, timed, workerVars, stop, vpc>>

(* wait_for ends with the release period. *)
WaitTimesOut ==
    /\ wpc = "waiting"
    /\ timed /\ elapsed
    /\ Goto("awake")
    /\ UNCHANGED <<queueVars, timed, workerVars, stop, vpc>>

(* A woken thread locks m_mutex again.  The deadline of wait_for is        *)
(* absolute: past it the wait is over, else the predicate decides.         *)
Relock ==
    /\ wpc = "signalled"
    /\ Goto(IF timed /\ elapsed THEN "awake" ELSE "predicate")
    /\ UNCHANGED <<queueVars, timed, workerVars, stop, vpc>>

(* Mutant: a wait that is over means work. *)
AwakeUnchecked ==
    /\ wpc = "awake"
    /\ Goto(IF stop THEN "exit" ELSE "set_up")
    /\ UNCHANGED <<queueVars, timed, workerVars, stop, vpc>>

(* After the wait: leave, go round again, or work. *)
Awake ==
    /\ wpc = "awake"
    /\ Goto(IF stop THEN "exit" ELSE IF input = {} THEN "loop" ELSE "set_up")
    /\ UNCHANGED <<queueVars, timed, workerVars, stop, vpc>>

SetUp ==
    /\ wpc = "set_up"
    /\ EnsureWorkerIsSetUp
    /\ Goto("retrieve")
    /\ UNCHANGED <<queueVars, timed, stop, vpc>>

RetrieveWork(p) ==
    /\ wpc = "retrieve"
    /\ p \in input
    /\ input' = input \ {p}
    /\ held' = p
    /\ Goto("busy")
    /\ UNCHANGED <<outcome, notifying, timed, workerVars, stop, vpc>>

SetBusy ==
    /\ wpc = "busy"
    /\ isIdle' = FALSE
    /\ Goto("work")
    /\ UNCHANGED <<queueVars, timed, isSetUp, acquired, tainted, elapsed, idleLong, stop, vpc>>

(* work() returned: the result goes to the output queue. *)
WorkReturns ==
    /\ wpc = "work" /\ held \notin Failing
    /\ outcome' = [outcome EXCEPT ![held] = "result"]
    /\ held' = NoPackage
    /\ Goto("loop")
    /\ UNCHANGED <<input, notifying, timed, workerVars, stop, vpc>>

(* Mutant: the exception is answered, the worker stays set up. *)
WorkThrowsKeepWorker ==
    /\ wpc = "work" /\ held \in Failing
    /\ outcome' = [outcome EXCEPT ![held] = "exception"]
    /\ held' = NoPackage
    /\ tainted' = TRUE
    /\ Goto("loop")
    /\ UNCHANGED <<input, notifying, timed, isSetUp, acquired, elapsed, isIdle, idleLong>>
    /\ UNCHANGED <<stop, vpc>>

(* Mutant: the worker is torn down, nobody answers the client. *)
WorkThrowsUnanswered ==
    /\ wpc = "work" /\ held \in Failing
    /\ held' = NoPackage
    /\ tainted' = TRUE
    /\ Goto("recover")
    /\ UNCHANGED <<input, outcome, notifying, timed, isSetUp, acquired, elapsed, isIdle, idleLong>>
    /\ UNCHANGED <<stop, vpc>>

(* work() threw: the exception is committed to the client ... *)
WorkThrows ==
    /\ wpc = "work" /\ held \in Failing
    /\ outcome' = [outcome EXCEPT ![held] = "exception"]
    /\ held' = NoPackage
    /\ tainted' = TRUE
    /\ Goto("recover")
    /\ UNCHANGED <<input, notifying, timed, isSetUp, acquired, elapsed, isIdle, idleLong>>
    /\ UNCHANGED <<stop, vpc>>

(* ... and the worker is torn down. *)
Recover ==
    /\ wpc = "recover"
    /\ PerformTeardown
    /\ Goto("loop")
    /\ UNCHANGED <<queueVars, timed, stop, vpc>>

(* The last teardown leaves m_is_set_up as it is; m_mutex is released.     *)
Exit ==
    /\ wpc = "exit"
    /\ acquired' = FALSE
    /\ tainted' = FALSE
    /\ Goto("ended")
    /\ UNCHANGED <<queueVars, timed, isSetUp, elapsed, isIdle, idleLong, stop, vpc>>

-----------------------------------------------------------------------------
(* Other threads *)

(* The first half of submit_work; a client waits for the answer to a       *)
(* package before it submits it again.                                     *)
AddWork(p) ==
    /\ outcome[p] # "accepted" /\ p \notin notifying
    /\ outcome' = [outcome EXCEPT ![p] = "accepted"]
    /\ input' = input \union {p}
    /\ notifying' = notifying \union {p}
    /\ UNCHANGED <<held, wpc, timed, workerVars, stop, vpc>>

(* The second half of submit_work *)
Notify(p) ==
    /\ p \in notifying
    /\ notifying' = notifying \ {p}
    /\ wpc' = Signal(wpc)
    /\ UNCHANGED <<input, held, outcome, timed, workerVars, stop, vpc>>

(* visit_set_up_const looks at m_is_set_up without the mutex, ... *)
VisitCheck(v) ==
    /\ vpc[v] = "away"
    /\ vpc' = [vpc EXCEPT ![v] = IF isSetUp THEN "visiting" ELSE "lock"]
    /\ UNCHANGED <<queueVars, wpc, timed, workerVars, stop>>

(* ... sets the worker up under it if need be, ... *)
VisitSetUp(v) ==
    /\ vpc[v] = "lock"
    /\ ~Locked
    /\ EnsureWorkerIsSetUp
    /\ vpc' = [vpc EXCEPT ![v] = "visiting"]
    /\ UNCHANGED <<queueVars, wpc, timed, stop>>

(* ... and applies the visitor without it. *)
VisitEnd(v) ==
    /\ vpc[v] = "visiting"
    /\ vpc' = [vpc EXCEPT ![v] = "away"]
    /\ UNCHANGED <<queueVars, wpc, timed, workerVars, stop>>

(* ~WorkerThread: the stop request ... *)
RequestStop ==
    /\ wpc # "new" /\ ~stop
    /\ stop' = TRUE
    /\ UNCHANGED <<queueVars, wpc, timed, workerVars, vpc>>

(* ... and notify(), again every 100 ms until m_running is false. *)
StopNotify ==
    /\ stop /\ Running
    /\ wpc' = Signal(wpc)
    /\ UNCHANGED <<queueVars, timed, workerVars, stop, vpc>>

(* m_teardown_period passes. *)
PeriodElapses ==
    /\ ~ReleaseIsZero /\ isSetUp
    /\ elapsed' = TRUE
    /\ UNCHANGED <<queueVars, wpc, timed, isSetUp, acquired, tainted, isIdle, idleLong>>
    /\ UNCHANGED <<stop, vpc>>

(* The idle timeout passes while the worker is idle. *)
IdleTimePasses ==
    /\ isIdle
    /\ idleLong' = TRUE
    /\ UNCHANGED <<queueVars, wpc, timed, isSetUp, acquired, tainted, elapsed, isIdle>>
    /\ UNCHANGED <<stop, vpc>>

(* reset_last_idle(), called by the owner of the scheduler *)
ResetLastIdle ==
    /\ idleLong' = FALSE
    /\ UNCHANGED <<queueVars, wpc, timed, isSetUp, acquired, tainted, elapsed, isIdle>>
    /\ UNCHANGED <<stop, vpc>>

-----------------------------------------------------------------------------
Init ==
    /\ input = {} /\ held = NoPackage /\ notifying = {}
    /\ outcome = [p \in Packages |-> "none"]
    /\ wpc = "new" /\ timed = FALSE
    /\ isSetUp = FALSE /\ acquired = FALSE /\ tainted = FALSE
    /\ elapsed = FALSE /\ isIdle = TRUE /\ idleLong = FALSE
    /\ stop = FALSE
    /\ vpc = [v \in Visitors |-> "away"]

(* What main_thread does on its own; WorkReturns hands over a result. *)
MainThreadAlone ==
    \/ Begin \/ LoopHead \/ Release \/ CheckInput \/ EvaluatePredicate \/ Block
    \/ WaitTimesOut \/ Relock \/ Awake \/ SetUp
    \/ \E p \in Packages : RetrieveWork(p)
    \/ SetBusy \/ WorkThrows \/ Recover \/ Exit

MainThread == MainThreadAlone \/ WorkReturns

Submitter(p) == AddWork(p) \/ Notify(p)

Visitor(v) == VisitCheck(v) \/ VisitSetUp(v) \/ VisitEnd(v)

Next ==
    \/ Start \/ MainThread \/ WakeSpuriously
    \/ \E p \in Packages : Submitter(p)
    \/ \E v \in Visitors : Visitor(v)
    \/ RequestStop \/ StopNotify
    \/ PeriodElapses \/ IdleTimePasses \/ ResetLastIdle

Spec == Init /\ [][Next]_vars

(* The thread is scheduled and work() returns; a submitter that added its  *)
(* package notifies; the destructor loops; time passes.                    *)
Fairness ==
    /\ WF_vars(MainThread)
    /\ \A p \in Packages : WF_vars(Notify(p))
    /\ WF_vars(StopNotify)
    /\ WF_vars(PeriodElapses)

FairSpec == Spec /\ Fairness

-----------------------------------------------------------------------------
(* Properties *)

(* The type invariant; a package is held from retrieve_work to the end of  *)
(* the loop's body.                                                        *)
TypeOK ==
    /\ input \subseteq Packages
    /\ held \in IF wpc \in {"busy", "work"} THEN Packages ELSE {NoPackage}
    /\ outcome \in [Packages -> {"none", "accepted", "result", "exception"}]
    /\ notifying \subseteq Packages
    /\ wpc \in Labels
    /\ timed \in BOOLEAN
    /\ isSetUp \in BOOLEAN /\ acquired \in BOOLEAN /\ tainted \in BOOLEAN
    /\ elapsed \in BOOLEAN /\ isIdle \in BOOLEAN /\ idleLong \in BOOLEAN
    /\ stop \in BOOLEAN
    /\ vpc \in [Visitors -> {"away", "lock", "visiting"}]

(* work() is only called on a worker that holds its resources, that has    *)
(* been torn down since work() last threw, and that is not taken to be     *)
(* idle, whatever visitors set up in the meantime (worker-thread.tcc:139-  *)
(* 162).                                                                   *)
WorksOnSetUpWorker ==
    wpc = "work" => isSetUp /\ acquired /\ ~tainted /\ ~isIdle

(* As long as main_thread runs m_is_set_up tells the truth: setup() is     *)
(* never called on resources that are held already, teardown() of the      *)
(* periodic release never on resources that are not (worker-thread.tcc:    *)
(* 234-260).                                                               *)
FlagTellsTruth == wpc # "ended" => isSetUp = acquired

(* A package accepted is in the input queue or in the worker's hands until *)
(* its client got a result or the exception (worker-thread.tcc:141-163).   *)
AcceptedIsAccountedFor ==
    \A p \in Packages : outcome[p] = "accepted" <=> p \in input \/ p = held

(* main_thread uses the input queue as a WorkStore has to be used: it      *)
(* retrieves only after is_empty() returned false, and is done with one    *)
(* package before it asks again (worker-thread.tcc:134-141).               *)
Store == INSTANCE WorkStore WITH store <- input, sawWork <- (wpc = "set_up")

UsesStore == Store!Spec

(* Work that is there outside the window between a false predicate and the *)
(* end of the wait is taken up (worker-thread.tcc:108-141).                *)
WorkIsTakenUp ==
    input # {} /\ wpc \notin {"new", "block", "waiting"} ~> held # NoPackage \/ stop

(* A worker that is set up when its release interval ends is torn down,    *)
(* busy or not, once the thread is started; but a wait that began without  *)
(* a deadline goes on, though a visitor set the worker up meanwhile        *)
(* (worker-thread.tcc:109-126, 186-188).                                   *)
ReleaseHonoured ==
    wpc # "new" /\ isSetUp /\ elapsed ~> ~isSetUp \/ stop \/ (wpc = "waiting" /\ ~timed)

(* worker-thread.h:58-59 of notify(): "Notify worker about new work to be  *)
(* performed."  So work that was added and notified is performed.  The     *)
(* notification is lost between predicate and wait.                        *)
NotifiedWorkIsTakenUp == input # {} /\ wpc # "new" ~> held # NoPackage \/ stop
=============================================================================
