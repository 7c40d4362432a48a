------------------------- MODULE RoundRobinScheduler -------------------------
(***************************************************************************)
(* RoundRobinScheduler: the RCF interface on top of the input queue, the   *)
(* worker thread, the output queue and the idle timeout.                   *)
(*                                                                         *)
(* A call of submit_work is handled by a thread of the RCF server's pool,  *)
(* worked on by the worker thread and answered by an output thread.  The   *)
(* owner's thread is in start_server(); the destructor resets the idle     *)
(* timeout, the worker thread, the output queue and the input queue one    *)
(* after the other, and the RCF server last.                               *)
(***************************************************************************)
EXTENDS Naturals, Sequences, FiniteSets

CONSTANTS
    Calls,          \* calls of submit_work, one work package each
    Unauthorized,   \* calls whose user data verify_user rejects
    Failing,        \* calls whose work throws
    NoPackage,
    OutputThreads,
    NumThreadsPre,  \* threads of the RCF server's pool
    TimeoutIsZero

ASSUME SchedulerAssumption ==
    /\ Unauthorized \subseteq Calls /\ NoPackage \notin Calls
    /\ IsFiniteSet(OutputThreads)
    /\ NumThreadsPre \in Nat \ {0}
    /\ TimeoutIsZero \in BOOLEAN

VARIABLES
    input, held, outcome, notifying, wpc, timed, isSetUp, acquired, tainted,
    elapsed, isIdle, idleLong, stop, vpc,                   \* m_worker_thread
    output, announce, opc, carried, ostop, dpc, pushed, sent, \* m_output_queue
    ipc, answer, istop, idleGone,                           \* m_idle_timeout
    cpc,        \* where each call is
    refused,    \* calls answered with UserNotAuthorized
    serving,    \* m_server is started
    spc         \* where the destructor is

(* The worker is released as soon as there is no work: m_teardown_period   *)
(* is zero.  Other periods are a matter of WorkerThread on its own.        *)
W == INSTANCE WorkerThread WITH Packages <- Calls, Visitors <- {}, ReleaseIsZero <- TRUE

O == INSTANCE OutputQueue WITH Contexts <- Calls, NoContext <- NoPackage

I == INSTANCE IdleTimeout

workerVars == <<input, held, outcome, notifying, wpc, timed, isSetUp, acquired, tainted,
                elapsed, isIdle, idleLong, stop, vpc>>
outputVars == <<output, announce, opc, carried, ostop, dpc, pushed, sent>>
idleVars == <<ipc, answer, istop, idleGone>>
callVars == <<cpc, refused, serving, spc>>
vars == <<workerVars, outputVars, idleVars, callVars>>

-----------------------------------------------------------------------------
(* Helpers *)

CallGoto(c, label) == cpc' = [cpc EXCEPT ![c] = label]

InHandler == {c \in Calls : cpc[c] \in {"verify", "add", "notify"}}

(* What a step of one part leaves alone *)
OnlyWorker == UNCHANGED <<outputVars, idleVars, callVars>>
OnlyOutput == UNCHANGED <<workerVars, idleVars, callVars>>
OnlyIdle == UNCHANGED <<workerVars, outputVars, callVars>>
OnlyCalls == UNCHANGED <<workerVars, outputVars, idleVars>>

-----------------------------------------------------------------------------
(* start_server() *)

StartWorker ==
    /\ W!Start
    /\ OnlyWorker

StartServer ==
    /\ wpc # "new" /\ ~serving /\ ipc = "away"
    /\ serving' = TRUE
    /\ OnlyCalls
    /\ UNCHANGED <<cpc, refused, spc>>

WaitUntilIdle ==
    /\ serving
    /\ I!IdleEnter
    /\ OnlyIdle

-----------------------------------------------------------------------------
(* submit_work, on a thread of the RCF server *)

(* m_worker_thread.reset() makes the pointer null before it destroys. *)
WorkerThere == spc \in {"alive", "idle_timeout"}

InputThere == spc \notin {"input_queue", "gone"}

Call(c) ==
    /\ serving
    /\ cpc[c] = "away"
    /\ Cardinality(InHandler) < NumThreadsPre
    /\ CallGoto(c, "verify")
    /\ OnlyCalls
    /\ UNCHANGED <<refused, serving, spc>>

(* m_worker_thread->verify_user(); who is not authorized is answered. *)
VerifyUser(c) ==
    /\ cpc[c] = "verify"
    /\ WorkerThere
    /\ IF c \in Unauthorized
         THEN CallGoto(c, "refused") /\ refused' = refused \union {c}
         ELSE CallGoto(c, "add") /\ UNCHANGED refused
    /\ OnlyCalls
    /\ UNCHANGED <<serving, spc>>

(* m_input_queue->add_work() *)
AddWork(c) ==
    /\ cpc[c] = "add"
    /\ InputThere
    /\ W!AddWork(c)
    /\ CallGoto(c, "notify")
    /\ UNCHANGED <<outputVars, idleVars, refused, serving, spc>>

(* m_worker_thread->notify() *)
NotifyWorker(c) ==
    /\ cpc[c] = "notify"
    /\ WorkerThere
    /\ W!Notify(c)
    /\ CallGoto(c, "submitted")
    /\ UNCHANGED <<outputVars, idleVars, refused, serving, spc>>

(* A part that was reset is used: the behaviour is undefined; the model    *)
(* follows what the other threads do.                                      *)
UseAfterReset(c) ==
    /\ \/ cpc[c] \in {"verify", "notify"} /\ ~WorkerThere
       \/ cpc[c] = "add" /\ ~InputThere
    /\ CallGoto(c, "undefined")
    /\ OnlyCalls
    /\ UNCHANGED <<refused, serving, spc>>

Handler(c) == VerifyUser(c) \/ AddWork(c) \/ NotifyWorker(c) \/ UseAfterReset(c)

-----------------------------------------------------------------------------
(* The worker thread: the result of work() is pushed to the output queue,  *)
(* and the output threads are notified before anything else happens.       *)
WorkerPushes ==
    /\ W!WorkReturns
    /\ O!PushBack(held)
    /\ UNCHANGED <<idleVars, callVars>>

WorkerNotifies ==
    /\ O!NotifyPushed
    /\ OnlyOutput

WorkerSteps ==
    /\ ~announce
    /\ W!MainThreadAlone
    /\ OnlyWorker

WorkerThread == WorkerPushes \/ WorkerNotifies \/ WorkerSteps

OutputThread(t) ==
    /\ O!OutputThread(t)
    /\ OnlyOutput

IdleThread ==
    /\ I!IdleThread
    /\ OnlyIdle

(* Condition variables wake up, time passes. *)
Environment ==
    \/ W!WakeSpuriously /\ OnlyWorker
    \/ W!IdleTimePasses /\ OnlyWorker
    \/ W!ResetLastIdle /\ spc = "alive" /\ OnlyWorker
    \/ \E t \in OutputThreads : O!OutputWakeSpuriously(t) /\ OnlyOutput
    \/ I!IdleWake /\ OnlyIdle

-----------------------------------------------------------------------------
(* ~RoundRobinScheduler.  start_server() has returned or is waiting: it    *)
(* returns false when the scheduler is destroyed meanwhile.                *)

DestroyIdleTimeout ==
    /\ spc = "alive"
    /\ ipc # "away"
    /\ I!IdleStop
    /\ spc' = "idle_timeout"
    /\ UNCHANGED <<workerVars, outputVars, cpc, refused, serving>>

DestroyWorkerThread ==
    /\ spc = "idle_timeout" /\ idleGone
    /\ W!RequestStop
    /\ spc' = "worker_thread"
    /\ UNCHANGED <<outputVars, idleVars, cpc, refused, serving>>

DestroyOutputQueue ==
    /\ spc = "worker_thread" /\ wpc = "ended"
    /\ O!OutputDestroy
    /\ spc' = "output_queue"
    /\ UNCHANGED <<workerVars, idleVars, cpc, refused, serving>>

DestroyInputQueue ==
    /\ spc = "output_queue" /\ dpc = "gone"
    /\ spc' = "input_queue"
    /\ OnlyCalls
    /\ UNCHANGED <<cpc, refused, serving>>

(* No handler is left when the server is gone. *)
DestroyServer ==
    /\ spc = "input_queue"
    /\ InHandler = {}
    /\ serving' = FALSE
    /\ spc' = "gone"
    /\ OnlyCalls
    /\ UNCHANGED <<cpc, refused>>

(* The loops of the destructors of the parts *)
DestructorLoops ==
    \/ I!IdleStopNotify /\ OnlyIdle
    \/ I!IdleDestroyed /\ OnlyIdle
    \/ W!StopNotify /\ OnlyWorker
    \/ O!OutputDestructor /\ OnlyOutput

Destructor ==
    \/ DestroyWorkerThread \/ DestroyOutputQueue \/ DestroyInputQueue \/ DestroyServer
    \/ DestructorLoops

-----------------------------------------------------------------------------
Init ==
    /\ W!Init /\ O!OutputInit /\ I!IdleInit
    /\ cpc = [c \in Calls |-> "away"]
    /\ refused = {}
    /\ serving = FALSE
    /\ spc = "alive"

Next ==
    \/ StartWorker \/ StartServer \/ WaitUntilIdle
    \/ \E c \in Calls : Call(c) \/ Handler(c)
    \/ WorkerThread
    \/ \E t \in OutputThreads : OutputThread(t)
    \/ IdleThread
    \/ Environment
    \/ DestroyIdleTimeout \/ Destructor

Spec == Init /\ [][Next]_vars

(* Every thread of the process is scheduled, work() and commit() return.   *)
(* The worker thread gets the output queue's mutex when it is free again   *)
(* and again: without strong fairness an output thread that wakes up       *)
(* spuriously without end could keep it away.  Nobody has to call, and     *)
(* nobody has to destroy.                                                  *)
Fairness ==
    /\ WF_vars(\E c \in Calls : Handler(c))
    /\ SF_vars(WorkerThread)
    /\ \A t \in OutputThreads : WF_vars(OutputThread(t))
    /\ WF_vars(IdleThread)
    /\ WF_vars(Destructor)

FairSpec == Spec /\ Fairness

-----------------------------------------------------------------------------
(* Properties *)

(* The ways in which call c was answered *)
Answers(c) ==
    (IF c \in refused THEN {<<"refused", 1>>} ELSE {})
    \union (IF outcome[c] = "exception" THEN {<<"exception", 1>>} ELSE {})
    \union {"result"} \X {i \in 1..Len(sent) : sent[i] = c}

(* Every result the worker thread made, and nothing else, is in one place: *)
(* in the output queue, with one output thread, or sent; what a shutdown   *)
(* leaves in the queue is lost, but never sent by two threads or taken for *)
(* an exception (worker-thread.tcc:146-160, output-queue.tcc:55-82).       *)
ResultsAccountedFor ==
    \A c \in Calls :
        Cardinality({i \in 1..Len(output) : output[i] = c})
          + Cardinality({t \in OutputThreads : carried[t] = c})
          + Cardinality({i \in 1..Len(sent) : sent[i] = c})
        = IF outcome[c] = "result" THEN 1 ELSE 0

(* The work of call c was notified; the worker thread sleeps on without a  *)
(* deadline: the notification came between predicate and wait.             *)
Missed(c) == cpc[c] = "submitted" /\ c \in input /\ wpc = "waiting" /\ ~timed

(* A call that is handled is answered, unless the scheduler is destroyed   *)
(* or its notification is lost (round-robin-scheduler.tcc:79-101): the     *)
(* worker takes it up, and an output thread sends what the worker made.    *)
EveryCallAnswered ==
    \A c \in Calls :
        cpc[c] # "away" ~> Answers(c) # {} \/ spc # "alive" \/ Missed(c)

(* The destructor returns, whatever the threads are doing when it begins   *)
(* (round-robin-scheduler.tcc:32-49).                                      *)
ShutdownCompletes ==
    spc # "alive" ~> spc = "gone" \/ \E c \in Calls : cpc[c] = "undefined"
=============================================================================
