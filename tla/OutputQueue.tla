----------------------------- MODULE OutputQueue -----------------------------
(***************************************************************************)
(* OutputQueue of the round-robin schedulers: the worker thread appends    *)
(* the contexts of finished packages, a pool of output threads commits     *)
(* them to the clients without holding the mutex.                          *)
(*                                                                         *)
(* The destructor asks every thread to stop, notifies until m_thread_count *)
(* is zero, and only then destroys m_cv and joins the threads: m_cv is the *)
(* last member, so it goes before m_threads does.                          *)
(***************************************************************************)
EXTENDS Naturals, Sequences, Functions, FiniteSets

CONSTANTS
    Contexts,       \* work_context_t, each pushed once
    OutputThreads,
    NoContext

ASSUME OutputQueueAssumption == NoContext \notin Contexts /\ IsFiniteSet(OutputThreads)

VARIABLES
    output,     \* m_queue
    announce,   \* push_back has pushed and not yet notified
    opc,        \* where each output thread is
    carried,    \* the context an output thread is about to commit
    ostop,      \* the stop tokens of m_threads are set
    dpc,        \* where the destructor is
    pushed,     \* history: contexts in the order of push_back
    sent        \* history: contexts in the order of commit

threadVars == <<opc, carried>>
historyVars == <<pushed, sent>>
outputVars == <<output, announce, threadVars, ostop, dpc, historyVars>>

ThreadLabels == {"new", "enter", "predicate", "block", "waiting", "commit", "ended"}

-----------------------------------------------------------------------------
(* Helpers.  The mutants are what plausible slips would make of the        *)
(* operator they precede; the specification does not use them.             *)

OutputGoto(t, label) == opc' = [opc EXCEPT ![t] = label]

(* m_thread_count *)
ThreadCount == Cardinality({t \in OutputThreads : opc[t] \notin {"new", "ended"}})

(* Nobody holds m_mutex; push_back holds it for a step only. *)
OutputUnlocked == \A t \in OutputThreads : opc[t] \notin {"predicate", "block"}

(* m_cv.notify_all() *)
WakeAll ==
    opc' = [t \in OutputThreads |-> IF opc[t] = "waiting" THEN "enter" ELSE opc[t]]

-----------------------------------------------------------------------------
(* push_back: under the mutex ... *)
PushBack(c) ==
    /\ ~announce /\ dpc = "alive"
    /\ OutputUnlocked
    /\ output' = Append(output, c)
    /\ pushed' = Append(pushed, c)
    /\ announce' = TRUE
    /\ UNCHANGED <<threadVars, ostop, dpc, sent>>

(* Mutant: nobody is told. *)
NotifyNobody ==
    /\ announce
    /\ announce' = FALSE
    /\ UNCHANGED <<output, threadVars, ostop, dpc, historyVars>>

(* ... and without it. *)
NotifyPushed ==
    /\ announce
    /\ announce' = FALSE
    /\ WakeAll
    /\ UNCHANGED <<output, carried, ostop, dpc, historyVars>>

-----------------------------------------------------------------------------
(* output_thread *)

(* ++m_thread_count *)
OutputBegin(t) ==
    /\ opc[t] = "new"
    /\ OutputGoto(t, "enter")
    /\ UNCHANGED <<output, announce, carried, ostop, dpc, historyVars>>

(* The mutex is taken: first, after a commit, or by a woken thread. *)
OutputLock(t) ==
    /\ opc[t] = "enter"
    /\ OutputUnlocked
    /\ OutputGoto(t, "predicate")
    /\ UNCHANGED <<output, announce, carried, ostop, dpc, historyVars>>

(* m_queue.size() > 0 || st.stop_requested() is false *)
OutputSleep(t) ==
    /\ opc[t] = "predicate"
    /\ output = <<>> /\ ~ostop
    /\ OutputGoto(t, "block")
    /\ UNCHANGED <<output, announce, carried, ostop, dpc, historyVars>>

(* The mutex is given back, notifications reach the thread from now on. *)
OutputBlock(t) ==
    /\ opc[t] = "block"
    /\ OutputGoto(t, "waiting")
    /\ UNCHANGED <<output, announce, carried, ostop, dpc, historyVars>>

OutputWakeSpuriously(t) ==
    /\ opc[t] = "waiting"
    /\ OutputGoto(t, "enter")
    /\ UNCHANGED <<output, announce, carried, ostop, dpc, historyVars>>

(* A stop request is honoured before results that are left. *)
OutputEnd(t) ==
    /\ opc[t] = "predicate"
    /\ ostop
    /\ OutputGoto(t, "ended")
    /\ UNCHANGED <<output, announce, carried, ostop, dpc, historyVars>>

(* Mutant: the context is removed from the queue once it is committed. *)
OutputRetrieveFront(t) ==
    /\ opc[t] = "predicate"
    /\ output # <<>> /\ ~ostop
    /\ carried' = [carried EXCEPT ![t] = Head(output)]
    /\ OutputGoto(t, "commit")
    /\ UNCHANGED <<output, announce, ostop, dpc, historyVars>>

(* The oldest context is retrieved, and the mutex given back. *)
OutputRetrieve(t) ==
    /\ opc[t] = "predicate"
    /\ output # <<>> /\ ~ostop
    /\ carried' = [carried EXCEPT ![t] = Head(output)]
    /\ output' = Tail(output)
    /\ OutputGoto(t, "commit")
    /\ UNCHANGED <<announce, ostop, dpc, historyVars>>

(* context.commit() *)
OutputCommit(t) ==
    /\ opc[t] = "commit"
    /\ sent' = Append(sent, carried[t])
    /\ carried' = [carried EXCEPT ![t] = NoContext]
    /\ OutputGoto(t, "enter")
    /\ UNCHANGED <<output, announce, ostop, dpc, pushed>>

-----------------------------------------------------------------------------
(* ~OutputQueue *)

(* The owner destroys the queue once the worker thread is gone; every      *)
(* output thread is asked to stop.                                         *)
OutputDestroy ==
    /\ dpc = "alive" /\ ~announce
    /\ dpc' = "stopping"
    /\ ostop' = TRUE
    /\ UNCHANGED <<output, announce, threadVars, historyVars>>

(* notify(), again every 10 ms *)
OutputStopNotify ==
    /\ dpc = "stopping"
    /\ ThreadCount > 0
    /\ WakeAll
    /\ UNCHANGED <<output, announce, carried, ostop, dpc, historyVars>>

(* Mutant: the destructor notifies once and goes on. *)
OutputLeaveLoopAtOnce ==
    /\ dpc = "stopping"
    /\ dpc' = "cv_destroyed"
    /\ UNCHANGED <<output, announce, threadVars, ostop, historyVars>>

(* m_thread_count is zero; threads that have not begun yet do not count.   *)
OutputLeaveLoop ==
    /\ dpc = "stopping"
    /\ ThreadCount = 0
    /\ dpc' = "cv_destroyed"
    /\ UNCHANGED <<output, announce, threadVars, ostop, historyVars>>

(* ~jthread joins every thread. *)
OutputJoin ==
    /\ dpc = "cv_destroyed"
    /\ \A t \in OutputThreads : opc[t] = "ended"
    /\ dpc' = "gone"
    /\ UNCHANGED <<output, announce, threadVars, ostop, historyVars>>

-----------------------------------------------------------------------------
OutputInit ==
    /\ output = <<>> /\ announce = FALSE
    /\ opc = [t \in OutputThreads |-> "new"]
    /\ carried = [t \in OutputThreads |-> NoContext]
    /\ ostop = FALSE /\ dpc = "alive"
    /\ pushed = <<>> /\ sent = <<>>

OutputThread(t) ==
    \/ OutputBegin(t) \/ OutputLock(t) \/ OutputSleep(t) \/ OutputBlock(t)
    \/ OutputEnd(t) \/ OutputRetrieve(t) \/ OutputCommit(t)

OutputDestructor == OutputStopNotify \/ OutputLeaveLoop \/ OutputJoin

(* The worker thread pushes every context once. *)
WorkerPushes(c) == c \notin Range(pushed) /\ PushBack(c)

OutputNext ==
    \/ \E c \in Contexts : WorkerPushes(c)
    \/ NotifyPushed
    \/ \E t \in OutputThreads : OutputThread(t) \/ OutputWakeSpuriously(t)
    \/ OutputDestroy \/ OutputDestructor

OutputSpec == OutputInit /\ [][OutputNext]_outputVars

-----------------------------------------------------------------------------
(* Properties *)

(* The type invariant. *)
OutputTypeOK ==
    /\ output \in Seq(Contexts) /\ pushed \in Seq(Contexts) /\ sent \in Seq(Contexts)
    /\ announce \in BOOLEAN /\ ostop \in BOOLEAN
    /\ opc \in [OutputThreads -> ThreadLabels]
    /\ carried \in [OutputThreads -> Contexts \union {NoContext}]
    /\ dpc \in {"alive", "stopping", "cv_destroyed", "gone"}

(* No thread waits on m_cv, or is about to, when m_cv is destroyed, though *)
(* threads that have not begun were not counted (tcc:26-39).               *)
CvOutlivesWaiters ==
    dpc \in {"cv_destroyed", "gone"} =>
        \A t \in OutputThreads : opc[t] \notin {"block", "waiting"}
=============================================================================
