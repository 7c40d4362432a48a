----------------------------- MODULE IdleTimeout -----------------------------
(***************************************************************************)
(* IdleTimeout of the round-robin schedulers: start_server() blocks in     *)
(* wait_until_idle_for() until the worker thread has been idle for the     *)
(* timeout, or until the IdleTimeout is destroyed.                         *)
(*                                                                         *)
(* One thread waits, so m_mutex is never contended; the destructor does    *)
(* not lock it.                                                            *)
(***************************************************************************)
CONSTANT TimeoutIsZero      \* m_timeout == 0s: there is no timeout

VARIABLES
    isIdle,     \* the worker thread's m_is_idle
    idleLong,   \* m_timeout has passed since its m_last_idle
    ipc,        \* where the waiting thread is
    answer,     \* timeout_reached
    istop,      \* m_stop_flag
    idleGone    \* the destructor has returned

idleVars == <<ipc, answer, istop, idleGone>>

-----------------------------------------------------------------------------
IdleGoto(label) == ipc' = label

(* m_num_threads_idling > 0 *)
Idling == ipc \in {"wait", "waiting", "woken"}

(* timeout_reached: get_last_idle() is the current time for a busy worker; *)
(* without a timeout any end of the wait is taken to be the timeout.       *)
TimeoutReached == TimeoutIsZero \/ (isIdle /\ idleLong)

(* ++m_num_threads_idling, and the mutex is locked. *)
IdleEnter ==
    /\ ipc = "away"
    /\ IdleGoto("wait")
    /\ UNCHANGED <<answer, istop, idleGone>>

(* m_cv.wait() or wait_for() gives the mutex back. *)
IdleWait ==
    /\ ipc = "wait"
    /\ IdleGoto("waiting")
    /\ UNCHANGED <<answer, istop, idleGone>>

(* The waiting thread wakes up: spuriously or, with a timeout, at the      *)
(* latest when it may be reached.                                          *)
IdleWake ==
    /\ ipc = "waiting"
    /\ IdleGoto("woken")
    /\ UNCHANGED <<answer, istop, idleGone>>

(* Mutant: the loop goes on until the timeout is reached. *)
IdleCheckTimeoutOnly ==
    /\ ipc = "woken"
    /\ answer' = TimeoutReached
    /\ IdleGoto(IF TimeoutReached THEN "unlock" ELSE "wait")
    /\ UNCHANGED <<istop, idleGone>>

(* while (!timeout_reached && !m_stop_flag); then --m_num_threads_idling   *)
IdleCheck ==
    /\ ipc = "woken"
    /\ answer' = TimeoutReached
    /\ IdleGoto(IF TimeoutReached \/ istop THEN "unlock" ELSE "wait")
    /\ UNCHANGED <<istop, idleGone>>

(* The lock is released when the function returns. *)
IdleReturn ==
    /\ ipc = "unlock"
    /\ IdleGoto("returned")
    /\ UNCHANGED <<answer, istop, idleGone>>

(* ~IdleTimeout: m_stop_flag = true *)
IdleStop ==
    /\ ~istop
    /\ istop' = TRUE
    /\ UNCHANGED <<ipc, answer, idleGone>>

(* notify(), again every 10 ms *)
IdleStopNotify ==
    /\ istop /\ ~idleGone
    /\ ipc = "waiting"
    /\ IdleGoto("woken")
    /\ UNCHANGED <<answer, istop, idleGone>>

(* No thread is counted any more. *)
IdleDestroyed ==
    /\ istop /\ ~idleGone
    /\ ~Idling
    /\ idleGone' = TRUE
    /\ UNCHANGED <<ipc, answer, istop>>

IdleInit == ipc = "away" /\ answer = FALSE /\ istop = FALSE /\ idleGone = FALSE

IdleThread == IdleWait \/ IdleCheck \/ IdleReturn
=============================================================================
