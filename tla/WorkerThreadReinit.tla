------------------------- MODULE WorkerThreadReinit -------------------------
(***************************************************************************)
(* WorkerThreadReinit, the worker thread of the reinit scheduler, together *)
(* with the clients' calls and the SessionStorage they share               *)
(* (worker-thread-reinit.tcc).                                             *)
(*                                                                         *)
(* Before the worker works on a package it makes sure that the hardware is *)
(* in the state of the package's session: it takes a snapshot of the       *)
(* session it leaves and reinitialises the one it enters.  Packages that   *)
(* are early, or whose reinit data are not there, go back to the input     *)
(* queue in threads of their own.                                          *)
(*                                                                         *)
(* A step of the worker between two regions of the storage is a step here; *)
(* the regions are those of SessionStorage.  Which of several sessions is  *)
(* served first is InputQueue's matter and left open.                      *)
(***************************************************************************)
EXTENDS Integers, FiniteSets, Sequences

CONSTANTS
    Sessions, Connections, SessionOf, ReinitIds, MaxNum,
    NoSession, NoId, NoConnection,
    Script,     \* the calls that each connection's client makes, in order
    MayStop,    \* the scheduler may be destroyed
    MayThrow    \* work() may throw

VARIABLES
    entry, at, arg, wat, job, forever, pkg, expired,    \* of SessionStorage
    calls,      \* how many of its calls each client has made
    floating,   \* packages that a thread puts back into the input queue
    mpc,        \* where main_thread() is
    session,    \* m_current_session_id
    reinitId,   \* m_current_reinit_id
    changed,    \* session_switched or reinit_id_changed
    isSetUp,    \* m_is_set_up
    stop,       \* stop has been requested
    loaded,     \* ghost: session and id of the reinit data applied since setup
    done,       \* ghost: packages worked on, in order: whose, and which of its calls
    setBack     \* ghost: sessions whose number a fast-forward has set back

Storage == INSTANCE SessionStorage

storageVars == <<entry, at, arg, wat, job, forever, pkg, expired>>
mainVars == <<mpc, session, reinitId, changed, isSetUp, loaded, done>>
vars == <<storageVars, calls, floating, mainVars, stop, setBack>>

(* A client's calls, and the ids that the clients of a session announce;   *)
(* they are drawn at random (on-demand-upload.tcc:285).                    *)
Operations == DOMAIN Storage!Arguments
CallType == [op : Operations, arg : UNION {Storage!Arguments[op] : op \in Operations}]
Announces(s, id) ==
    \E c \in Connections :
        SessionOf[c] = s /\ \E k \in DOMAIN Script[c] : Script[c][k] = [op |-> "notify", arg |-> id]

ASSUME ReinitAssumption ==
    /\ Storage!StorageAssumption
    /\ Script \in [Connections -> Seq(CallType)]
    /\ \A s, t \in Sessions, id \in ReinitIds : Announces(s, id) /\ Announces(t, id) => s = t

Nothing == <<NoSession, NoId>>

Goto(label) == mpc' = label

-----------------------------------------------------------------------------
(* The clients *)

(* The next call of a script *)
MakeCall(c) ==
    /\ calls[c] < Len(Script[c])
    /\ LET call == Script[c][calls[c] + 1]
       IN  Storage!Call(c, call.op) /\ arg'[c] = call.arg
    /\ calls' = [calls EXCEPT ![c] = @ + 1]
    /\ UNCHANGED <<floating, mainVars, stop, setBack>>

(* The client is gone when its script is over. *)
ClientEnds(c) ==
    /\ calls[c] = Len(Script[c])
    /\ Storage!Disconnect(c)
    /\ UNCHANGED <<calls, floating, mainVars, stop, setBack>>

(* The server works on a call. *)
Serve(c) ==
    /\ \/ Storage!HandleNotify(c) \/ Storage!HandlePending(c) \/ Storage!HandleUpload(c)
       \/ Storage!HandleEnforce(c) \/ Storage!SubmitLook(c) \/ Storage!SubmitForward(c)
       \/ Storage!Commit(c)
    /\ setBack' = setBack \union {s \in Sessions : entry'[s].seq < entry[s].seq}
    /\ UNCHANGED <<calls, floating, mainVars, stop>>

-----------------------------------------------------------------------------
(* main_thread(): from the head of the loop to a package *)

Input == {c \in Connections : at[c] = "queued" /\ c # pkg /\ c \notin floating}

(* The heap of a session hands out its lowest number first. *)
IsFirst(c) == \A d \in Input : SessionOf[d] = SessionOf[c] => ~Storage!Less(arg[d], arg[c])

Registered(s) == entry[s].notified # NoId

(* requeue_work_package(): a thread of its own puts the package back. *)
PutBack == floating' = floating \union {pkg}

(* ... when it gets to run. *)
Requeue(c) ==
    /\ c \in floating
    /\ floating' = floating \ {c}
    /\ UNCHANGED <<storageVars, calls, mainVars, stop, setBack>>

(* perform_teardown(), when the release interval is over or without work   *)
(* if there is none; the current session's data are requested.             *)
Teardown ==
    /\ mpc = "loop" /\ isSetUp /\ ~stop
    /\ isSetUp' = FALSE /\ loaded' = Nothing
    /\ IF session = NoSession
         THEN Goto("loop") /\ UNCHANGED storageVars
         ELSE Goto("torn") /\ Storage!RequestReinit(session)
    /\ UNCHANGED <<calls, floating, session, reinitId, changed, done, stop, setBack>>

(* retrieve_work() and the first half of check_invalidity() *)
Retrieve(c) ==
    /\ mpc = "loop" /\ ~stop
    /\ c \in Input /\ IsFirst(c)
    /\ Storage!Retrieve(c)
    /\ Goto(CASE wat' = "validity" -> "check" [] wat' = "work" -> "ensure"
              [] wat' = "idle" -> "loop")
    /\ UNCHANGED <<calls, floating, session, reinitId, changed, isSetUp, loaded, done,
                   stop, setBack>>

(* The rest of check_invalidity(): a number that has passed is rejected. *)
CheckValidity ==
    /\ Storage!CheckValidity
    /\ Goto(IF pkg' = NoConnection THEN "loop" ELSE "check")
    /\ UNCHANGED <<calls, floating, session, reinitId, changed, isSetUp, loaded, done,
                   stop, setBack>>

(* needs_delay(): an early package is put back. *)
CheckDelay ==
    /\ Storage!CheckDelay
    /\ CASE wat' = "idle"  -> Goto("loop") /\ PutBack
         [] wat' = "work"  -> Goto("ensure") /\ UNCHANGED floating
         [] wat' = "threw" -> Goto("check") /\ UNCHANGED floating
    /\ UNCHANGED <<calls, session, reinitId, changed, isSetUp, loaded, done, stop, setBack>>

-----------------------------------------------------------------------------
(* ensure_worker_is_set_up(), ensure_session_via_reinit() *)

(* The package's session is now the current one. *)
Enter ==
    /\ session' = SessionOf[pkg]
    /\ changed' = (session # SessionOf[pkg])
    /\ Goto("compare")

(* The worker is set up if it is not; the data of a session that is left   *)
(* are requested for a snapshot.                                           *)
Leave ==
    /\ mpc = "ensure"
    /\ isSetUp' = TRUE
    /\ IF session \notin {NoSession, SessionOf[pkg]} /\ Registered(session)
         THEN Storage!RequestReinit(session) /\ Goto("leave") /\ UNCHANGED <<session, changed>>
         ELSE Enter /\ UNCHANGED storageVars
    /\ UNCHANGED <<calls, floating, reinitId, loaded, done, stop, setBack>>

(* Only an id that follows another one counts as changed. *)
CompareIds ==
    /\ mpc = "compare"
    /\ LET id == entry[session].notified
       IN  IF reinitId = NoId
             THEN reinitId' = id /\ UNCHANGED changed
             ELSE changed' = (changed \/ reinitId # id) /\ UNCHANGED reinitId
    /\ Goto("decide")
    /\ UNCHANGED <<storageVars, calls, floating, session, isSetUp, loaded, done, stop, setBack>>

(* Mutant: data are applied only if their client insists. *)
DecideForced ==
    /\ mpc = "decide"
    /\ Goto(IF Registered(session) /\ entry[session].force THEN "reinit" ELSE "run")
    /\ UNCHANGED <<storageVars, calls, floating, session, reinitId, changed, isSetUp, loaded,
                   done, stop, setBack>>

(* The session is reinitialised if it was switched to, its id has changed, *)
(* or its client insists.                                                  *)
Decide ==
    /\ mpc = "decide"
    /\ Goto(IF Registered(session) /\ (changed \/ entry[session].force) THEN "reinit" ELSE "run")
    /\ UNCHANGED <<storageVars, calls, floating, session, reinitId, changed, isSetUp, loaded,
                   done, stop, setBack>>

-----------------------------------------------------------------------------
(* perform_reinit_snapshot() and perform_reinit(): the places in           *)
(* main_thread() that get data from the storage                            *)
(*   torn     after a teardown          leave    the session that is left  *)
(*   reinit   the session entered       timeout  after work() timed out    *)

Fetching == mpc \in {"torn", "leave", "reinit", "timeout"}

(* Without other work the worker waits for the data for a grace period. *)
Endless == mpc = "torn" \/ Input # {}

(* perform_reinit() applies the data that are there. *)
Applies == mpc \in {"reinit", "timeout"} /\ wat' = "using"
LoadData == loaded' = IF Applies THEN <<session, entry[session].data>> ELSE loaded

(* Mutant: a package whose work() timed out is put back like the others. *)
NoDataPutBack ==
    /\ session' = NoSession
    /\ Goto(IF mpc = "torn" THEN "loop" ELSE "requeue")

(* There are no data: the session is given up, and its package put back;   *)
(* after work() the answer of perform_reinit() is ignored.                 *)
NoData ==
    CASE mpc = "torn" -> session' = NoSession /\ Goto("loop")
      [] mpc \in {"leave", "reinit"} -> session' = NoSession /\ Goto("requeue")
      [] mpc = "timeout" -> UNCHANGED session /\ Goto("finish")

(* reinit_get_mutable() begins. *)
BeginFetch ==
    /\ Fetching
    /\ Storage!GetReinit(session, Endless)
    /\ LoadData
    /\ UNCHANGED <<calls, floating, mpc, session, reinitId, changed, isSetUp, done, stop, setBack>>

(* ... and returns nothing, for no data are there or announced. *)
RefuseFetch ==
    /\ Fetching /\ wat \in {"idle", "work"}
    /\ ~Storage!IsUpToDate(entry[session]) /\ ~Storage!IsPending(entry[session])
    /\ NoData
    /\ UNCHANGED <<storageVars, calls, floating, reinitId, changed, isSetUp, loaded, done,
                   stop, setBack>>

(* ... and waits for the data, or for the end of the grace period. *)
ContinueFetch ==
    /\ Fetching
    /\ Storage!GetRequests \/ Storage!GetLocks \/ Storage!WaitEnds \/ Storage!GetAwake
    /\ IF wat' \in {"idle", "work"} THEN NoData ELSE UNCHANGED <<mpc, session>>
    /\ LoadData
    /\ UNCHANGED <<calls, floating, reinitId, changed, isSetUp, done, stop, setBack>>

(* The worker has taken its snapshot. *)
EndSnapshot ==
    /\ mpc \in {"torn", "leave"}
    /\ Storage!UseEnds /\ UNCHANGED entry
    /\ IF mpc = "torn" THEN Goto("loop") /\ UNCHANGED <<session, changed>> ELSE Enter
    /\ UNCHANGED <<calls, floating, reinitId, isSetUp, loaded, done, stop, setBack>>

(* The worker is reinitialised: reinit_set_done(). *)
EndReinit ==
    /\ mpc \in {"reinit", "timeout"}
    /\ Storage!UseEnds /\ ~entry'[session].force
    /\ Goto(IF mpc = "reinit" THEN "record" ELSE "recordTimeout")
    /\ UNCHANGED <<calls, floating, session, reinitId, changed, isSetUp, loaded, done,
                   stop, setBack>>

(* The id that is notified by now is taken for the one applied. *)
RecordId ==
    /\ mpc \in {"record", "recordTimeout"}
    /\ reinitId' = entry[session].notified
    /\ Goto(IF mpc = "record" THEN "run" ELSE "finish")
    /\ UNCHANGED <<storageVars, calls, floating, session, changed, isSetUp, loaded, done,
                   stop, setBack>>

(* Mutant: a package that goes back has its client's call forgotten. *)
GiveUpCall ==
    /\ mpc = "requeue"
    /\ Storage!Drop /\ Storage!Goto(pkg, "lost") /\ Storage!Forget(pkg)
    /\ UNCHANGED <<entry, job, forever, expired>>
    /\ UNCHANGED floating
    /\ Goto("loop")
    /\ UNCHANGED <<calls, session, reinitId, changed, isSetUp, loaded, done, stop, setBack>>

(* The package goes back; its session was not entered. *)
GiveUp ==
    /\ mpc = "requeue"
    /\ Storage!GiveUp
    /\ PutBack
    /\ Goto("loop")
    /\ UNCHANGED <<calls, session, reinitId, changed, isSetUp, loaded, done, stop, setBack>>

-----------------------------------------------------------------------------
(* work() *)

(* work() returns, perhaps with a timeout, which resets the hardware. *)
DoWork ==
    /\ mpc = "run"
    /\ done' = Append(done, <<pkg, calls[pkg]>>)
    /\ \/ Goto("finish") /\ UNCHANGED loaded
       \/ Goto("timeout") /\ loaded' = Nothing
    /\ UNCHANGED <<storageVars, calls, floating, session, reinitId, changed, isSetUp,
                   stop, setBack>>

(* work() throws: the handler commits a context that was moved from and    *)
(* has no session any more, which ends the process.                        *)
WorkThrows ==
    /\ MayThrow /\ mpc = "run"
    /\ Goto("crashed")
    /\ UNCHANGED <<storageVars, calls, floating, session, reinitId, changed, isSetUp, loaded,
                   done, stop, setBack>>

(* The result is handed to the output queue. *)
Finish ==
    /\ mpc = "finish"
    /\ Storage!Work
    /\ Goto(IF wat' = "next" THEN "next" ELSE "loop")
    /\ UNCHANGED <<calls, floating, session, reinitId, changed, isSetUp, loaded, done,
                   stop, setBack>>

(* sequence_num_next() *)
AdvanceNumber ==
    /\ mpc = "next"
    /\ Storage!AdvanceNumber
    /\ Goto("loop")
    /\ UNCHANGED <<calls, floating, session, reinitId, changed, isSetUp, loaded, done,
                   stop, setBack>>

(* The destructor requests a stop; what is still queued is left there. *)
RequestStop ==
    /\ MayStop /\ ~stop
    /\ stop' = TRUE
    /\ UNCHANGED <<storageVars, calls, floating, mainVars, setBack>>

(* main_thread() ends, with a teardown of the worker. *)
Exit ==
    /\ mpc = "loop" /\ stop
    /\ Goto("over")
    /\ loaded' = Nothing
    /\ UNCHANGED <<storageVars, calls, floating, session, reinitId, changed, isSetUp, done,
                   stop, setBack>>

-----------------------------------------------------------------------------
Init ==
    /\ Storage!Init
    /\ calls = [c \in Connections |-> 0]
    /\ floating = {}
    /\ mpc = "loop" /\ session = NoSession /\ reinitId = NoId /\ changed = FALSE
    /\ isSetUp = FALSE /\ stop = FALSE
    /\ loaded = Nothing /\ done = <<>> /\ setBack = {}

Main ==
    \/ \E c \in Connections : Retrieve(c)
    \/ CheckValidity \/ CheckDelay \/ Leave \/ CompareIds \/ Decide
    \/ BeginFetch \/ RefuseFetch \/ ContinueFetch \/ EndSnapshot \/ EndReinit \/ RecordId
    \/ GiveUp \/ DoWork \/ Finish \/ AdvanceNumber \/ Exit

Client(c) == MakeCall(c) \/ ClientEnds(c) \/ Serve(c)

(* With the process everything ends. *)
Next ==
    /\ mpc # "crashed"
    /\ \/ \E c \in Connections : Client(c) \/ Requeue(c)
       \/ Main \/ Teardown \/ WorkThrows \/ RequestStop

Spec == Init /\ [][Next]_vars

(* An endless wait may end without a reason, but need not. *)
Asleep == wat = "waiting" /\ forever

(* Threads run; no client gives up; the input queue serves every session.  *)
Fairness ==
    /\ \A c \in Connections :
           /\ WF_vars(Requeue(c))
           /\ SF_vars(Retrieve(c))
    /\ WF_vars(\E c \in Connections : Client(c))
    /\ WF_vars(Main /\ ~Asleep)

FairSpec == Spec /\ Fairness

-----------------------------------------------------------------------------
(* Properties *)

(* A package in done: its number, and whether it has one *)
Number(p) == Script[p[1]][p[2]].arg
Counted(p) == Number(p) # Storage!NoNumber

(* What the worker does with the storage is what SessionStorage allows.    *)
UsesStorage == Storage!Spec

(* A package is not worked on in the state of another session: when a      *)
(* session that has announced data is found to need none, its own are the  *)
(* last that were applied since the worker was set up                      *)
(* (worker-thread-reinit.tcc:177-234).                                     *)
NoForeignState ==
    [][mpc = "decide" /\ mpc' = "run" /\ Registered(session) =>
           loaded[1] \in {session, NoSession}]_vars

(* Each package is worked on once, and those of a session that have a      *)
(* number in ascending order, although early ones and those without data   *)
(* are put back by threads that run at any time                            *)
(* (round-robin-reinit-scheduler.h:180-199).  Only a fast-forward that     *)
(* sets the session's number back breaks the order: of two clients that    *)
(* both saw number zero the later one may (session-storage.tcc:359-367).   *)
InOrderOnce ==
    \A i, j \in DOMAIN done :
        i < j => /\ done[i] # done[j]
                 /\ /\ SessionOf[done[i][1]] = SessionOf[done[j][1]]
                    /\ Counted(done[i]) /\ Counted(done[j])
                    /\ SessionOf[done[i][1]] \notin setBack
                    => Number(done[i]) < Number(done[j])

(* No package is put back for ever: early ones get their turn, and those   *)
(* whose data are not there when the data are (worker-thread-reinit.tcc:   *)
(* 79-101, 237-252).                                                       *)
QueuedIsServed ==
    \A c \in Connections : at[c] = "queued" ~> at[c] # "queued" \/ stop \/ mpc = "crashed"
=============================================================================
