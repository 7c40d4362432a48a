--------------------------- MODULE SessionStorage ---------------------------
(***************************************************************************)
(* SessionStorage of the reinit scheduler: what the server remembers of    *)
(* its sessions, under one mutex.                                          *)
(*                                                                         *)
(* Connections call the scheduler (round-robin-reinit-scheduler.tcc): a    *)
(* call first makes sure that the session is known and then does its work  *)
(* in another region; submit_work looks and sets in two.  The call         *)
(* reinit_pending stays open until its context is answered.  The worker    *)
(* thread asks for reinit data and takes packages; here it does so in any  *)
(* order.  A timer cleans up.                                              *)
(***************************************************************************)
EXTENDS SessionEntry, FiniteSets

CONSTANTS
    Sessions,
    Connections,    \* connections (RcfSessions), used again once destroyed
    SessionOf,      \* SessionOf[c] is the session of c's client
    ReinitIds,
    MaxNum,         \* bound: largest sequence number
    NoSession

ASSUME StorageAssumption ==
    /\ IsFiniteSet(Connections)
    /\ SessionOf \in [Connections -> Sessions]
    /\ NoSession \notin Sessions
    /\ NoConnection \notin Connections
    /\ NoId \notin ReinitIds
    /\ MaxNum \in Nat

VARIABLES
    entry,      \* what the maps hold for each session
    at,         \* where each connection's call is
    arg,        \* the reinit id or sequence number it passed
    wat,        \* where the worker thread is
    job,        \* the session it asks data for
    forever,    \* it waits for the data without a deadline
    pkg,        \* the connection whose package it has
    expired     \* ghost: sessions that were erased while connected

workerVars == <<wat, job, forever, pkg>>
vars == <<entry, at, arg, workerVars, expired>>

Numbers == 0 .. MaxNum

Arguments ==
    [notify |-> ReinitIds, pending |-> ReinitIds, upload |-> ReinitIds,
     enforce |-> {NoId}, submit |-> Numbers \union {NoNumber}]

(* A call that is between two regions *)
Between == {"notify", "pending", "upload", "enforce", "submit", "forward"}

Labels == Between \union {"away", "idle", "waiting", "granted", "refused", "queued", "lost"}

Connected(s) == {c \in Connections : SessionOf[c] = s /\ at[c] # "away"}

Ent(c) == entry[SessionOf[c]]

SetEntry(s, e) == entry' = [entry EXCEPT ![s] = e]

Goto(c, label) == at' = [at EXCEPT ![c] = label]

(* The call returns; its argument is gone. *)
Forget(c) == arg' = [arg EXCEPT ![c] = NoId]

Return(c) == Goto(c, "idle") /\ Forget(c)

(* signal_pending_upload_while_locked(): the open calls of the sessions    *)
(* are answered, each by a thread of its own.                              *)
Signalled(sessions, label) ==
    [c \in Connections |->
        IF SessionOf[c] \in sessions /\ c = Ent(c).deferred THEN label ELSE at[c]]

-----------------------------------------------------------------------------
(* The calls of a connection *)

(* A call begins with ensure_registered(); the first one of a connection   *)
(* has it tracked until the connection ends.                               *)
Call(c, op) ==
    /\ at[c] \in {"away", "idle"}
    /\ Goto(c, op)
    /\ arg' \in {[arg EXCEPT ![c] = x] : x \in Arguments[op]}
    /\ SetEntry(SessionOf[c], EnsureRegistered(Ent(c), at[c] = "idle"))
    /\ UNCHANGED <<workerVars, expired>>

(* reinit_handle_notify() *)
HandleNotify(c) ==
    /\ at[c] = "notify"
    /\ Return(c)
    /\ SetEntry(SessionOf[c], Notified(Ent(c), arg[c]))
    /\ UNCHANGED <<workerVars, expired>>

(* reinit_handle_pending(): a call that is open already is answered false. *)
HandlePending(c) ==
    /\ at[c] = "pending"
    /\ IF Ent(c).notified = arg[c]
         THEN /\ at' = [Signalled({SessionOf[c]}, "refused") EXCEPT ![c] = "waiting"]
              /\ SetEntry(SessionOf[c], Pended(Ent(c), arg[c], c))
         ELSE Goto(c, "idle") /\ UNCHANGED entry
    /\ Forget(c)
    /\ UNCHANGED <<workerVars, expired>>

(* m_cv_new_reinit.notify_all() *)
Wake == wat' = IF wat = "waiting" THEN "woken" ELSE wat

(* reinit_store(); data are named by the id they are uploaded with. *)
HandleUpload(c) ==
    /\ at[c] = "upload"
    /\ Return(c)
    /\ SetEntry(SessionOf[c], Stored(Ent(c), arg[c], arg[c]))
    /\ Wake
    /\ UNCHANGED <<job, forever, pkg, expired>>

(* reinit_set_force() *)
HandleEnforce(c) ==
    /\ at[c] = "enforce"
    /\ LET e == [Ent(c) EXCEPT !.force = TRUE]
       IN  IF IsPending(e)
             THEN /\ at' = [Signalled({SessionOf[c]}, "granted") EXCEPT ![c] = "idle"]
                  /\ SetEntry(SessionOf[c], Answered(e))
             ELSE Goto(c, "idle") /\ SetEntry(SessionOf[c], e)
    /\ UNCHANGED <<arg, workerVars, expired>>

(* sequence_num_fast_forward() looks at the session's number under the     *)
(* shared lock; without a number it reads a value that is not there.       *)
SubmitLook(c) ==
    /\ at[c] = "submit"
    /\ \/ /\ arg[c] \notin {0, NoNumber}
          /\ Ent(c).seq \in {0, NoNumber}
          /\ Goto(c, "forward")
       \/ /\ arg[c] \in {0, NoNumber} \/ Ent(c).seq # 0
          /\ Goto(c, "queued")
    /\ UNCHANGED <<entry, arg, workerVars, expired>>

(* ... and sets it under the exclusive one; then the package is queued. *)
SubmitForward(c) ==
    /\ at[c] = "forward"
    /\ Goto(c, "queued")
    /\ SetEntry(SessionOf[c], [Ent(c) EXCEPT !.seq = arg[c]])
    /\ UNCHANGED <<arg, workerVars, expired>>

(* The thread that has the context of an open call answers it. *)
Commit(c) ==
    /\ at[c] \in {"granted", "refused"}
    /\ Goto(c, "idle")
    /\ UNCHANGED <<entry, arg, workerVars, expired>>

(* The client is gone and no context refers to the connection any more; a  *)
(* package that was dropped has none.                                      *)
Disconnect(c) ==
    /\ at[c] \in {"idle", "lost"}
    /\ Goto(c, "away")
    /\ SetEntry(SessionOf[c], Unreference(Ent(c)))
    /\ UNCHANGED <<arg, workerVars, expired>>

-----------------------------------------------------------------------------
(* The worker thread: reinit data *)

(* The worker asks for data between packages and before it works on one. *)
MayAsk == wat \in {"idle", "work"}

(* Where it goes when it has got them, or not *)
Home == IF pkg = NoConnection THEN "idle" ELSE "work"

(* The region of reinit_request() *)
Ask(s) ==
    IF MayRequest(entry[s])
      THEN at' = Signalled({s}, "granted") /\ SetEntry(s, Answered(entry[s]))
      ELSE UNCHANGED <<entry, at>>

(* reinit_request() on its own: a session is left, or torn down. *)
RequestReinit(s) ==
    /\ MayAsk
    /\ Ask(s)
    /\ UNCHANGED <<arg, workerVars, expired>>

(* reinit_get_mutable(), first region; without data that are there or      *)
(* pending it returns at once.                                             *)
GetReinit(s, endless) ==
    /\ MayAsk
    /\ \/ IsUpToDate(entry[s]) /\ wat' = "using"
       \/ ~IsUpToDate(entry[s]) /\ IsPending(entry[s]) /\ wat' = "request"
    /\ job' = s /\ forever' = (endless /\ wat' = "request")
    /\ UNCHANGED <<entry, at, arg, pkg, expired>>

(* Between the two regions of reinit_get_mutable() *)
GetRequests ==
    /\ wat = "request"
    /\ wat' = "relock"
    /\ Ask(job)
    /\ UNCHANGED <<arg, job, forever, pkg, expired>>

(* Where the worker goes when it looks at the data again *)
Look(otherwise) ==
    /\ wat' = IF IsUpToDate(entry[job]) THEN "using" ELSE otherwise
    /\ job' = IF wat' \in {"idle", "work"} THEN NoSession ELSE job
    /\ forever' = (forever /\ wat' = "waiting")

(* Mutant: the worker waits without looking at the data first. *)
GetLocksUnchecked ==
    /\ wat = "relock"
    /\ wat' = "waiting"
    /\ UNCHANGED <<entry, at, arg, job, forever, pkg, expired>>

(* The second region, up to the wait: only an endless wait looks first. *)
GetLocks ==
    /\ wat = "relock"
    /\ IF forever THEN Look("waiting") ELSE wat' = "waiting" /\ UNCHANGED <<job, forever>>
    /\ UNCHANGED <<entry, at, arg, pkg, expired>>

(* The grace period is over, or the wait ends spuriously. *)
WaitEnds ==
    /\ wat = "waiting"
    /\ wat' = "woken"
    /\ UNCHANGED <<entry, at, arg, job, forever, pkg, expired>>

(* After the wait *)
GetAwake ==
    /\ wat = "woken"
    /\ Look(IF forever THEN "waiting" ELSE Home)
    /\ UNCHANGED <<entry, at, arg, pkg, expired>>

(* The worker is done with the data; after a reinit it calls               *)
(* reinit_set_done(), after a snapshot it does not.                        *)
UseEnds ==
    /\ wat = "using"
    /\ wat' = Home /\ job' = NoSession
    /\ \/ SetEntry(job, [entry[job] EXCEPT !.force = FALSE])
       \/ UNCHANGED entry
    /\ UNCHANGED <<at, arg, forever, pkg, expired>>

-----------------------------------------------------------------------------
(* The worker thread: packages *)

Drop == wat' = "idle" /\ pkg' = NoConnection

(* check_invalidity(): is_active().  A package of a session that is not    *)
(* active is discarded without an answer.                                  *)
Retrieve(c) ==
    /\ wat = "idle" /\ at[c] = "queued"
    /\ IF ~IsActive(Ent(c))
         THEN Goto(c, "lost") /\ Forget(c) /\ UNCHANGED <<wat, pkg>>
         ELSE /\ wat' = IF arg[c] = NoNumber THEN "work" ELSE "validity"
              /\ pkg' = c
              /\ UNCHANGED <<at, arg>>
    /\ UNCHANGED <<entry, job, forever, expired>>

(* check_invalidity(): sequence_num_get(), which throws for a session      *)
(* that is gone by now; a number that was passed is rejected.              *)
CheckValidity ==
    /\ wat = "validity"
    /\ IF Ent(pkg).seq = Absent
         THEN wat' = "threw" /\ UNCHANGED <<pkg, at, arg>>
         ELSE IF Less(arg[pkg], Ent(pkg).seq)
           THEN Drop /\ Return(pkg)
           ELSE wat' = "delay" /\ UNCHANGED <<pkg, at, arg>>
    /\ UNCHANGED <<entry, job, forever, expired>>

(* needs_delay(), which reads the number again; a package that is early    *)
(* goes back to the queue.                                                 *)
CheckDelay ==
    /\ wat = "delay"
    /\ IF Ent(pkg).seq = Absent
         THEN wat' = "threw" /\ UNCHANGED pkg
         ELSE IF Less(Ent(pkg).seq, arg[pkg])
           THEN Drop
           ELSE wat' = "work" /\ UNCHANGED pkg
    /\ UNCHANGED <<entry, at, arg, job, forever, expired>>

(* The session's data did not come: the package goes back to the queue. *)
GiveUp ==
    /\ wat = "work"
    /\ Drop
    /\ UNCHANGED <<entry, at, arg, job, forever, expired>>

(* work() is done and its result under way to the client. *)
Work ==
    /\ wat = "work"
    /\ Return(pkg)
    /\ pkg' = NoConnection
    /\ IF arg[pkg] = NoNumber
         THEN wat' = "idle" /\ UNCHANGED job
         ELSE wat' = "next" /\ job' = SessionOf[pkg]
    /\ UNCHANGED <<entry, forever, expired>>

(* sequence_num_next() *)
AdvanceNumber ==
    /\ wat = "next"
    /\ SetEntry(job, Advanced(entry[job]))
    /\ wat' = "idle" /\ job' = NoSession
    /\ UNCHANGED <<at, arg, forever, pkg, expired>>

-----------------------------------------------------------------------------
(* Time *)

(* Time passes for a session, not so much that a call is still between two *)
(* regions.                                                                *)
TimePasses(s) ==
    /\ entry[s].known /\ entry[s].age < 2
    /\ \A c \in Connected(s) : at[c] \notin Between
    /\ SetEntry(s, [entry[s] EXCEPT !.age = @ + 1])
    /\ UNCHANGED <<at, arg, workerVars, expired>>

Old == {s \in Sessions : IsOld(entry[s])}

(* One round of m_session_cleanup *)
Cleanup ==
    /\ Old # {}
    /\ entry' = [s \in Sessions |-> IF s \in Old THEN Unknown ELSE entry[s]]
    /\ at' = Signalled(Old, "refused")
    /\ expired' = expired \union {s \in Old : Connected(s) # {}}
    /\ UNCHANGED <<arg, workerVars>>

-----------------------------------------------------------------------------
Init ==
    /\ entry = [s \in Sessions |-> Unknown]
    /\ at = [c \in Connections |-> "away"]
    /\ arg = [c \in Connections |-> NoId]
    /\ wat = "idle" /\ job = NoSession /\ forever = FALSE /\ pkg = NoConnection
    /\ expired = {}

Connection(c) ==
    \/ \E op \in DOMAIN Arguments : Call(c, op)
    \/ HandleNotify(c) \/ HandlePending(c) \/ HandleUpload(c) \/ HandleEnforce(c)
    \/ SubmitLook(c) \/ SubmitForward(c) \/ Commit(c) \/ Disconnect(c)

Worker ==
    \/ \E s \in Sessions : RequestReinit(s) \/ GetReinit(s, TRUE) \/ GetReinit(s, FALSE)
    \/ GetRequests \/ GetLocks \/ WaitEnds \/ GetAwake \/ UseEnds
    \/ \E c \in Connections : Retrieve(c)
    \/ CheckValidity \/ CheckDelay \/ GiveUp \/ Work \/ AdvanceNumber

Next ==
    \/ \E c \in Connections : Connection(c)
    \/ Worker
    \/ \E s \in Sessions : TimePasses(s)
    \/ Cleanup

Spec == Init /\ [][Next]_vars

-----------------------------------------------------------------------------
(* Properties *)

EntryType ==
    [known : BOOLEAN, refcount : Int, age : 0 .. 2, seq : Nat \union {Absent, NoNumber},
     notified : ReinitIds \union {NoId}, pending : ReinitIds \union {NoId},
     stored : ReinitIds \union {NoId}, data : ReinitIds \union {NoId},
     force : BOOLEAN, deferred : Connections \union {NoConnection}]

(* What the maps hold of a session that is not known: nothing but, after   *)
(* sequence_num_next(), a SequenceNumber without a number                  *)
IsForgotten(e) ==
    /\ e.refcount = 0 /\ e.seq \in {Absent, NoNumber} /\ e.notified = NoId
    /\ e.deferred = NoConnection

(* The type invariant; erase_session_while_locked() leaves nothing behind  *)
(* (session-storage.tcc:118-138).                                          *)
TypeOK ==
    /\ entry \in [Sessions -> EntryType]
    /\ \A s \in Sessions : ~entry[s].known => IsForgotten(entry[s])
    /\ at \in [Connections -> Labels]
    /\ arg \in [Connections -> ReinitIds \union Numbers \union {NoNumber, NoId}]
    /\ \A c \in Connections :
           /\ at[c] \in {"notify", "pending", "upload"} => arg[c] \in ReinitIds
           /\ at[c] \in {"submit", "forward", "queued"} => arg[c] \in Numbers \union {NoNumber}
    /\ wat \in {"idle", "request", "relock", "waiting", "woken", "using", "validity",
                "delay", "work", "next", "threw"}
    /\ job \in IF wat \in {"request", "relock", "waiting", "woken", "using", "next"}
                 THEN Sessions ELSE {NoSession}
    /\ forever \in BOOLEAN
    /\ wat \in {"validity", "delay", "work"} => pkg # NoConnection
    /\ wat \in {"idle", "next"} => pkg = NoConnection
    /\ pkg # NoConnection => pkg \in Connections /\ at[pkg] = "queued"
    /\ expired \subseteq Sessions

(* The data that the worker can get are those of the id notified last,     *)
(* whatever the order of notify, pending and upload calls of the session's *)
(* connections (session-storage.tcc:56-116).                               *)
DataBelongToId ==
    \A s \in Sessions : entry[s].data # NoId =>
        entry[s].data = entry[s].stored /\ IsUpToDate(entry[s])

(* A pending call stays open as long as its context is kept, and there is  *)
(* one context for a session: no client waits for an answer that nobody    *)
(* can give any more (session-storage.tcc:85-87, 118-138, 498-511).        *)
OpenCallsAreDeferred ==
    \A c \in Connections : at[c] = "waiting" <=> Ent(c).deferred = c

(* An endless wait for reinit data does not sleep when they are there      *)
(* (session-storage.tcc:289-305).                                          *)
NoMissedUpload == wat = "waiting" /\ forever => ~IsUpToDate(entry[job])

(* The reference count of a session that has not been erased while it had  *)
(* connections is their number, and never larger otherwise: packages of a  *)
(* client that is gone are discarded, and of others they are not           *)
(* (session-storage.tcc:140-185, 27-33; session-storage.h:183-189).        *)
RefcountCounts ==
    \A s \in Sessions :
        /\ entry[s].known => entry[s].refcount <= Cardinality(Connected(s))
        /\ s \notin expired => entry[s].refcount = Cardinality(Connected(s))

(* session-storage.h:141-149: fast-forwarding is for numbers whose         *)
(* packages "would have been lost", so nothing that waits is passed over.  *)
(* It is, when the package with number 0 is still in the queue as the      *)
(* next one arrives.                                                       *)
ForwardSkipsLost ==
    [][\A c, d \in Connections :
           SubmitForward(c) /\ SessionOf[d] = SessionOf[c] /\ at[d] = "queued" =>
               ~Less(arg[d], arg[c])]_vars
=============================================================================
