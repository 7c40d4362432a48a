--------------------------- MODULE OnDemandUpload ---------------------------
(***************************************************************************)
(* OnDemandUpload of the client library: offers data to the server until   *)
(* they are replaced (on-demand-upload.tcc).                               *)
(*                                                                         *)
(* The user's thread calls upload(), refresh() and the destructor.  Each   *)
(* upload has an id and a thread that notifies the server, asks with a     *)
(* call that stays open whether the data are wanted, and uploads them,     *)
(* over and over.  A thread that is replaced is asked to stop and left to  *)
(* itself: the call it is in ends when a progress callback sees the        *)
(* request.  Threads are known by ids that are used again once joined.     *)
(*                                                                         *)
(* The server keeps a SessionEntry for the session; calls that the client  *)
(* has given up may still reach it, in any order.  An upload has the data  *)
(* of its number and, as ids are random, that number for an id.            *)
(***************************************************************************)
EXTENDS SessionEntry, FiniteSets

CONSTANTS
    Threads,        \* ids of upload threads
    MaxUploads,     \* bound: calls of upload()
    MaxFailures,    \* bound: calls that fail and sessions that are forgotten
    NumErrorsMax,   \* num_errors_max
    NoThread,
    Gone            \* the client of an open call that it gave up

ASSUME UploadAssumption ==
    /\ NoThread \notin Threads /\ Gone \notin Threads /\ NoConnection \notin Threads
    /\ Gone # NoConnection
    /\ MaxUploads \in Nat /\ MaxFailures \in Nat /\ NumErrorsMax \in Nat \ {0}
    /\ NoId \notin 0 .. MaxUploads

VARIABLES
    mpc,            \* where the user's thread is
    held,           \* m_upload_data; 0 is none
    uid,            \* m_unique_id
    isNotified, isUploaded,
    current,        \* m_thread_loop_upload
    old,            \* m_threads_stopped
    safe,           \* m_threads_safe_to_join
    pc,             \* where each upload thread is
    own,            \* its copy of the id
    data,           \* its copy of the data
    stop,           \* it has been asked to stop
    errors,         \* its num_errors
    call,           \* the call it is in
    astray,         \* calls that were given up before the server had them
    entry,          \* what the server knows
    failures,       \* how much failed so far
    told            \* ghost: what the server was told of the upload uid

mainVars == <<mpc, held, uid, isNotified, isUploaded, current, old>>
threadVars == <<pc, own, data, stop, errors, safe>>
serverVars == <<call, astray, entry, failures, told>>
vars == <<mainVars, threadVars, serverVars>>

Uploads == 1 .. MaxUploads

NoCall == [op |-> "none", id |-> 0, data |-> 0, st |-> "none"]

(* Thread functions that have not returned *)
Alive == {t \in Threads : pc[t] \notin {"free", "ended"}}

Go(t, label) == pc' = [pc EXCEPT ![t] = label]

-----------------------------------------------------------------------------
(* The user's thread *)

(* Stopped threads that may be joined, and have to end for that *)
Joinable == old \intersect safe

(* A value of each thread, but for some *)
With(f, threads, value) == [t \in Threads |-> IF t \in threads THEN value ELSE f[t]]

(* The threads are joined: their variables are gone, their ids free. *)
Join(threads) ==
    /\ \A t \in threads : pc[t] = "ended"
    /\ pc' = With(pc, threads, "free")
    /\ own' = With(own, threads, 0) /\ data' = With(data, threads, 0)
    /\ errors' = With(errors, threads, 0)
    /\ safe' = safe \ threads

(* Mutant: the thread that is replaced goes on. *)
JoinLoopGoOn ==
    /\ Join(Joinable)
    /\ stop' = With(stop, Joinable, FALSE)
    /\ old' = (old \ Joinable) \union ({current} \ {NoThread})
    /\ current' = NoThread

(* join_loop_upload() *)
JoinLoop ==
    /\ Join(Joinable)
    /\ stop' = With(With(stop, Joinable, FALSE), {current}, TRUE)
    /\ old' = (old \ Joinable) \union ({current} \ {NoThread})
    /\ current' = NoThread

(* upload(), up to its first unlock *)
Upload ==
    /\ mpc = "idle" /\ held < MaxUploads
    /\ mpc' = "prepare" /\ held' = held + 1
    /\ UNCHANGED <<uid, isNotified, isUploaded, current, old, threadVars, serverVars>>

(* prepare_new_upload() *)
Prepare ==
    /\ mpc = "prepare" /\ JoinLoop
    /\ mpc' = "reset"
    /\ UNCHANGED <<held, uid, isNotified, isUploaded, serverVars>>

ResetId ==
    /\ mpc = "reset"
    /\ mpc' = "clear" /\ uid' = held /\ told' = {}
    /\ UNCHANGED <<held, isNotified, isUploaded, current, old, threadVars, call, astray,
                   entry, failures>>

ClearFlags ==
    /\ mpc = "clear"
    /\ mpc' = "start" /\ isNotified' = FALSE /\ isUploaded' = FALSE
    /\ UNCHANGED <<held, uid, current, old, threadVars, serverVars>>

IsRunning == current # NoThread /\ current \notin safe

(* refresh(): a thread that has ended by itself is replaced. *)
Refresh ==
    /\ mpc = "idle" /\ held # 0 /\ ~IsRunning
    /\ JoinLoop
    /\ mpc' = "start"
    /\ UNCHANGED <<held, uid, isNotified, isUploaded, serverVars>>

(* start_upload_thread() *)
Start(t) ==
    /\ mpc = "start" /\ pc[t] = "free"
    /\ mpc' = "wait" /\ current' = t
    /\ Go(t, "begin")
    /\ data' = [data EXCEPT ![t] = held]
    /\ UNCHANGED <<held, uid, isNotified, isUploaded, old, own, stop, errors, safe, serverVars>>

(* ... and its wait for the notification, where upload() returns *)
Acknowledged ==
    /\ mpc = "wait" /\ isNotified
    /\ mpc' = "idle"
    /\ UNCHANGED <<held, uid, isNotified, isUploaded, current, old, threadVars, serverVars>>

(* The destructor: join_loop_upload() ... *)
Destroy ==
    /\ mpc = "idle" /\ JoinLoop
    /\ mpc' = "joining"
    /\ UNCHANGED <<held, uid, isNotified, isUploaded, serverVars>>

(* ... and trim_stopped_threads(true) *)
DestroyJoins ==
    /\ mpc = "joining" /\ Join(old)
    /\ mpc' = "gone" /\ old' = {} /\ stop' = With(stop, old, FALSE)
    /\ UNCHANGED <<held, uid, isNotified, isUploaded, current, serverVars>>

-----------------------------------------------------------------------------
(* An upload thread: loop_upload() *)

(* The thread reads m_unique_id for itself, and without the lock. *)
Begin(t) ==
    /\ pc[t] = "begin"
    /\ Go(t, "loop") /\ own' = [own EXCEPT ![t] = uid]
    /\ UNCHANGED <<mainVars, data, stop, errors, safe, serverVars>>

(* The condition of the loop *)
Loop(t) ==
    /\ pc[t] = "loop"
    /\ Go(t, IF stop[t] THEN "finish" ELSE "notify")
    /\ UNCHANGED <<mainVars, own, data, stop, errors, safe, serverVars>>

Operations == {"notify", "pending", "upload"}

(* The client is connected and the call made, with m_unique_id as it is. *)
Send(t) ==
    /\ pc[t] \in Operations
    /\ Go(t, "calling")
    /\ call' = [call EXCEPT ![t] =
           [op |-> pc[t], id |-> uid, data |-> IF pc[t] = "upload" THEN data[t] ELSE 0,
            st |-> "sent"]]
    /\ UNCHANGED <<mainVars, own, data, stop, errors, safe, astray, entry, failures, told>>

(* Where a thread goes that got this answer *)
After(answered) ==
    CASE answered.op = "notify"                             -> "notified"
      [] answered.op = "pending" /\ answered.st = "granted" -> "upload"
      [] answered.op = "pending" /\ answered.st = "refused" -> "finish"
      [] answered.op = "upload"                             -> "uploaded"

(* The call returns; the stop token is looked at. *)
Return(t) ==
    /\ pc[t] = "calling" /\ call[t].st \in {"granted", "refused"}
    /\ Go(t, IF stop[t] THEN "finish" ELSE After(call[t]))
    /\ call' = [call EXCEPT ![t] = NoCall]
    /\ UNCHANGED <<mainVars, own, data, stop, errors, safe, astray, entry, failures, told>>

(* The region that sets the flags, if no other upload was started *)
Mark(t) ==
    /\ pc[t] \in {"notified", "uploaded"}
    /\ Go(t, IF pc[t] = "notified" THEN "pending" ELSE "loop")
    /\ isNotified' = (isNotified \/ own[t] = uid)
    /\ isUploaded' = (isUploaded \/ (own[t] = uid /\ pc[t] = "uploaded"))
    /\ UNCHANGED <<mpc, held, uid, current, old, own, data, stop, errors, safe, serverVars>>

(* note_thread_finished(), first at a break, then at the end *)
Finish(t) ==
    /\ pc[t] \in {"finish", "finished"}
    /\ Go(t, IF pc[t] = "finish" THEN "finished" ELSE "ended")
    /\ safe' = safe \union {t}
    /\ UNCHANGED <<mainVars, own, data, stop, errors, serverVars>>

(* The call of t is given up: the server may get it later, or keeps open   *)
(* what nobody waits for.                                                  *)
GiveUp(t) ==
    /\ call' = [call EXCEPT ![t] = NoCall]
    /\ astray' = IF call[t].st = "sent" THEN astray \union {call[t]} ELSE astray
    /\ entry' = IF call[t].st = "open" THEN [entry EXCEPT !.deferred = Gone] ELSE entry
    /\ UNCHANGED told

(* Mutant: the callback cancels only calls that the server has not taken. *)
CancelSent(t) ==
    /\ pc[t] = "calling" /\ stop[t] /\ call[t].st = "sent"
    /\ GiveUp(t)
    /\ Go(t, "finish")
    /\ UNCHANGED <<mainVars, own, data, stop, errors, safe, failures>>

(* The progress callback cancels the call of a thread that is to stop.     *)
Cancel(t) ==
    /\ pc[t] = "calling" /\ stop[t]
    /\ GiveUp(t)
    /\ Go(t, "finish")
    /\ UNCHANGED <<mainVars, own, data, stop, errors, safe, failures>>

(* Mutant: an error ends the thread. *)
FailEnds(t) ==
    /\ pc[t] = "calling" /\ failures < MaxFailures
    /\ GiveUp(t)
    /\ failures' = failures + 1
    /\ errors' = [errors EXCEPT ![t] = @ + 1]
    /\ Go(t, "finish")
    /\ UNCHANGED <<mainVars, own, data, stop, safe>>

(* The call fails: the thread notes it, sleeps and tries again. *)
Fail(t) ==
    /\ pc[t] = "calling" /\ failures < MaxFailures
    /\ GiveUp(t)
    /\ failures' = failures + 1
    /\ errors' = [errors EXCEPT ![t] = IF stop[t] THEN @ ELSE @ + 1]
    /\ Go(t, IF stop[t] \/ errors'[t] >= NumErrorsMax THEN "finish" ELSE "loop")
    /\ UNCHANGED <<mainVars, own, data, stop, safe>>

-----------------------------------------------------------------------------
(* The server *)

(* The call that is open is answered. *)
Answer(calls, value) ==
    [t \in Threads |-> IF t = entry.deferred THEN [calls[t] EXCEPT !.st = value] ELSE calls[t]]

Done(t, value) == [call EXCEPT ![t].st = value]

(* The server has call m, which t waits for unless t is Gone. *)
Handle(m, t) ==
    LET answered(value) == IF t = Gone THEN call ELSE Done(t, value)
    IN  \/ /\ m.op = "notify"
           /\ entry' = Notified(entry, m.id)
           /\ call' = answered("granted")
        \/ /\ m.op = "pending" /\ entry.notified = m.id
           /\ entry' = Pended(entry, m.id, t)
           /\ call' = Answer(answered("open"), "refused")
        \/ /\ m.op = "pending" /\ entry.notified # m.id
           /\ call' = answered("refused")
           /\ UNCHANGED entry
        \/ /\ m.op = "upload"
           /\ entry' = Stored(entry, m.id, m.data)
           /\ call' = answered("granted")

Serve(t) ==
    /\ call[t].st = "sent"
    /\ Handle(call[t], t)
    /\ told' = told \union
           {op \in {"notify", "upload"} :
                op = call[t].op /\ call[t].id = uid /\ (op = "upload" => call[t].data = uid)}
    /\ UNCHANGED <<mainVars, threadVars, astray, failures>>

(* A call that was given up arrives, or never does. *)
Arrive(m) ==
    /\ m \in astray
    /\ astray' = astray \ {m}
    /\ Handle(m, Gone) \/ UNCHANGED <<entry, call>>
    /\ UNCHANGED <<mainVars, threadVars, failures, told>>

(* The server wants the data. *)
Request ==
    /\ MayRequest(entry)
    /\ call' = Answer(call, "granted")
    /\ entry' = Answered(entry)
    /\ UNCHANGED <<mainVars, threadVars, astray, failures, told>>

Fresh == RegisterNew(Unknown)

(* The session expires, or the server is restarted. *)
Forget ==
    /\ failures < MaxFailures /\ entry # Fresh
    /\ failures' = failures + 1
    /\ call' = Answer(call, "refused")
    /\ entry' = Fresh
    /\ UNCHANGED <<mainVars, threadVars, astray, told>>

-----------------------------------------------------------------------------
Init ==
    /\ mpc = "idle" /\ held = 0 /\ uid = 0
    /\ isNotified = FALSE /\ isUploaded = FALSE
    /\ current = NoThread /\ old = {} /\ safe = {}
    /\ pc = [t \in Threads |-> "free"]
    /\ own = [t \in Threads |-> 0]
    /\ data = [t \in Threads |-> 0]
    /\ stop = [t \in Threads |-> FALSE]
    /\ errors = [t \in Threads |-> 0]
    /\ call = [t \in Threads |-> NoCall]
    /\ astray = {} /\ entry = Fresh /\ failures = 0 /\ told = {}

Main ==
    \/ Upload \/ Prepare \/ ResetId \/ ClearFlags \/ Refresh
    \/ (\E t \in Threads : Start(t)) \/ Acknowledged \/ Destroy \/ DestroyJoins

Thread(t) ==
    Begin(t) \/ Loop(t) \/ Send(t) \/ Return(t) \/ Mark(t) \/ Finish(t) \/ Cancel(t)

Next ==
    \/ Main
    \/ \E t \in Threads : Thread(t) \/ Fail(t) \/ Serve(t)
    \/ \E m \in astray : Arrive(m)
    \/ Request \/ Forget

Spec == Init /\ [][Next]_vars

(* The user's thread goes on with the call it is in, and so do the upload  *)
(* threads, whose calls are cancelled when they are to stop                *)
(* (period_client_progress_callback); the server handles calls.            *)
FairSpec ==
    /\ Spec
    /\ WF_vars(Prepare \/ ResetId \/ ClearFlags \/ (\E t \in Threads : Start(t))
               \/ Acknowledged \/ DestroyJoins)
    /\ \A t \in Threads : WF_vars(Thread(t) \/ Serve(t))

-----------------------------------------------------------------------------
(* Properties *)

Labels ==
    Operations \union {"free", "begin", "loop", "calling", "notified", "uploaded",
                       "finish", "finished", "ended"}

(* The type invariant *)
TypeOK ==
    /\ mpc \in {"idle", "prepare", "reset", "clear", "start", "wait", "joining", "gone"}
    /\ held \in 0 .. MaxUploads /\ uid \in {held, held - 1}
    /\ isNotified \in BOOLEAN /\ isUploaded \in BOOLEAN
    /\ current \in Threads \union {NoThread}
    /\ old \subseteq Threads /\ safe \subseteq Threads
    /\ pc \in [Threads -> Labels]
    /\ own \in [Threads -> 0 .. MaxUploads] /\ data \in [Threads -> 0 .. MaxUploads]
    /\ stop \in [Threads -> BOOLEAN] /\ errors \in [Threads -> 0 .. NumErrorsMax]
    /\ \A t \in Threads :
           /\ pc[t] # "calling" <=> call[t] = NoCall
           /\ call[t].st = "open" <=> entry.deferred = t
    /\ told \subseteq Operations

(* Whoever runs is known, and none but the current thread runs on: the     *)
(* server is never offered the data of two uploads for good, and the       *)
(* destructor finds every thread (on-demand-upload.tcc:235-245, 288-317).  *)
OneRunsOn ==
    \A t \in Alive : t = current \/ (t \in old /\ stop[t])

(* A thread that is taken for finished makes no call any more, so that     *)
(* neither upload() nor refresh() is held up by a call of an old upload -  *)
(* and one that got the id of a joined thread is not taken for it          *)
(* (on-demand-upload.tcc:145-149, 288-317).                                *)
SafeAreFinished ==
    safe \subseteq {t \in Threads : pc[t] \in {"finished", "ended"}}

(* What the flags say is true of the current upload, whatever old threads  *)
(* do with their late answers (on-demand-upload.tcc:160-169, 191-196).     *)
FlagsTellTruth ==
    mpc # "clear" =>
        /\ isNotified => "notify" \in told
        /\ isUploaded => "upload" \in told

(* upload() and refresh() return as long as the errors are too few to end  *)
(* a thread (on-demand-upload.tcc:118-133).                                *)
UploadReturns == mpc = "prepare" ~> mpc = "idle"

(* The destructor returns, even if the server leaves a call open for good  *)
(* (on-demand-upload.tcc:23-28, 247-278).                                  *)
DestructorReturns == mpc = "joining" ~> mpc = "gone"

(* playground/on-demand/client.cpp:80: "only the latest should get         *)
(* uploaded".  Data that are stored under an id are those of its upload.   *)
(* They are not: an old thread uploads its data with the id of the upload  *)
(* that has replaced it.                                                   *)
StoredIsLatest == entry.data # NoId => entry.data = entry.stored
=============================================================================
