--------------------- MODULE WorkerThreadReinit_proofs ---------------------
(***************************************************************************)
(* Proofs about WorkerThreadReinit, for any number of sessions and clients *)
(* and whatever calls they make.                                           *)
(***************************************************************************)
EXTENDS WorkerThreadReinit, SequenceTheorems, TLAPS

(* The theorems of SessionStorage, which hold of what the worker and the   *)
(* clients here do with it *)
Proved == INSTANCE SessionStorage_proofs

-----------------------------------------------------------------------------
(* The storage of this module is the one of those theorems. *)

LEMMA SameStorage ==
    /\ Storage!Init <=> Proved!Init
    /\ Storage!Next <=> Proved!Next
    /\ UNCHANGED Storage!vars <=> UNCHANGED Proved!vars
    /\ Storage!vars = Proved!vars
BY DEF Storage!Init, Proved!Init, Storage!Next, Proved!Next, Storage!vars, Proved!vars,
       Storage!workerVars, Proved!workerVars, Storage!Connection, Proved!Connection,
       Storage!Worker, Proved!Worker, Storage!Call, Proved!Call, Storage!Goto, Proved!Goto,
       Storage!Arguments, Proved!Arguments, Storage!SetEntry, Proved!SetEntry, Storage!Ent,
       Proved!Ent, Storage!EnsureRegistered, Proved!EnsureRegistered, Storage!RegisterNew,
       Proved!RegisterNew, Storage!Numbers, Proved!Numbers, Storage!Return, Proved!Return,
       Storage!Forget, Proved!Forget, Storage!Signalled, Proved!Signalled,
       Storage!HandleNotify, Proved!HandleNotify, Storage!HandlePending,
       Proved!HandlePending, Storage!HandleUpload, Proved!HandleUpload,
       Storage!HandleEnforce, Proved!HandleEnforce, Storage!SubmitLook, Proved!SubmitLook,
       Storage!SubmitForward, Proved!SubmitForward, Storage!Commit, Proved!Commit,
       Storage!Disconnect, Proved!Disconnect, Storage!Unreference, Proved!Unreference,
       Storage!IsActive, Proved!IsActive, Storage!IsOld, Proved!IsOld, Storage!IsPending,
       Proved!IsPending, Storage!IsUpToDate, Proved!IsUpToDate, Storage!IsRequested,
       Proved!IsRequested, Storage!MayRequest, Proved!MayRequest, Storage!Notified,
       Proved!Notified, Storage!Pended, Proved!Pended, Storage!IsExpected,
       Proved!IsExpected, Storage!Stored, Proved!Stored, Storage!Answered, Proved!Answered,
       Storage!Less, Proved!Less, Storage!Advanced, Proved!Advanced, Storage!Wake,
       Proved!Wake, Storage!MayAsk, Proved!MayAsk, Storage!Home, Proved!Home, Storage!Ask,
       Proved!Ask, Storage!RequestReinit, Proved!RequestReinit, Storage!GetReinit,
       Proved!GetReinit, Storage!GetRequests, Proved!GetRequests, Storage!Look, Proved!Look,
       Storage!GetLocks, Proved!GetLocks, Storage!WaitEnds, Proved!WaitEnds,
       Storage!GetAwake, Proved!GetAwake, Storage!UseEnds, Proved!UseEnds, Storage!Drop,
       Proved!Drop, Storage!Retrieve, Proved!Retrieve, Storage!CheckValidity,
       Proved!CheckValidity, Storage!CheckDelay, Proved!CheckDelay, Storage!GiveUp,
       Proved!GiveUp, Storage!Work, Proved!Work, Storage!AdvanceNumber,
       Proved!AdvanceNumber, Storage!TimePasses, Proved!TimePasses, Storage!Old, Proved!Old,
       Storage!Cleanup, Proved!Cleanup, Storage!Connected, Proved!Connected,
       Storage!Between, Proved!Between, Storage!Unknown, Proved!Unknown, Storage!Absent,
       Proved!Absent, Storage!NoNumber, Proved!NoNumber

LEMMA SameAssumption == Proved!StorageAssumption
BY ReinitAssumption DEF Storage!StorageAssumption, Proved!StorageAssumption,
                        Storage!IsFiniteSet, Proved!IsFiniteSet

-----------------------------------------------------------------------------
(* Where the worker is *)

Waiting == {"request", "relock", "waiting", "woken", "using"}

AtWork ==
    {"ensure", "compare", "decide", "requeue", "run", "record", "recordTimeout", "finish",
     "crashed"}

FetchesWithPackage == {"leave", "reinit", "timeout"}

WithPackage == AtWork \union FetchesWithPackage \union {"check"}

InSession ==
    {"torn", "leave", "compare", "decide", "reinit", "run", "timeout", "record", "recordTimeout"}

(* main_thread() and its place in the storage go together. *)
PlaceOK ==
    /\ mpc \in WithPackage \union {"loop", "torn", "next", "over"}
    /\ mpc \in {"loop", "over"} => wat = "idle"
    /\ mpc = "torn" => wat \in {"idle"} \union Waiting /\ pkg = NoConnection
    /\ mpc = "next" => wat = "next"
    /\ mpc = "check" => wat \in {"validity", "delay", "threw"}
    /\ mpc \in FetchesWithPackage => wat \in {"work"} \union Waiting
    /\ mpc \in AtWork => wat = "work"
    /\ mpc \in WithPackage => pkg \in Connections
    /\ session \in Sessions \union {NoSession}
    /\ mpc \in InSession => session \in Sessions
    /\ wat \in Waiting => job = session
    /\ changed \in BOOLEAN

(* What a client is calling is in its script. *)
CallsMatch ==
    /\ calls \in [Connections -> Nat]
    /\ \A c \in Connections :
           /\ calls[c] <= Len(Script[c])
           /\ at[c] \in {"notify", "submit", "forward", "queued"} =>
                  /\ calls[c] > 0
                  /\ Script[c][calls[c]].arg = arg[c]
                  /\ at[c] = "notify" => Script[c][calls[c]].op = "notify"

(* The inductive invariant that the steps of the storage need *)
Inv == Proved!IInv /\ PlaceOK /\ CallsMatch

(* What the invariant of the storage says of the types *)
TypesOK ==
    /\ entry \in [Sessions -> Proved!EntryType]
    /\ at \in [Connections -> Proved!Labels]
    /\ arg \in [Connections -> ReinitIds \union (0 .. MaxNum) \union {-1, NoId}]
    /\ \A c \in Connections :
           /\ at[c] = "notify" => arg[c] \in ReinitIds
           /\ at[c] \in {"submit", "forward", "queued"} => arg[c] \in (0 .. MaxNum) \union {-1}
    /\ \A c \in Connections : entry[SessionOf[c]].deferred = c => at[c] = "waiting"
    /\ pkg # NoConnection => pkg \in Connections /\ at[pkg] = "queued"
    /\ wat \in {"validity", "delay", "work"} => pkg # NoConnection
    /\ wat \in {"idle", "next"} => pkg = NoConnection
    /\ wat \in {"request", "relock", "waiting", "woken", "using", "next"} => job \in Sessions

LEMMA Types == Proved!IInv => TypesOK
BY DEF Proved!IInv, Proved!EntriesOK, Proved!CallsOK, Proved!WorkerOK, Proved!Numbers,
       Proved!NoNumber, Proved!OpenCallsAreDeferred, Proved!Ent, TypesOK

LEMMA TypesNext == Proved!IInv' => TypesOK'
BY DEF Proved!IInv, Proved!EntriesOK, Proved!CallsOK, Proved!WorkerOK, Proved!Numbers,
       Proved!NoNumber, Proved!OpenCallsAreDeferred, Proved!Ent, TypesOK

LEMMA Constants ==
    /\ SessionOf \in [Connections -> Sessions]
    /\ NoSession \notin Sessions /\ NoConnection \notin Connections /\ NoId \notin ReinitIds
    /\ MaxNum \in Nat
    /\ Script \in [Connections -> Seq(CallType)]
BY ReinitAssumption DEF Storage!StorageAssumption

-----------------------------------------------------------------------------
(* A step is one of the storage, or leaves it alone. *)

StorageStep == Storage!Next \/ UNCHANGED Storage!vars

LEMMA CallOfScript ==
    ASSUME NEW c \in Connections, CallsMatch, calls[c] < Len(Script[c])
    PROVE  /\ calls[c] + 1 \in 1 .. Len(Script[c])
           /\ Script[c][calls[c] + 1] \in CallType
BY Constants DEF CallsMatch

LEMMA ClientUsesStorage ==
    ASSUME Inv, NEW c \in Connections, Client(c)
    PROVE  StorageStep
<1>1. CASE MakeCall(c)
  <2>1. Script[c][calls[c] + 1].op \in DOMAIN Storage!Arguments
    BY <1>1, CallOfScript DEF MakeCall, Inv, CallType, Operations
  <2>2. Storage!Connection(c)
    BY <1>1, <2>1 DEF MakeCall, Storage!Connection
  <2> QED BY <2>2 DEF StorageStep, Storage!Next
<1>2. CASE ClientEnds(c)
  BY <1>2 DEF ClientEnds, StorageStep, Storage!Next, Storage!Connection
<1>3. CASE Serve(c)
  BY <1>3 DEF Serve, StorageStep, Storage!Next, Storage!Connection
<1> QED BY <1>1, <1>2, <1>3 DEF Client

LEMMA RequestUsesStorage ==
    ASSUME NEW s \in Sessions, Storage!RequestReinit(s)
    PROVE  StorageStep
BY DEF StorageStep, Storage!Next, Storage!Worker

LEMMA FetchUsesStorage ==
    ASSUME NEW s \in Sessions, NEW endless \in BOOLEAN, Storage!GetReinit(s, endless)
    PROVE  StorageStep
<1>1. Storage!GetReinit(s, TRUE) \/ Storage!GetReinit(s, FALSE)
  BY DEF Storage!GetReinit
<1> QED BY <1>1 DEF StorageStep, Storage!Next, Storage!Worker

LEMMA MainUsesStorage ==
    ASSUME Inv, Main
    PROVE  StorageStep
<1> USE DEF StorageStep
<1>1. ASSUME NEW c \in Connections, Retrieve(c) PROVE StorageStep
  BY <1>1 DEF Retrieve, Storage!Next, Storage!Worker
<1>2. CASE CheckValidity \/ CheckDelay \/ GiveUp \/ Finish \/ AdvanceNumber
  BY <1>2 DEF CheckValidity, CheckDelay, GiveUp, Finish, AdvanceNumber,
              Storage!Next, Storage!Worker
<1>3. CASE Leave
  <2>1. CASE session \notin {NoSession, SessionOf[pkg]} /\ Registered(session)
    BY <1>3, <2>1, RequestUsesStorage DEF Leave, Inv, PlaceOK
  <2>2. CASE ~(session \notin {NoSession, SessionOf[pkg]} /\ Registered(session))
    BY <1>3, <2>2 DEF Leave, storageVars, Storage!vars, Storage!workerVars
  <2> QED BY <2>1, <2>2
<1>4. CASE BeginFetch
  <2>1. session \in Sessions
    BY <1>4 DEF BeginFetch, Fetching, Inv, PlaceOK, InSession
  <2> QED BY <1>4, <2>1, FetchUsesStorage DEF BeginFetch, Endless
<1>5. CASE ContinueFetch \/ EndSnapshot \/ EndReinit
  BY <1>5 DEF ContinueFetch, EndSnapshot, EndReinit, Storage!Next, Storage!Worker
<1>6. CASE CompareIds \/ Decide \/ RefuseFetch \/ RecordId \/ DoWork \/ Exit
  BY <1>6 DEF CompareIds, Decide, RefuseFetch, RecordId, DoWork, Exit, storageVars,
              Storage!vars, Storage!workerVars
<1> QED BY <1>1, <1>2, <1>3, <1>4, <1>5, <1>6 DEF Main

LEMMA StepUsesStorage ==
    ASSUME Inv, [Next]_vars
    PROVE  StorageStep
<1> USE DEF StorageStep
<1>1. ASSUME NEW c \in Connections, Client(c) PROVE StorageStep
  BY <1>1, ClientUsesStorage
<1>2. CASE Main
  BY <1>2, MainUsesStorage
<1>3. CASE Teardown
  <2>1. CASE session = NoSession
    BY <1>3, <2>1 DEF Teardown, storageVars, Storage!vars, Storage!workerVars
  <2>2. CASE session # NoSession
    BY <1>3, <2>2, RequestUsesStorage DEF Teardown, Inv, PlaceOK
  <2> QED BY <2>1, <2>2
<1>4. ASSUME NEW c \in Connections, Requeue(c) PROVE StorageStep
  BY <1>4 DEF Requeue, storageVars, Storage!vars, Storage!workerVars
<1>5. CASE WorkThrows \/ RequestStop \/ UNCHANGED vars
  BY <1>5 DEF WorkThrows, RequestStop, vars, storageVars, Storage!vars, Storage!workerVars
<1> QED BY <1>1, <1>2, <1>3, <1>4, <1>5 DEF Next

-----------------------------------------------------------------------------
(* The places stay together. *)

LEMMA StorageKeeps ==
    ASSUME Inv, StorageStep
    PROVE  Proved!IInv' /\ TypesOK /\ TypesOK'
<1>1. Proved!IInv /\ [Proved!Next]_(Proved!vars)
  BY SameStorage DEF StorageStep, Inv
<1>2. Proved!IInv'
  BY <1>1, SameAssumption, Proved!NextKeeps DEF Proved!StorageAssumption
<1> QED BY <1>1, <1>2, Types, TypesNext

(* What the clients' steps leave to the worker *)
LEMMA ClientLeaves ==
    ASSUME NEW c \in Connections, Client(c)
    PROVE  /\ wat' = wat \/ (wat = "waiting" /\ wat' = "woken")
           /\ UNCHANGED <<job, pkg, forever, floating, stop>>
           /\ UNCHANGED mainVars
<1> USE DEF mainVars
<1>1. CASE MakeCall(c)
  BY <1>1 DEF MakeCall, Storage!Call, Storage!workerVars
<1>2. CASE ClientEnds(c)
  BY <1>2 DEF ClientEnds, Storage!Disconnect, Storage!workerVars
<1>3. CASE Serve(c)
  BY <1>3 DEF Serve, Storage!HandleNotify, Storage!HandlePending, Storage!HandleUpload,
              Storage!HandleEnforce, Storage!SubmitLook, Storage!SubmitForward,
              Storage!Commit, Storage!workerVars, Storage!Wake
<1> QED BY <1>1, <1>2, <1>3 DEF Client

LEMMA ClientKeepsPlaces ==
    ASSUME PlaceOK, NEW c \in Connections, Client(c)
    PROVE  PlaceOK'
<1>1. /\ UNCHANGED <<mpc, session, changed, job, pkg>>
      /\ wat' = wat \/ (wat = "waiting" /\ wat' = "woken")
  BY ClientLeaves DEF mainVars
<1> QED BY <1>1 DEF PlaceOK, Waiting, AtWork, FetchesWithPackage

LEMMA HomeOf ==
    ASSUME TypesOK, PlaceOK, Fetching
    PROVE  Storage!Home = IF mpc = "torn" THEN "idle" ELSE "work"
BY Constants DEF TypesOK, PlaceOK, Fetching, Storage!Home, FetchesWithPackage, WithPackage

LEMMA RetrieveKeepsPlaces ==
    ASSUME PlaceOK, TypesOK, TypesOK', NEW c \in Connections, Retrieve(c)
    PROVE  PlaceOK'
<1>1. /\ mpc = "loop" /\ wat = "idle" /\ UNCHANGED <<session, changed, job>>
      /\ mpc' = CASE wat' = "validity" -> "check" [] wat' = "work" -> "ensure"
                  [] wat' = "idle" -> "loop"
  BY DEF Retrieve, Goto, PlaceOK, Storage!Retrieve
<1>2. /\ wat' \in {"idle", "validity", "work"}
      /\ wat' # "idle" => pkg' = c
  BY <1>1 DEF Retrieve, Storage!Retrieve
<1>3. mpc' \in {"loop", "check", "ensure"} /\ (mpc' = "loop" <=> wat' = "idle")
      /\ (mpc' = "check" <=> wat' = "validity") /\ (mpc' = "ensure" <=> wat' = "work")
  BY <1>1, <1>2
<1> QED BY <1>1, <1>2, <1>3
        DEF PlaceOK, Waiting, AtWork, FetchesWithPackage, WithPackage, InSession

LEMMA ChecksKeepPlaces ==
    ASSUME PlaceOK, TypesOK, CheckValidity \/ CheckDelay
    PROVE  PlaceOK'
<1>1. CASE CheckValidity
  <2>1. /\ wat = "validity" /\ UNCHANGED <<session, changed, job>>
        /\ mpc' = IF pkg' = NoConnection THEN "loop" ELSE "check"
        /\ \/ wat' = "idle" /\ pkg' = NoConnection
           \/ wat' \in {"threw", "delay"} /\ pkg' = pkg
    BY <1>1 DEF CheckValidity, Goto, Storage!CheckValidity, Storage!Drop
  <2>2. pkg \in Connections
    BY <2>1 DEF TypesOK
  <2> QED BY <2>1, <2>2, Constants
          DEF PlaceOK, Waiting, AtWork, FetchesWithPackage, WithPackage, InSession
<1>2. CASE CheckDelay
  <2>1. /\ wat = "delay" /\ UNCHANGED <<session, changed, job>>
        /\ \/ pkg' = NoConnection /\ wat' = "idle" /\ mpc' = "loop"
           \/ pkg' = pkg /\ wat' = "work" /\ mpc' = "ensure"
           \/ pkg' = pkg /\ wat' = "threw" /\ mpc' = "check"
    BY <1>2 DEF CheckDelay, Goto, Storage!CheckDelay, Storage!Drop
  <2>2. pkg \in Connections
    BY <2>1 DEF TypesOK
  <2> QED BY <2>1, <2>2, Constants
          DEF PlaceOK, Waiting, AtWork, FetchesWithPackage, WithPackage, InSession
<1> QED BY <1>1, <1>2

LEMMA EntersPlaces ==
    ASSUME PlaceOK, TypesOK, Leave \/ CompareIds \/ Decide
    PROVE  PlaceOK'
<1> USE DEF PlaceOK, Waiting, AtWork, FetchesWithPackage, WithPackage, InSession
<1>1. CASE Leave
  <2>1. /\ mpc = "ensure" /\ wat = "work" /\ pkg \in Connections /\ UNCHANGED <<wat, pkg, job>>
        /\ SessionOf[pkg] \in Sessions
    BY <1>1, Constants DEF Leave, Storage!RequestReinit, Storage!workerVars, storageVars
  <2>2. \/ mpc' = "leave" /\ session # NoSession /\ UNCHANGED <<session, changed>>
        \/ mpc' = "compare" /\ session' = SessionOf[pkg] /\ changed' = (session # SessionOf[pkg])
    BY <1>1 DEF Leave, Enter, Goto
  <2> QED BY <2>1, <2>2
<1>2. CASE CompareIds
  <2>1. /\ mpc = "compare" /\ mpc' = "decide" /\ UNCHANGED <<wat, pkg, job, session>>
        /\ changed' \in BOOLEAN
    BY <1>2 DEF CompareIds, Goto, storageVars
  <2> QED BY <2>1
<1>3. CASE Decide
  <2>1. /\ mpc = "decide" /\ mpc' \in {"reinit", "run"}
        /\ UNCHANGED <<wat, pkg, job, session, changed>>
    BY <1>3 DEF Decide, Goto, storageVars
  <2> QED BY <2>1
<1> QED BY <1>1, <1>2, <1>3

LEMMA NoDataPlaces ==
    ASSUME PlaceOK, Fetching, NoData, wat' = Storage!Home, TypesOK, UNCHANGED <<pkg, changed>>
    PROVE  PlaceOK'
<1>1. wat' = IF mpc = "torn" THEN "idle" ELSE "work"
  BY HomeOf
<1>2. \/ mpc = "torn" /\ session' = NoSession /\ mpc' = "loop"
      \/ mpc \in {"leave", "reinit"} /\ session' = NoSession /\ mpc' = "requeue"
      \/ mpc = "timeout" /\ session' = session /\ mpc' = "finish"
  BY DEF Fetching, NoData, Goto
<1> QED BY <1>1, <1>2
        DEF PlaceOK, Waiting, AtWork, FetchesWithPackage, WithPackage, InSession

(* The worker waits, or has what it waited for. *)
LEMMA StaysPlaces ==
    ASSUME PlaceOK, Fetching, wat' \in Waiting, job' = session,
           UNCHANGED <<mpc, session, pkg, changed>>
    PROVE  PlaceOK'
BY DEF PlaceOK, Fetching, Waiting, AtWork, FetchesWithPackage, WithPackage, InSession

LEMMA FetchKeepsPlaces ==
    ASSUME PlaceOK, TypesOK, BeginFetch \/ RefuseFetch \/ ContinueFetch
    PROVE  PlaceOK'
<1>1. CASE BeginFetch
  <2>1. /\ Fetching /\ wat' \in Waiting /\ job' = session
        /\ UNCHANGED <<mpc, session, pkg, changed>>
    BY <1>1 DEF BeginFetch, Storage!GetReinit, Waiting
  <2> QED BY <2>1, StaysPlaces
<1>2. CASE RefuseFetch
  <2>1. /\ Fetching /\ NoData /\ UNCHANGED <<pkg, changed, wat>>
        /\ wat \in {"idle", "work"}
    BY <1>2 DEF RefuseFetch, storageVars
  <2>2. wat' = Storage!Home
    BY <2>1, HomeOf, Constants DEF PlaceOK, Fetching, FetchesWithPackage, Waiting, TypesOK
  <2> QED BY <2>1, <2>2, NoDataPlaces
<1>3. CASE ContinueFetch
  <2>1. /\ Fetching /\ UNCHANGED <<pkg, changed>>
        /\ wat \in Waiting /\ job = session
        /\ \/ wat' \in Waiting /\ job' = job
           \/ wat' = Storage!Home
    BY <1>3 DEF ContinueFetch, Storage!GetRequests, Storage!GetLocks, Storage!WaitEnds,
                Storage!GetAwake, Storage!Look, Waiting, PlaceOK
  <2>2. CASE wat' \in Waiting /\ job' = job
    <3>1. UNCHANGED <<mpc, session>>
      BY <1>3, <2>2 DEF ContinueFetch, Waiting
    <3> QED BY <2>1, <2>2, <3>1, StaysPlaces
  <2>3. CASE wat' = Storage!Home
    <3>1. wat' \in {"idle", "work"}
      BY <2>3 DEF Storage!Home
    <3>2. NoData
      BY <1>3, <3>1 DEF ContinueFetch
    <3> QED BY <2>1, <2>3, <3>2, NoDataPlaces
  <2> QED BY <2>1, <2>2, <2>3
<1> QED BY <1>1, <1>2, <1>3

LEMMA EndsKeepPlaces ==
    ASSUME PlaceOK, TypesOK, EndSnapshot \/ EndReinit \/ RecordId
    PROVE  PlaceOK'
<1> USE DEF PlaceOK, Waiting, AtWork, FetchesWithPackage, WithPackage, InSession
<1>1. CASE EndSnapshot
  <2>1. /\ Fetching /\ mpc \in {"torn", "leave"} /\ wat' = Storage!Home /\ pkg' = pkg
    BY <1>1 DEF EndSnapshot, Storage!UseEnds, Fetching
  <2>2. wat' = IF mpc = "torn" THEN "idle" ELSE "work"
    BY <2>1, HomeOf
  <2>3. \/ mpc = "torn" /\ mpc' = "loop" /\ UNCHANGED <<session, changed>>
        \/ mpc = "leave" /\ mpc' = "compare" /\ session' = SessionOf[pkg] /\ changed' \in BOOLEAN
    BY <1>1, <2>1 DEF EndSnapshot, Goto, Enter
  <2>4. mpc = "leave" => SessionOf[pkg] \in Sessions
    BY Constants
  <2> QED BY <2>1, <2>2, <2>3, <2>4
<1>2. CASE EndReinit
  <2>1. /\ Fetching /\ mpc \in {"reinit", "timeout"} /\ wat' = Storage!Home /\ pkg' = pkg
        /\ UNCHANGED <<session, changed>>
    BY <1>2 DEF EndReinit, Storage!UseEnds, Fetching
  <2>2. wat' = "work" /\ mpc' \in {"record", "recordTimeout"}
    BY <1>2, <2>1, HomeOf DEF EndReinit, Goto
  <2> QED BY <2>1, <2>2
<1>3. CASE RecordId
  <2>1. /\ mpc \in {"record", "recordTimeout"} /\ mpc' \in {"run", "finish"}
        /\ UNCHANGED <<wat, pkg, job, session, changed>>
    BY <1>3 DEF RecordId, Goto, storageVars
  <2> QED BY <2>1
<1> QED BY <1>1, <1>2, <1>3

LEMMA WorkKeepsPlaces ==
    ASSUME PlaceOK, TypesOK,
           GiveUp \/ DoWork \/ Finish \/ AdvanceNumber \/ Exit \/ WorkThrows
    PROVE  PlaceOK'
<1> USE DEF PlaceOK, Waiting, AtWork, FetchesWithPackage, WithPackage, InSession, Goto
<1>1. CASE GiveUp
  BY <1>1 DEF GiveUp, Storage!GiveUp, Storage!Drop
<1>2. CASE DoWork
  <2>1. /\ mpc = "run" /\ mpc' \in {"finish", "timeout"}
        /\ UNCHANGED <<wat, pkg, job, session, changed>>
    BY <1>2 DEF DoWork, storageVars
  <2>2. mpc = "run" => session \in Sessions
    OBVIOUS
  <2> QED BY <2>1, <2>2
<1>3. CASE Finish
  BY <1>3 DEF Finish, Storage!Work
<1>4. CASE AdvanceNumber
  BY <1>4 DEF AdvanceNumber, Storage!AdvanceNumber
<1>5. CASE Exit \/ WorkThrows
  BY <1>5 DEF Exit, WorkThrows, storageVars
<1> QED BY <1>1, <1>2, <1>3, <1>4, <1>5

-----------------------------------------------------------------------------
(* The calls match the scripts. *)

Calling == {"notify", "submit", "forward", "queued"}

(* Who is calling then was calling already, with the same argument, and    *)
(* only a number is fast-forwarded to.                                     *)
CallsStay ==
    \A c \in Connections :
        /\ at'[c] \in Calling =>
               /\ at[c] \in Calling /\ (at'[c] = "notify" <=> at[c] = "notify")
               /\ arg'[c] = arg[c]
        /\ at'[c] # "away" => at[c] # "away"
        /\ at'[c] = "forward" => at[c] = "forward" \/ arg[c] \in Nat

LEMMA HandlersLeaveCalls ==
    ASSUME TypesOK, NEW c \in Connections, Serve(c) \/ ClientEnds(c)
    PROVE  CallsStay
<1> USE DEF TypesOK, CallsStay, Calling, Storage!Goto, Storage!Return, Storage!Forget,
            Storage!Signalled, Storage!Ent, Storage!NoNumber
<1>1. CASE ClientEnds(c)
  BY <1>1 DEF ClientEnds, Storage!Disconnect
<1>2. CASE Storage!HandleNotify(c) \/ Storage!HandleUpload(c)
  BY <1>2 DEF Storage!HandleNotify, Storage!HandleUpload
<1>3. CASE Storage!HandlePending(c)
  BY <1>3 DEF Storage!HandlePending
<1>4. CASE Storage!HandleEnforce(c)
  BY <1>4 DEF Storage!HandleEnforce
<1>5. CASE Storage!SubmitLook(c) \/ Storage!SubmitForward(c) \/ Storage!Commit(c)
  BY <1>5 DEF Storage!SubmitLook, Storage!SubmitForward, Storage!Commit
<1> QED BY <1>1, <1>2, <1>3, <1>4, <1>5 DEF Serve

LEMMA AskLeavesCalls ==
    ASSUME TypesOK, NEW s, Storage!Ask(s), UNCHANGED arg
    PROVE  CallsStay
BY DEF TypesOK, CallsStay, Calling, Storage!Ask, Storage!Signalled, Storage!Ent

LEMMA SameCallsStay == ASSUME UNCHANGED <<at, arg>> PROVE CallsStay
BY DEF CallsStay, Calling

(* A step of the worker, or of the destructor *)
WorkerStep == Main \/ Teardown \/ WorkThrows \/ RequestStop

LEMMA WorkerLeavesCalls ==
    ASSUME TypesOK, WorkerStep
    PROVE  CallsStay
<1> USE DEF Storage!Goto, Storage!Return, Storage!Forget
<1>1. ASSUME NEW c \in Connections, Retrieve(c) PROVE CallsStay
  BY <1>1 DEF Retrieve, Storage!Retrieve, TypesOK, CallsStay, Calling
<1>2. CASE CheckValidity
  BY <1>2 DEF CheckValidity, Storage!CheckValidity, TypesOK, CallsStay, Calling
<1>3. CASE Finish
  BY <1>3 DEF Finish, Storage!Work, TypesOK, CallsStay, Calling
<1>4. CASE Leave
  <2>1. CASE Storage!RequestReinit(session)
    BY <2>1, AskLeavesCalls DEF Storage!RequestReinit
  <2>2. CASE UNCHANGED storageVars
    BY <2>2, SameCallsStay DEF storageVars
  <2> QED BY <1>4, <2>1, <2>2 DEF Leave
<1>5. CASE Teardown
  <2>1. CASE Storage!RequestReinit(session)
    BY <2>1, AskLeavesCalls DEF Storage!RequestReinit
  <2>2. CASE UNCHANGED storageVars
    BY <2>2, SameCallsStay DEF storageVars
  <2> QED BY <1>5, <2>1, <2>2 DEF Teardown
<1>6. CASE ContinueFetch
  <2>1. CASE Storage!GetRequests
    BY <2>1, AskLeavesCalls DEF Storage!GetRequests
  <2>2. CASE Storage!GetLocks \/ Storage!WaitEnds \/ Storage!GetAwake
    BY <2>2, SameCallsStay DEF Storage!GetLocks, Storage!WaitEnds, Storage!GetAwake
  <2> QED BY <1>6, <2>1, <2>2 DEF ContinueFetch
<1>7. CASE CheckDelay \/ BeginFetch \/ EndSnapshot \/ EndReinit \/ GiveUp \/ AdvanceNumber
  BY <1>7, SameCallsStay
     DEF CheckDelay, BeginFetch, EndSnapshot, EndReinit, GiveUp, AdvanceNumber,
         Storage!CheckDelay, Storage!GetReinit, Storage!UseEnds, Storage!GiveUp,
         Storage!AdvanceNumber
<1>8. CASE CompareIds \/ Decide \/ RefuseFetch \/ RecordId \/ DoWork \/ Exit \/ WorkThrows
           \/ RequestStop
  BY <1>8, SameCallsStay
     DEF CompareIds, Decide, RefuseFetch, RecordId, DoWork, Exit, WorkThrows, RequestStop,
         storageVars
<1> QED BY <1>1, <1>2, <1>3, <1>4, <1>5, <1>6, <1>7, <1>8 DEF WorkerStep, Main

LEMMA WorkerLeavesScripts ==
    ASSUME WorkerStep
    PROVE  UNCHANGED <<calls, setBack>>
BY DEF WorkerStep, Main, Retrieve, CheckValidity, CheckDelay, Leave, CompareIds, Decide,
       BeginFetch, RefuseFetch, ContinueFetch, EndSnapshot, EndReinit, RecordId, GiveUp, DoWork,
       Finish, AdvanceNumber, Exit, Teardown, WorkThrows, RequestStop

LEMMA SameCallsMatch ==
    ASSUME CallsMatch, CallsStay, UNCHANGED calls
    PROVE  CallsMatch'
BY DEF CallsMatch, CallsStay, Calling

LEMMA MakeCallMatches ==
    ASSUME TypesOK, CallsMatch, NEW c \in Connections, MakeCall(c)
    PROVE  CallsMatch'
<1>1. calls[c] + 1 \in 1 .. Len(Script[c]) /\ Len(Script[c]) \in Nat /\ calls[c] \in Nat
  BY CallOfScript, Constants DEF MakeCall, CallsMatch
<1>2. PICK call : call = Script[c][calls[c] + 1]
  OBVIOUS
<1>3. PICK x : arg' = [arg EXCEPT ![c] = x]
  BY DEF MakeCall, Storage!Call
<1>4. /\ at' = [at EXCEPT ![c] = call.op] /\ arg'[c] = call.arg
      /\ calls' = [calls EXCEPT ![c] = @ + 1]
  BY <1>2 DEF MakeCall, Storage!Call, Storage!Goto
<1>5. calls' \in [Connections -> Nat]
  BY <1>1, <1>4 DEF CallsMatch
<1>6. ASSUME NEW d \in Connections
      PROVE  /\ calls'[d] <= Len(Script[d])
             /\ at'[d] \in {"notify", "submit", "forward", "queued"} =>
                    /\ calls'[d] > 0
                    /\ Script[d][calls'[d]].arg = arg'[d]
                    /\ at'[d] = "notify" => Script[d][calls'[d]].op = "notify"
  <2>1. CASE d = c
    <3>1. calls'[d] = calls[c] + 1 /\ at'[d] = call.op
      BY <1>4, <2>1 DEF CallsMatch, TypesOK
    <3> QED BY <1>1, <1>2, <1>4, <2>1, <3>1
  <2>2. CASE d # c
    <3>1. calls'[d] = calls[d] /\ at'[d] = at[d] /\ arg'[d] = arg[d]
      BY <1>3, <1>4, <2>2 DEF CallsMatch, TypesOK
    <3> QED BY <3>1 DEF CallsMatch
  <2> QED BY <2>1, <2>2
<1> QED BY <1>5, <1>6 DEF CallsMatch

LEMMA InvSteps == ASSUME Inv, [Next]_vars PROVE Inv'
<1>1. Proved!IInv' /\ TypesOK
  BY StepUsesStorage, StorageKeeps
<1>2. PlaceOK /\ CallsMatch
  BY DEF Inv
<1>3. ASSUME NEW c \in Connections, Client(c) PROVE PlaceOK' /\ CallsMatch'
  <2>1. CASE MakeCall(c)
    BY <1>1, <1>2, <1>3, <2>1, ClientKeepsPlaces, MakeCallMatches
  <2>2. CASE Serve(c) \/ ClientEnds(c)
    <3>1. UNCHANGED calls
      BY <2>2 DEF Serve, ClientEnds
    <3> QED BY <1>1, <1>2, <1>3, <2>2, <3>1, ClientKeepsPlaces, HandlersLeaveCalls, SameCallsMatch
  <2> QED BY <1>3, <2>1, <2>2 DEF Client
<1>4. ASSUME WorkerStep PROVE PlaceOK' /\ CallsMatch'
  <2>1. CallsMatch'
    BY <1>1, <1>2, <1>4, WorkerLeavesCalls, WorkerLeavesScripts, SameCallsMatch
  <2>2. CASE Teardown
    <3>1. /\ mpc = "loop" /\ UNCHANGED <<wat, pkg, job, session, changed>>
          /\ mpc' \in {"loop", "torn"} /\ (mpc' = "torn" => session # NoSession)
      BY <2>2 DEF Teardown, Goto, storageVars, Storage!RequestReinit, Storage!workerVars
    <3>2. pkg = NoConnection
      BY <1>1, <1>2, <3>1 DEF PlaceOK, TypesOK
    <3> QED BY <1>2, <2>1, <3>1, <3>2
            DEF PlaceOK, Waiting, AtWork, FetchesWithPackage, WithPackage, InSession
  <2>3. CASE RequestStop
    BY <1>2, <2>1, <2>3 DEF RequestStop, storageVars, mainVars, PlaceOK
  <2>4. ASSUME NEW c \in Connections, Retrieve(c) PROVE PlaceOK'
    <3>1. TypesOK'
      BY <1>1, TypesNext
    <3> QED BY <1>1, <1>2, <2>4, <3>1, RetrieveKeepsPlaces
  <2> QED BY <1>1, <1>2, <1>4, <2>1, <2>2, <2>3, <2>4, ChecksKeepPlaces, EntersPlaces,
             FetchKeepsPlaces, EndsKeepPlaces, WorkKeepsPlaces
          DEF WorkerStep, Main
<1>5. ASSUME UNCHANGED vars \/ \E c \in Connections : Requeue(c)
      PROVE  PlaceOK' /\ CallsMatch'
  <2>1. UNCHANGED <<storageVars, calls, mainVars>>
    BY <1>5 DEF vars, Requeue
  <2>2. PlaceOK' /\ CallsMatch'
    BY <1>2, <2>1 DEF storageVars, mainVars, PlaceOK, CallsMatch
  <2> QED BY <2>2
<1>6. PlaceOK' /\ CallsMatch'
  BY <1>3, <1>4, <1>5 DEF Next, WorkerStep
<1> QED BY <1>1, <1>6 DEF Inv

LEMMA InvInit == Init => Inv
<1> SUFFICES ASSUME Init PROVE Inv
  OBVIOUS
<1>1. Proved!IInv
  BY SameStorage, SameAssumption, Proved!InitHolds DEF Init, Proved!StorageAssumption
<1>2. PlaceOK
  BY DEF Init, Storage!Init, PlaceOK, Waiting, AtWork, FetchesWithPackage, WithPackage,
         InSession
<1>3. CallsMatch
  BY Constants DEF Init, Storage!Init, CallsMatch
<1> QED BY <1>1, <1>2, <1>3 DEF Inv

(* main_thread() and its place in the storage, and the clients and their   *)
(* scripts, stay together (worker-thread-reinit.tcc:19-335).               *)
THEOREM Invariant == Spec => []Inv
<1>1. Inv /\ [Next]_vars => Inv'
  BY InvSteps
<1> QED BY <1>1, InvInit, PTL DEF Spec

(* What the worker thread and the clients do with the storage is what      *)
(* SessionStorage allows (worker-thread-reinit.tcc).                       *)
THEOREM WorkerUsesStorage == Spec => UsesStorage
<1>1. Inv /\ [Next]_vars => [Storage!Next]_(Storage!vars)
  BY StepUsesStorage DEF StorageStep
<1>2. Init => Storage!Init
  BY DEF Init
<1> QED BY <1>1, <1>2, Invariant, PTL DEF Spec, UsesStorage, Storage!Spec

(* Whatever the worker and the clients do, the data the worker can get     *)
(* belong to the id notified last, every open call can be answered, no     *)
(* endless wait sleeps through an upload, and the references count the     *)
(* connections (session-storage.tcc:27-185, 289-305, 498-511).             *)
THEOREM StorageKeepsPromises ==
    Spec => [](/\ Proved!TypeOK /\ Proved!DataBelongToId /\ Proved!OpenCallsAreDeferred
               /\ Proved!NoMissedUpload /\ Proved!RefcountCounts)
<1>1. Proved!StorageAssumption
  BY SameAssumption
<1>2. Inv /\ [Next]_vars => [Proved!Next]_(Proved!vars)
  BY StepUsesStorage, SameStorage DEF StorageStep
<1>3. Init => Proved!Init
  BY SameStorage DEF Init
<1>4. Spec => Proved!Spec
  BY <1>2, <1>3, Invariant, PTL DEF Spec, Proved!Spec
<1>5. /\ Proved!Spec => []Proved!TypeOK
      /\ Proved!Spec => []Proved!DataBelongToId
      /\ Proved!Spec => []Proved!OpenCallsAreDeferred
      /\ Proved!Spec => []Proved!NoMissedUpload
      /\ Proved!Spec => []Proved!RefcountCounts
  BY <1>1, Proved!TypeCorrect, Proved!DataAlwaysBelong, Proved!OpenCallsAlwaysDeferred,
     Proved!NoUploadMissed, Proved!RefcountAlwaysCounts DEF Proved!StorageAssumption
<1> QED BY <1>4, <1>5, PTL

-----------------------------------------------------------------------------
(* What a step does to the ids and the numbers of the sessions *)

(* A session that a connection has called for has a number; none is erased *)
(* here.                                                                   *)
NumbersOK ==
    /\ \A s \in Sessions :
           entry[s].seq \in Nat \/ (~entry[s].known /\ entry[s].seq = Storage!Absent)
    /\ \A c \in Connections :
           /\ at[c] # "away" => entry[SessionOf[c]].seq \in Nat
           /\ at[c] = "forward" => arg[c] \in Nat
    /\ wat = "next" => entry[job].seq \in Nat

(* Only a notify call replaces an id, and a number goes back only if it is *)
(* set back.                                                               *)
EntryStays(s) ==
    /\ \/ entry'[s].notified = entry[s].notified
       \/ \E c \in Connections : /\ at[c] = "notify" /\ SessionOf[c] = s
                                 /\ entry'[s].notified = arg[c]
    /\ entry[s].seq <= entry'[s].seq \/ s \in setBack'
    /\ \/ entry'[s].known = entry[s].known /\ entry'[s].seq = entry[s].seq
       \/ entry'[s].seq \in Nat

EntriesStay == \A s \in Sessions : EntryStays(s)

LEMMA SameEntriesStay ==
    ASSUME TypesOK, UNCHANGED entry
    PROVE  EntriesStay
<1>1. \A s \in Sessions : entry[s].seq \in Int
  BY DEF TypesOK, Proved!EntryType, Proved!Absent, Proved!NoNumber
<1> QED BY <1>1 DEF EntriesStay, EntryStays

LEMMA OneEntryStays ==
    ASSUME TypesOK, NEW s \in Sessions, NEW e, Storage!SetEntry(s, e),
           e.notified = entry[s].notified, entry[s].seq <= e.seq,
           (e.known = entry[s].known /\ e.seq = entry[s].seq) \/ e.seq \in Nat
    PROVE  EntriesStay
<1>1. \A t \in Sessions : entry[t].seq \in Int
  BY DEF TypesOK, Proved!EntryType, Proved!Absent, Proved!NoNumber
<1>2. \A t \in Sessions : entry'[t] = IF t = s THEN e ELSE entry[t]
  BY DEF TypesOK, Storage!SetEntry
<1> QED BY <1>1, <1>2 DEF EntriesStay, EntryStays

(* What the regions make of an entry's id and number *)
LEMMA EntryFields ==
    ASSUME NEW e \in Proved!EntryType
    PROVE  /\ e.seq \in Int
           /\ \A tracked \in BOOLEAN :
                  /\ Storage!EnsureRegistered(e, tracked).notified = e.notified
                  /\ e.seq <= Storage!EnsureRegistered(e, tracked).seq
                  /\ e.seq \in Nat \/ (~e.known /\ e.seq = Storage!Absent) =>
                         Storage!EnsureRegistered(e, tracked).seq \in Nat
           /\ Storage!Unreference(e).notified = e.notified
           /\ Storage!Unreference(e).known = e.known /\ Storage!Unreference(e).seq = e.seq
           /\ Storage!Answered(e).notified = e.notified
           /\ Storage!Answered(e).known = e.known /\ Storage!Answered(e).seq = e.seq
           /\ \A x : /\ [e EXCEPT !.force = x].notified = e.notified
                     /\ [e EXCEPT !.force = x].known = e.known
                     /\ [e EXCEPT !.force = x].seq = e.seq
           /\ Storage!Advanced(e).notified = e.notified
           /\ e.seq <= Storage!Advanced(e).seq
           /\ e.seq >= 0 => Storage!Advanced(e).seq = e.seq + 1
<1> USE DEF Proved!EntryType, Proved!Absent, Proved!NoNumber, Storage!Absent, Storage!NoNumber
<1>1. e.seq \in Nat \union {-2, -1}
  OBVIOUS
<1>2. ASSUME NEW tracked \in BOOLEAN
      PROVE  /\ Storage!EnsureRegistered(e, tracked).notified = e.notified
             /\ e.seq <= Storage!EnsureRegistered(e, tracked).seq
             /\ e.seq \in Nat \/ (~e.known /\ e.seq = -2) =>
                    Storage!EnsureRegistered(e, tracked).seq \in Nat
  <2>1. CASE e.known
    BY <1>1, <2>1 DEF Storage!EnsureRegistered
  <2>2. CASE ~e.known
    <3>1. PICK n : n = IF e.seq = -2 THEN 0 ELSE e.seq
      OBVIOUS
    <3>2. /\ Storage!RegisterNew(e).notified = e.notified
          /\ Storage!RegisterNew(e).seq = n
      BY <3>1 DEF Storage!RegisterNew
    <3> QED BY <1>1, <2>2, <3>1, <3>2 DEF Storage!EnsureRegistered
  <2> QED BY <2>1, <2>2
<1>3. /\ Storage!Unreference(e).notified = e.notified
      /\ Storage!Unreference(e).known = e.known /\ Storage!Unreference(e).seq = e.seq
  BY DEF Storage!Unreference
<1>4. /\ Storage!Answered(e).notified = e.notified
      /\ Storage!Answered(e).known = e.known /\ Storage!Answered(e).seq = e.seq
  BY DEF Storage!Answered
<1>5. \A x : /\ [e EXCEPT !.force = x].notified = e.notified
            /\ [e EXCEPT !.force = x].known = e.known
            /\ [e EXCEPT !.force = x].seq = e.seq
  OBVIOUS
<1>6. /\ Storage!Advanced(e).notified = e.notified
      /\ e.seq <= Storage!Advanced(e).seq
      /\ e.seq >= 0 => Storage!Advanced(e).seq = e.seq + 1
  <2>1. PICK n : n = IF e.seq \in {-2, -1} THEN -1 ELSE e.seq + 1
    OBVIOUS
  <2>2. Storage!Advanced(e) = [e EXCEPT !.seq = n]
    BY <2>1 DEF Storage!Advanced
  <2>3. [e EXCEPT !.seq = n].notified = e.notified /\ [e EXCEPT !.seq = n].seq = n
    OBVIOUS
  <2> QED BY <1>1, <2>1, <2>2, <2>3
<1> QED BY <1>1, <1>2, <1>3, <1>4, <1>5, <1>6

LEMMA CallsKeepEntries ==
    ASSUME TypesOK, NumbersOK, NEW c \in Connections, MakeCall(c) \/ ClientEnds(c)
    PROVE  EntriesStay
<1>1. /\ SessionOf[c] \in Sessions /\ entry[SessionOf[c]] \in Proved!EntryType
      /\ \/ entry[SessionOf[c]].seq \in Nat
         \/ ~entry[SessionOf[c]].known /\ entry[SessionOf[c]].seq = Storage!Absent
  BY Constants DEF TypesOK, NumbersOK
<1>2. CASE MakeCall(c)
  <2>1. PICK tracked \in BOOLEAN : tracked = (at[c] = "idle")
    OBVIOUS
  <2>2. Storage!SetEntry(SessionOf[c],
                         Storage!EnsureRegistered(entry[SessionOf[c]], tracked))
    BY <1>2, <2>1 DEF MakeCall, Storage!Call, Storage!Ent
  <2> QED BY <1>1, <2>2, EntryFields, OneEntryStays
<1>3. CASE ClientEnds(c)
  BY <1>1, <1>3, EntryFields, OneEntryStays DEF ClientEnds, Storage!Disconnect, Storage!Ent
<1> QED BY <1>2, <1>3

(* What the server's handlers make of an entry *)
LEMMA ServeSetsEntry ==
    ASSUME NEW c \in Connections, Serve(c), TypesOK
    PROVE  \/ UNCHANGED entry
           \/ \E e : /\ Storage!SetEntry(SessionOf[c], e)
                    /\ \/ e.notified = entry[SessionOf[c]].notified
                       \/ at[c] = "notify" /\ e.notified = arg[c]
                    /\ \/ /\ e.known = entry[SessionOf[c]].known
                          /\ e.seq = entry[SessionOf[c]].seq
                       \/ at[c] = "forward" /\ e.seq = arg[c]
<1>1. PICK old \in Proved!EntryType : old = entry[SessionOf[c]]
  BY Constants DEF TypesOK
<1> USE DEF Storage!Ent, Proved!EntryType
<1>2. CASE Storage!HandleNotify(c)
  <2>1. /\ \/ Storage!Notified(old, arg[c]).notified = old.notified
           \/ Storage!Notified(old, arg[c]).notified = arg[c]
        /\ Storage!Notified(old, arg[c]).known = old.known
        /\ Storage!Notified(old, arg[c]).seq = old.seq
    BY DEF Storage!Notified
  <2> QED BY <1>1, <1>2, <2>1 DEF Storage!HandleNotify
<1>3. CASE Storage!HandlePending(c)
  <2>1. /\ Storage!Pended(old, arg[c], c).notified = old.notified
        /\ Storage!Pended(old, arg[c], c).known = old.known
        /\ Storage!Pended(old, arg[c], c).seq = old.seq
    BY DEF Storage!Pended
  <2> QED BY <1>1, <1>3, <2>1 DEF Storage!HandlePending
<1>4. CASE Storage!HandleUpload(c)
  <2>1. /\ Storage!Stored(old, arg[c], arg[c]).notified = old.notified
        /\ Storage!Stored(old, arg[c], arg[c]).known = old.known
        /\ Storage!Stored(old, arg[c], arg[c]).seq = old.seq
    BY DEF Storage!Stored
  <2> QED BY <1>1, <1>4, <2>1 DEF Storage!HandleUpload
<1>5. CASE Storage!HandleEnforce(c)
  <2>1. PICK e \in Proved!EntryType : e = [old EXCEPT !.force = TRUE]
    OBVIOUS
  <2>2. /\ e.notified = old.notified /\ e.known = old.known /\ e.seq = old.seq
        /\ Storage!Answered(e).notified = e.notified
        /\ Storage!Answered(e).known = e.known /\ Storage!Answered(e).seq = e.seq
    BY <2>1, EntryFields
  <2>3. \/ Storage!SetEntry(SessionOf[c], Storage!Answered(e))
        \/ Storage!SetEntry(SessionOf[c], e)
    BY <1>1, <1>5, <2>1 DEF Storage!HandleEnforce
  <2> QED BY <1>1, <2>2, <2>3
<1>6. CASE Storage!SubmitForward(c)
  <2>1. /\ [old EXCEPT !.seq = arg[c]].notified = old.notified
        /\ [old EXCEPT !.seq = arg[c]].seq = arg[c]
    OBVIOUS
  <2> QED BY <1>1, <1>6, <2>1 DEF Storage!SubmitForward
<1>7. CASE Storage!SubmitLook(c) \/ Storage!Commit(c)
  BY <1>7 DEF Storage!SubmitLook, Storage!Commit
<1> QED BY <1>2, <1>3, <1>4, <1>5, <1>6, <1>7 DEF Serve

LEMMA ServeKeepsEntries ==
    ASSUME TypesOK, TypesOK', NumbersOK, NEW c \in Connections, Serve(c)
    PROVE  EntriesStay
<1>1. \A s \in Sessions : entry[s].seq \in Int /\ entry'[s].seq \in Int
  BY DEF TypesOK, Proved!EntryType, Proved!Absent, Proved!NoNumber
<1>2. ASSUME NEW s \in Sessions PROVE entry[s].seq <= entry'[s].seq \/ s \in setBack'
  <2>1. setBack' = setBack \union {t \in Sessions : entry'[t].seq < entry[t].seq}
    BY DEF Serve
  <2> QED BY <1>1, <2>1
<1>3. ASSUME NEW s \in Sessions
      PROVE  /\ \/ entry'[s].notified = entry[s].notified
                \/ \E d \in Connections : /\ at[d] = "notify" /\ SessionOf[d] = s
                                          /\ entry'[s].notified = arg[d]
             /\ \/ entry'[s].known = entry[s].known /\ entry'[s].seq = entry[s].seq
                \/ entry'[s].seq \in Nat
  <2>1. CASE UNCHANGED entry
    BY <2>1
  <2>2. ASSUME NEW e, Storage!SetEntry(SessionOf[c], e),
               \/ e.notified = entry[SessionOf[c]].notified
               \/ at[c] = "notify" /\ e.notified = arg[c],
               \/ e.known = entry[SessionOf[c]].known /\ e.seq = entry[SessionOf[c]].seq
               \/ at[c] = "forward" /\ e.seq = arg[c]
        PROVE  /\ \/ entry'[s].notified = entry[s].notified
                  \/ \E d \in Connections : /\ at[d] = "notify" /\ SessionOf[d] = s
                                            /\ entry'[s].notified = arg[d]
               /\ \/ entry'[s].known = entry[s].known /\ entry'[s].seq = entry[s].seq
                  \/ entry'[s].seq \in Nat
    <3>1. entry'[s] = IF s = SessionOf[c] THEN e ELSE entry[s]
      BY <2>2 DEF TypesOK, Storage!SetEntry
    <3>2. at[c] = "forward" => arg[c] \in Nat
      BY DEF NumbersOK
    <3> QED BY <2>2, <3>1, <3>2
  <2> QED BY <2>1, <2>2, ServeSetsEntry
<1> QED BY <1>2, <1>3 DEF EntriesStay, EntryStays

LEMMA AskKeepsEntries ==
    ASSUME TypesOK, NEW s \in Sessions, Storage!Ask(s)
    PROVE  EntriesStay
<1>1. entry[s] \in Proved!EntryType
  BY DEF TypesOK
<1>2. CASE UNCHANGED entry
  BY <1>2, SameEntriesStay
<1>3. CASE Storage!SetEntry(s, Storage!Answered(entry[s]))
  BY <1>1, <1>3, EntryFields, OneEntryStays
<1> QED BY <1>2, <1>3 DEF Storage!Ask

LEMMA WorkerKeepsEntries ==
    ASSUME TypesOK, PlaceOK, NumbersOK, WorkerStep
    PROVE  EntriesStay
<1>1. CASE Leave \/ Teardown
  <2>1. CASE UNCHANGED storageVars
    BY <2>1, SameEntriesStay DEF storageVars
  <2>2. CASE Storage!RequestReinit(session) /\ session # NoSession
    BY <2>2, AskKeepsEntries DEF Storage!RequestReinit, PlaceOK
  <2> QED BY <1>1, <2>1, <2>2 DEF Leave, Teardown
<1>2. CASE ContinueFetch
  <2>1. CASE Storage!GetRequests
    BY <2>1, AskKeepsEntries DEF Storage!GetRequests, TypesOK
  <2>2. CASE Storage!GetLocks \/ Storage!WaitEnds \/ Storage!GetAwake
    BY <2>2, SameEntriesStay DEF Storage!GetLocks, Storage!WaitEnds, Storage!GetAwake
  <2> QED BY <1>2, <2>1, <2>2 DEF ContinueFetch
<1>3. CASE EndReinit
  <2>1. job \in Sessions /\ entry[job] \in Proved!EntryType
    BY <1>3 DEF EndReinit, Storage!UseEnds, TypesOK
  <2>2. PICK e : e = [entry[job] EXCEPT !.force = FALSE]
    OBVIOUS
  <2>3. e.notified = entry[job].notified /\ e.known = entry[job].known /\ e.seq = entry[job].seq
    BY <2>1, <2>2, EntryFields
  <2>4. entry[job].seq <= e.seq
    BY <2>1, <2>3, EntryFields
  <2>5. UNCHANGED entry \/ Storage!SetEntry(job, e)
    BY <1>3, <2>2 DEF EndReinit, Storage!UseEnds
  <2> QED BY <2>1, <2>3, <2>4, <2>5, SameEntriesStay, OneEntryStays
<1>4. CASE AdvanceNumber
  <2>1. job \in Sessions /\ entry[job] \in Proved!EntryType
    BY <1>4 DEF AdvanceNumber, Storage!AdvanceNumber, TypesOK
  <2>2. /\ Storage!SetEntry(job, Storage!Advanced(entry[job])) /\ entry[job].seq \in Nat
    BY <1>4 DEF AdvanceNumber, Storage!AdvanceNumber, NumbersOK
  <2> QED BY <2>1, <2>2, EntryFields, OneEntryStays
<1>5. ASSUME \/ \E c \in Connections : Retrieve(c)
             \/ CheckValidity \/ CheckDelay \/ BeginFetch \/ EndSnapshot \/ GiveUp \/ Finish
      PROVE  EntriesStay
  BY <1>5, SameEntriesStay
     DEF Retrieve, CheckValidity, CheckDelay, BeginFetch, EndSnapshot, GiveUp, Finish,
         Storage!Retrieve, Storage!CheckValidity, Storage!CheckDelay, Storage!GetReinit,
         Storage!GiveUp, Storage!Work
<1>6. CASE CompareIds \/ Decide \/ RefuseFetch \/ RecordId \/ DoWork \/ Exit \/ WorkThrows
           \/ RequestStop
  BY <1>6, SameEntriesStay
     DEF CompareIds, Decide, RefuseFetch, RecordId, DoWork, Exit, WorkThrows, RequestStop,
         storageVars
<1> QED BY <1>1, <1>2, <1>3, <1>4, <1>5, <1>6 DEF WorkerStep, Main

LEMMA EntriesKeepNumbers ==
    ASSUME NumbersOK, EntriesStay, NEW s \in Sessions
    PROVE  /\ entry[s].seq \in Nat => entry'[s].seq \in Nat
           /\ entry'[s].seq \in Nat \/ (~entry'[s].known /\ entry'[s].seq = Storage!Absent)
BY DEF NumbersOK, EntriesStay, EntryStays

LEMMA CallsKeepNumbers ==
    ASSUME NumbersOK, EntriesStay, CallsStay
    PROVE  \A c \in Connections :
               /\ at'[c] # "away" => entry'[SessionOf[c]].seq \in Nat
               /\ at'[c] = "forward" => arg'[c] \in Nat
BY EntriesKeepNumbers, Constants DEF NumbersOK, CallsStay, Calling

LEMMA ClientKeepsNumbers ==
    ASSUME TypesOK, TypesOK', CallsMatch, NumbersOK, NEW c \in Connections, Client(c)
    PROVE  NumbersOK'
<1>1. EntriesStay
  BY CallsKeepEntries, ServeKeepsEntries DEF Client
<1>2. wat' = "next" => entry'[job'].seq \in Nat
  <2>1. wat' = "next" => wat = "next" /\ job' = job /\ job \in Sessions
    BY ClientLeaves DEF TypesOK
  <2> QED BY <1>1, <2>1, EntriesKeepNumbers DEF NumbersOK
<1>3. \A d \in Connections :
          /\ at'[d] # "away" => entry'[SessionOf[d]].seq \in Nat
          /\ at'[d] = "forward" => arg'[d] \in Nat
  <2>1. CASE MakeCall(c)
    <3>1. PICK x, op : /\ at' = [at EXCEPT ![c] = op] /\ arg' = [arg EXCEPT ![c] = x]
                       /\ op = Script[c][calls[c] + 1].op
      BY <2>1 DEF MakeCall, Storage!Call, Storage!Goto
    <3>2. op # "forward"
      BY <2>1, <3>1, CallOfScript DEF MakeCall, CallType, Operations, Storage!Arguments
    <3>3. entry'[SessionOf[c]].seq \in Nat
      <4>1. entry'[SessionOf[c]] =
                Storage!EnsureRegistered(entry[SessionOf[c]], at[c] = "idle")
        BY <2>1, Constants DEF MakeCall, Storage!Call, Storage!SetEntry, Storage!Ent, TypesOK
      <4>2. PICK tracked \in BOOLEAN : tracked = (at[c] = "idle")
        OBVIOUS
      <4>3. PICK e \in Proved!EntryType : e = entry[SessionOf[c]]
        BY Constants DEF TypesOK
      <4>4. e.seq \in Nat \/ (~e.known /\ e.seq = Storage!Absent)
        BY <4>3, Constants DEF NumbersOK
      <4>5. Storage!EnsureRegistered(e, tracked).seq \in Nat
        BY <4>4, EntryFields
      <4> QED BY <4>1, <4>2, <4>3, <4>5
    <3>4. ASSUME NEW d \in Connections, d # c
          PROVE  at'[d] = at[d] /\ arg'[d] = arg[d] /\ SessionOf[d] \in Sessions
      BY <3>1, <3>4, Constants DEF TypesOK
    <3>5. at'[c] # "forward"
      BY <3>1, <3>2 DEF TypesOK
    <3> QED BY <1>1, <3>3, <3>4, <3>5, EntriesKeepNumbers DEF NumbersOK
  <2>2. CASE Serve(c) \/ ClientEnds(c)
    BY <1>1, <2>2, HandlersLeaveCalls, CallsKeepNumbers
  <2> QED BY <2>1, <2>2 DEF Client
<1> QED BY <1>1, <1>2, <1>3, EntriesKeepNumbers DEF NumbersOK

LEMMA WorkerKeepsNumbers ==
    ASSUME TypesOK, PlaceOK, NumbersOK, WorkerStep
    PROVE  NumbersOK'
<1>1. EntriesStay /\ CallsStay
  BY WorkerKeepsEntries, WorkerLeavesCalls
<1>2. wat' = "next" => entry'[job'].seq \in Nat
  <2>1. CASE Finish
    <3>1. wat' = "next" => job' = SessionOf[pkg] /\ at[pkg] # "away" /\ pkg \in Connections
      BY <2>1 DEF Finish, Storage!Work, TypesOK
    <3> QED BY <1>1, <3>1, EntriesKeepNumbers, Constants DEF NumbersOK
  <2>2. CASE ~Finish
    <3>1. wat' = "next" => UNCHANGED <<wat, job>>
      BY <2>2
         DEF WorkerStep, Main, Retrieve, CheckValidity, CheckDelay, Leave, CompareIds, Decide,
             BeginFetch, RefuseFetch, ContinueFetch, EndSnapshot, EndReinit, RecordId, GiveUp,
             DoWork, AdvanceNumber, Exit, Teardown, WorkThrows, RequestStop, storageVars,
             Storage!Retrieve, Storage!CheckValidity, Storage!CheckDelay, Storage!RequestReinit,
             Storage!workerVars, Storage!GetReinit, Storage!GetRequests, Storage!GetLocks,
             Storage!WaitEnds, Storage!GetAwake, Storage!Look, Storage!Home, Storage!UseEnds,
             Storage!GiveUp, Storage!Drop, Storage!AdvanceNumber
    <3>2. wat = "next" => job \in Sessions
      BY DEF TypesOK
    <3> QED BY <1>1, <3>1, <3>2, EntriesKeepNumbers DEF NumbersOK
  <2> QED BY <2>1, <2>2
<1> QED BY <1>1, <1>2, EntriesKeepNumbers, CallsKeepNumbers DEF NumbersOK

LEMMA NumbersSteps == ASSUME Inv, NumbersOK, [Next]_vars PROVE NumbersOK'
<1>1. TypesOK /\ TypesOK' /\ PlaceOK /\ CallsMatch
  BY StepUsesStorage, StorageKeeps DEF Inv
<1>2. ASSUME UNCHANGED vars \/ \E c \in Connections : Requeue(c) PROVE NumbersOK'
  BY <1>2 DEF vars, Requeue, storageVars, NumbersOK
<1> QED BY <1>1, <1>2, ClientKeepsNumbers, WorkerKeepsNumbers DEF Next, WorkerStep

LEMMA NumbersInit == Init => NumbersOK
BY Constants DEF Init, Storage!Init, Storage!Unknown, NumbersOK

(* A session that is called for has a number, and only a number is         *)
(* fast-forwarded to (session-storage.tcc:330-367).                        *)
THEOREM NumbersInvariant == Spec => []NumbersOK
<1>1. Inv /\ NumbersOK /\ [Next]_vars => NumbersOK'
  BY NumbersSteps
<1> QED BY <1>1, NumbersInit, Invariant, PTL DEF Spec

-----------------------------------------------------------------------------
(* In which state the hardware is *)

(* The data that were applied last are those of the current session, whose *)
(* id is about to be recorded.                                             *)
Applying ==
    \/ mpc \in {"reinit", "timeout"} /\ wat = "using"
    \/ mpc \in {"record", "recordTimeout"}

(* The id of a session is one that its clients announce. *)
IdsOK == \A s \in Sessions : Registered(s) => Announces(s, entry[s].notified)

(* The id that is recorded belongs to the session whose data were applied. *)
LoadedOK ==
    loaded[1] # NoSession =>
        /\ loaded[1] \in Sessions
        /\ IF Applying THEN loaded[1] = session /\ Registered(session)
                       ELSE reinitId \in ReinitIds /\ Announces(loaded[1], reinitId)

(* Where nothing has changed the state is not that of another session. *)
DecideOK == mpc = "decide" /\ ~changed => loaded[1] \in {session, NoSession}

HardwareInv == IdsOK /\ LoadedOK /\ DecideOK

LEMMA NotifiedIds ==
    ASSUME TypesOK, CallsMatch, NEW c \in Connections, at[c] = "notify"
    PROVE  arg[c] \in ReinitIds /\ Announces(SessionOf[c], arg[c])
<1>1. arg[c] \in ReinitIds
  BY DEF TypesOK
<1>2. calls[c] \in DOMAIN Script[c] /\ Script[c][calls[c]] \in CallType
  BY Constants DEF CallsMatch
<1>3. PICK call : call = Script[c][calls[c]]
  OBVIOUS
<1>4. call.op = "notify" /\ call.arg = arg[c]
  BY <1>3 DEF CallsMatch
<1>5. call = [op |-> "notify", arg |-> arg[c]]
  BY <1>2, <1>3, <1>4 DEF CallType
<1> QED BY <1>1, <1>2, <1>3, <1>5 DEF Announces

LEMMA SessionsStayRegistered ==
    ASSUME TypesOK, CallsMatch, EntriesStay, NEW s \in Sessions, Registered(s)
    PROVE  Registered(s)'
BY NotifiedIds, Constants DEF EntriesStay, EntryStays, Registered

LEMMA IdsStay ==
    ASSUME TypesOK, CallsMatch, EntriesStay, IdsOK
    PROVE  IdsOK'
<1> SUFFICES ASSUME NEW s \in Sessions, Registered(s)'
             PROVE  Announces(s, entry'[s].notified)
  BY DEF IdsOK, Announces
<1>1. CASE entry'[s].notified = entry[s].notified
  BY <1>1 DEF IdsOK, Registered
<1>2. ASSUME NEW c \in Connections, at[c] = "notify", SessionOf[c] = s,
             entry'[s].notified = arg[c]
      PROVE  Announces(s, entry'[s].notified)
  BY <1>2, NotifiedIds
<1> QED BY <1>1, <1>2 DEF EntriesStay, EntryStays

LEMMA SameLoaded ==
    ASSUME LoadedOK, ~Applying, ~Applying', UNCHANGED <<loaded, reinitId>>
    PROVE  LoadedOK'
BY DEF LoadedOK, Announces

LEMMA NothingLoaded ==
    ASSUME loaded' = Nothing
    PROVE  LoadedOK'
BY DEF LoadedOK, Nothing

LEMMA ClientKeepsHardware ==
    ASSUME TypesOK, CallsMatch, PlaceOK, EntriesStay, LoadedOK, DecideOK,
           UNCHANGED mainVars, wat' = wat \/ (wat = "waiting" /\ wat' = "woken")
    PROVE  LoadedOK' /\ DecideOK'
<1>1. UNCHANGED <<mpc, session, reinitId, changed, loaded>>
  BY DEF mainVars
<1>2. Applying' = Applying
  BY <1>1 DEF Applying
<1>3. Applying => session \in Sessions
  BY DEF Applying, PlaceOK, InSession
<1>4. LoadedOK'
  <2>1. CASE Applying
    <3>1. Registered(session) => Registered(session)'
      BY <1>1, <1>3, <2>1, SessionsStayRegistered
    <3> QED BY <1>1, <1>2, <2>1, <3>1 DEF LoadedOK
  <2>2. CASE ~Applying
    BY <1>1, <1>2, <2>2, SameLoaded
  <2> QED BY <2>1, <2>2
<1> QED BY <1>1, <1>4 DEF DecideOK

(* While the worker waits for data, nothing is applied; then they are.     *)
LEMMA FetchKeepsHardware ==
    ASSUME TypesOK, PlaceOK, LoadedOK, BeginFetch \/ RefuseFetch \/ ContinueFetch
    PROVE  LoadedOK' /\ mpc' # "decide"
<1>1. /\ Fetching /\ reinitId' = reinitId /\ wat # "using"
      /\ \/ mpc' = mpc /\ session' = session
         \/ mpc' \in {"loop", "requeue", "finish"}
  <2>1. NoData => mpc' \in {"loop", "requeue", "finish"}
    BY DEF NoData, Goto, BeginFetch, RefuseFetch, ContinueFetch, Fetching
  <2> QED BY <2>1
          DEF BeginFetch, RefuseFetch, ContinueFetch, Storage!GetReinit, Storage!MayAsk,
              Storage!GetRequests, Storage!GetLocks, Storage!WaitEnds, Storage!GetAwake
<1>2. ~Applying
  BY <1>1 DEF Applying, Fetching
<1>3. CASE mpc' = mpc /\ wat' = "using" /\ mpc \in {"reinit", "timeout"}
  <2>1. session' = session /\ session \in Sessions
    BY <1>1, <1>3 DEF PlaceOK, InSession, Fetching
  <2>2. /\ UNCHANGED entry /\ Storage!IsUpToDate(entry[session])
        /\ loaded' = <<session, entry[session].data>>
    <3>1. CASE BeginFetch
      BY <1>3, <3>1 DEF BeginFetch, LoadData, Applies, Storage!GetReinit
    <3>2. CASE ContinueFetch
      <4>1. job = session
        BY <3>2 DEF ContinueFetch, Storage!GetRequests, Storage!GetLocks, Storage!WaitEnds,
                    Storage!GetAwake, PlaceOK, Waiting
      <4>2. UNCHANGED entry /\ Storage!IsUpToDate(entry[job])
        BY <1>3, <3>2 DEF ContinueFetch, Storage!GetRequests, Storage!GetLocks,
                          Storage!WaitEnds, Storage!GetAwake, Storage!Look, Storage!Home
      <4> QED BY <1>3, <3>2, <4>1, <4>2 DEF ContinueFetch, LoadData, Applies
    <3>3. CASE RefuseFetch
      BY <1>1, <1>3, <3>3 DEF RefuseFetch, storageVars
    <3> QED BY <3>1, <3>2, <3>3
  <2>3. Applying' /\ loaded'[1] = session' /\ Registered(session)'
    BY <1>3, <2>1, <2>2 DEF Applying, Registered, Storage!IsUpToDate
  <2> QED BY <1>3, <2>1, <2>3 DEF LoadedOK
<1>4. CASE ~(mpc' = mpc /\ wat' = "using" /\ mpc \in {"reinit", "timeout"})
  <2>1. ~Applying'
    BY <1>1, <1>4 DEF Applying, Fetching
  <2>2. loaded' = loaded
    <3>1. CASE Applies
      <4>1. mpc' = mpc \/ (NoData /\ wat' \in {"idle", "work"})
        BY <1>1 DEF BeginFetch, RefuseFetch, ContinueFetch, storageVars
      <4> QED BY <1>4, <3>1, <4>1 DEF Applies
    <3>2. CASE ~Applies
      BY <3>2 DEF BeginFetch, RefuseFetch, ContinueFetch, LoadData
    <3> QED BY <3>1, <3>2
  <2> QED BY <1>1, <1>2, <2>1, <2>2, SameLoaded DEF Fetching
<1> QED BY <1>1, <1>3, <1>4 DEF Fetching

LEMMA WorkerKeepsHardware ==
    ASSUME TypesOK, CallsMatch, PlaceOK, EntriesStay, HardwareInv, WorkerStep
    PROVE  LoadedOK' /\ DecideOK'
<1> USE DEF Goto
<1>0. IdsOK /\ LoadedOK /\ DecideOK
  BY DEF HardwareInv
<1>1. CASE BeginFetch \/ RefuseFetch \/ ContinueFetch
  BY <1>0, <1>1, FetchKeepsHardware DEF DecideOK
<1>2. CASE CompareIds
  <2>1. /\ mpc = "compare" /\ mpc' = "decide" /\ UNCHANGED <<entry, session, loaded>>
        /\ session \in Sessions
    BY <1>2 DEF CompareIds, storageVars, PlaceOK, InSession
  <2>2. LoadedOK' /\ (~changed' => loaded[1] \in {session, NoSession})
    <3>1. ~Applying /\ ~Applying'
      BY <2>1 DEF Applying
    <3>2. CASE loaded[1] = NoSession
      BY <2>1, <3>2 DEF LoadedOK
    <3>3. CASE loaded[1] # NoSession
      <4>1. /\ loaded[1] \in Sessions /\ reinitId \in ReinitIds
            /\ Announces(loaded[1], reinitId)
        BY <1>0, <3>1, <3>3 DEF LoadedOK
      <4>2. /\ reinitId' = reinitId
            /\ changed' = (changed \/ reinitId # entry[session].notified)
        BY <1>2, <4>1, Constants DEF CompareIds
      <4>3. ASSUME ~changed' PROVE loaded[1] = session
        <5>1. reinitId = entry[session].notified /\ Registered(session)
          BY <4>1, <4>2, <4>3, Constants DEF Registered
        <5>2. Announces(session, reinitId)
          BY <1>0, <2>1, <5>1 DEF IdsOK
        <5> QED BY <2>1, <4>1, <5>2, ReinitAssumption
      <4> QED BY <1>0, <2>1, <3>1, <4>2, <4>3, SameLoaded
    <3> QED BY <3>2, <3>3
  <2> QED BY <2>1, <2>2 DEF DecideOK
<1>3. CASE EndReinit
  <2>1. /\ mpc \in {"reinit", "timeout"} /\ wat = "using"
        /\ mpc' \in {"record", "recordTimeout"} /\ UNCHANGED <<session, loaded>>
    BY <1>3 DEF EndReinit, Storage!UseEnds
  <2>2. Applying /\ Applying' /\ session \in Sessions
    BY <2>1 DEF Applying, PlaceOK, InSession
  <2>3. Registered(session) => Registered(session)'
    BY <2>1, <2>2, SessionsStayRegistered
  <2> QED BY <1>0, <2>1, <2>2, <2>3 DEF LoadedOK, DecideOK
<1>4. CASE RecordId
  <2>1. /\ Applying /\ ~Applying' /\ mpc' # "decide" /\ loaded' = loaded
        /\ reinitId' = entry[session].notified /\ session \in Sessions
    BY <1>4 DEF RecordId, Applying, PlaceOK, InSession
  <2>2. Registered(session) => /\ reinitId' \in ReinitIds
                               /\ Announces(session, entry[session].notified)
    BY <1>0, <2>1 DEF IdsOK, Registered, TypesOK, Proved!EntryType
  <2> QED BY <1>0, <2>1, <2>2 DEF LoadedOK, DecideOK, Announces
<1>5. CASE DoWork \/ Teardown \/ Exit
  <2>1. /\ ~Applying /\ mpc' # "decide"
        /\ loaded' = Nothing \/ (UNCHANGED <<loaded, reinitId>> /\ ~Applying')
    BY <1>5 DEF DoWork, Teardown, Exit, Applying, PlaceOK, AtWork, storageVars
  <2> QED BY <1>0, <2>1, NothingLoaded, SameLoaded DEF DecideOK
<1>6. ASSUME \/ \E c \in Connections : Retrieve(c)
             \/ CheckValidity \/ CheckDelay \/ Leave \/ Decide \/ EndSnapshot
             \/ GiveUp \/ Finish \/ AdvanceNumber \/ WorkThrows
      PROVE  LoadedOK' /\ DecideOK'
  <2>1. UNCHANGED <<loaded, reinitId>> /\ ~Applying
    BY <1>6 DEF Retrieve, CheckValidity, CheckDelay, Leave, Decide, EndSnapshot, GiveUp, Finish,
                AdvanceNumber, WorkThrows, Applying, PlaceOK, AtWork, Storage!CheckValidity,
                Storage!CheckDelay
  <2>2. \/ mpc' \in {"loop", "check", "ensure", "leave", "compare", "run", "next", "crashed"}
        \/ (mpc' = "reinit" /\ wat' = "work")
    BY <1>6 DEF Retrieve, CheckValidity, CheckDelay, Leave, Enter, Decide, EndSnapshot, GiveUp,
                Finish, AdvanceNumber, WorkThrows, PlaceOK, AtWork, storageVars,
                Storage!Retrieve, Storage!CheckDelay, Storage!Drop
  <2> QED BY <1>0, <2>1, <2>2, SameLoaded DEF Applying, DecideOK
<1>7. CASE RequestStop
  BY <1>0, <1>7, ClientKeepsHardware DEF RequestStop, storageVars
<1> QED BY <1>1, <1>2, <1>3, <1>4, <1>5, <1>6, <1>7 DEF WorkerStep, Main

LEMMA HardwareSteps ==
    ASSUME Inv, NumbersOK, HardwareInv, [Next]_vars
    PROVE  HardwareInv'
<1>1. TypesOK /\ TypesOK' /\ PlaceOK /\ CallsMatch /\ IdsOK /\ LoadedOK /\ DecideOK
  BY StepUsesStorage, StorageKeeps DEF Inv, HardwareInv
<1>2. CASE WorkerStep
  BY <1>1, <1>2, WorkerKeepsEntries, WorkerKeepsHardware, IdsStay DEF HardwareInv
<1>3. ASSUME NEW c \in Connections, Client(c) PROVE HardwareInv'
  <2>1. EntriesStay
    BY <1>1, <1>3, CallsKeepEntries, ServeKeepsEntries DEF Client
  <2> QED BY <1>1, <1>3, <2>1, ClientLeaves, ClientKeepsHardware, IdsStay DEF HardwareInv
<1>4. ASSUME UNCHANGED vars \/ \E c \in Connections : Requeue(c) PROVE HardwareInv'
  <2>1. UNCHANGED <<storageVars, mainVars>>
    BY <1>4 DEF vars, Requeue
  <2>2. UNCHANGED mainVars /\ UNCHANGED <<entry, wat>>
    BY <2>1 DEF storageVars
  <2> QED BY <1>1, <2>2, SameEntriesStay, ClientKeepsHardware, IdsStay DEF HardwareInv
<1> QED BY <1>2, <1>3, <1>4 DEF Next, WorkerStep

LEMMA HardwareInit == Init => HardwareInv
BY DEF Init, Storage!Init, Storage!Unknown, HardwareInv, IdsOK, LoadedOK, DecideOK, Registered,
       Nothing

LEMMA DecisionIsRight ==
    ASSUME Inv, HardwareInv, [Next]_vars, mpc = "decide", mpc' = "run", Registered(session)
    PROVE  loaded[1] \in {session, NoSession}
<1>1. Decide
  <2>1. ASSUME NEW c \in Connections, Client(c) PROVE FALSE
    BY <2>1, ClientLeaves DEF mainVars
  <2>2. ~UNCHANGED vars
    BY DEF vars, mainVars
  <2>3. wat = "work"
    BY DEF Inv, PlaceOK, AtWork
  <2> QED BY <2>1, <2>2, <2>3
          DEF Next, Main, Requeue, Teardown, WorkThrows, RequestStop, mainVars, Retrieve,
              CheckValidity, CheckDelay, Leave, CompareIds, BeginFetch, RefuseFetch,
              ContinueFetch, Fetching, EndSnapshot, EndReinit, RecordId, GiveUp, DoWork, Finish,
              AdvanceNumber, Exit, Storage!CheckValidity, Storage!CheckDelay
<1>2. ~changed
  BY <1>1 DEF Decide, Goto
<1> QED BY <1>2 DEF HardwareInv, DecideOK

(* The hardware is in the state whose session and id are recorded          *)
(* (worker-thread-reinit.tcc:177-234).                                     *)
THEOREM HardwareInvariant == Spec => []HardwareInv
<1>1. Inv /\ NumbersOK /\ HardwareInv /\ [Next]_vars => HardwareInv'
  BY HardwareSteps
<1> QED BY <1>1, HardwareInit, Invariant, NumbersInvariant, PTL DEF Spec

(* A package is not worked on in the state of another session, as long as  *)
(* no two sessions have an id in common: where a session that has          *)
(* announced data needs none, its own were the last to be applied          *)
(* (worker-thread-reinit.tcc:177-234).                                     *)
THEOREM StateIsOwn == Spec => NoForeignState
<1>1. Inv /\ HardwareInv /\ [Next]_vars =>
          [mpc = "decide" /\ mpc' = "run" /\ Registered(session) =>
               loaded[1] \in {session, NoSession}]_vars
  BY DecisionIsRight
<1> QED BY <1>1, Invariant, HardwareInvariant, PTL DEF Spec, NoForeignState

-----------------------------------------------------------------------------
(* Each package is worked on once. *)

Submitting == {"submit", "forward", "queued"}

(* Where the worker is after it has worked on its package *)
Worked == {"finish", "timeout", "recordTimeout"}

(* A package that has been worked on is not on its way any more, unless    *)
(* the worker still has it.                                                *)
IsOver(p) ==
    /\ p[2] <= calls[p[1]]
    /\ p[2] = calls[p[1]] /\ at[p[1]] \in Submitting => pkg = p[1] /\ mpc \in Worked

DoneType == Connections \X (Nat \ {0})

NumberType == Nat \union {-1}

OnceOK ==
    /\ done \in Seq(DoneType)
    /\ \A i \in DOMAIN done : IsOver(done[i]) /\ Number(done[i]) \in NumberType
    /\ \A i, j \in DOMAIN done : i < j => done[i] # done[j]

LEMMA SameDoneOver ==
    ASSUME OnceOK, done' = done, \A p \in DoneType : IsOver(p) => IsOver(p)'
    PROVE  OnceOK'
<1>1. \A i \in DOMAIN done : done[i] \in DoneType
  BY DEF OnceOK
<1> QED BY <1>1 DEF OnceOK, Number

LEMMA ClientKeepsOver ==
    ASSUME TypesOK, CallsMatch, NEW c \in Connections, Client(c), NEW p \in DoneType, IsOver(p)
    PROVE  IsOver(p)'
<1>1. UNCHANGED <<pkg, mpc>>
  BY ClientLeaves DEF mainVars
<1>2. p[1] \in Connections /\ p[2] \in Nat /\ calls[p[1]] \in Nat
  BY DEF DoneType, CallsMatch
<1>3. CASE MakeCall(c)
  <2>1. \A d \in Connections : d # c => at'[d] = at[d] /\ calls'[d] = calls[d]
    BY <1>3 DEF MakeCall, Storage!Call, Storage!Goto, TypesOK, CallsMatch
  <2>2. calls'[c] = calls[c] + 1
    BY <1>3 DEF MakeCall, CallsMatch
  <2> QED BY <1>1, <1>2, <2>1, <2>2 DEF IsOver
<1>4. CASE Serve(c) \/ ClientEnds(c)
  <2>1. CallsStay /\ UNCHANGED calls
    BY <1>4, HandlersLeaveCalls DEF Serve, ClientEnds
  <2> QED BY <1>1, <1>2, <2>1 DEF IsOver, CallsStay, Calling, Submitting
<1> QED BY <1>3, <1>4 DEF Client

LEMMA WorkerKeepsOver ==
    ASSUME TypesOK, PlaceOK, CallsMatch, WorkerStep, NEW p \in DoneType, IsOver(p)
    PROVE  IsOver(p)'
<1>1. CallsStay /\ UNCHANGED calls
  BY WorkerLeavesCalls, WorkerLeavesScripts
<1>2. p[1] \in Connections
  BY DEF DoneType
<1>3. CASE mpc \notin Worked
  BY <1>1, <1>2, <1>3 DEF IsOver, CallsStay, Calling, Submitting
<1>4. CASE mpc \in Worked /\ ~Finish
  <2>1. pkg' = pkg /\ mpc' \in Worked
    <3>1. CASE BeginFetch \/ RefuseFetch \/ ContinueFetch
      <4>1. mpc = "timeout"
        BY <1>4, <3>1 DEF BeginFetch, RefuseFetch, ContinueFetch, Fetching, Worked
      <4>2. mpc' \in {mpc, "finish"} /\ pkg' = pkg
        BY <3>1, <4>1
           DEF BeginFetch, RefuseFetch, ContinueFetch, NoData, Goto, storageVars,
               Storage!GetReinit, Storage!GetRequests, Storage!GetLocks, Storage!WaitEnds,
               Storage!GetAwake
      <4> QED BY <4>1, <4>2 DEF Worked
    <3>2. CASE EndReinit \/ RecordId \/ RequestStop
      BY <1>4, <3>2 DEF EndReinit, RecordId, RequestStop, Worked, Goto, Storage!UseEnds,
                        storageVars, mainVars
    <3>3. wat # "validity" /\ wat # "delay"
      BY <1>4 DEF Worked, PlaceOK, AtWork, Waiting, FetchesWithPackage
    <3> QED BY <1>4, <3>1, <3>2, <3>3
            DEF WorkerStep, Main, Worked, Retrieve, CheckValidity, CheckDelay, Leave, CompareIds,
                Decide, EndSnapshot, GiveUp, DoWork, AdvanceNumber, Exit, Teardown, WorkThrows,
                Storage!CheckValidity, Storage!CheckDelay
  <2> QED BY <1>1, <1>2, <2>1 DEF IsOver, CallsStay, Calling, Submitting
<1>5. CASE Finish
  <2>1. at'[pkg] = "idle" /\ pkg \in Connections
    BY <1>5 DEF Finish, Storage!Work, Storage!Return, Storage!Goto, TypesOK
  <2> QED BY <1>1, <1>2, <2>1 DEF IsOver, CallsStay, Calling, Submitting
<1> QED BY <1>3, <1>4, <1>5

LEMMA WorkedOnOnce ==
    ASSUME TypesOK, PlaceOK, CallsMatch, OnceOK, DoWork
    PROVE  OnceOK'
<1>1. /\ mpc = "run" /\ pkg \in Connections /\ at[pkg] = "queued" /\ mpc' \in Worked
      /\ UNCHANGED <<at, calls, pkg>>
  BY DEF DoWork, PlaceOK, TypesOK, AtWork, WithPackage, Worked, Goto, storageVars
<1>2. PICK new : new = <<pkg, calls[pkg]>>
  OBVIOUS
<1>3. /\ new \in DoneType /\ new[1] = pkg /\ new[2] = calls[pkg] /\ Number(new) \in NumberType
  <2>1. /\ calls[pkg] \in Nat \ {0} /\ Script[pkg][calls[pkg]].arg = arg[pkg]
        /\ arg[pkg] \in NumberType
    BY <1>1, Constants DEF CallsMatch, TypesOK, NumberType
  <2> QED BY <1>1, <1>2, <2>1 DEF DoneType, Number
<1>4. done' = Append(done, new) /\ done \in Seq(DoneType)
  BY <1>2 DEF DoWork, OnceOK
<1>5. /\ done' \in Seq(DoneType) /\ DOMAIN done' = 1 .. Len(done) + 1
      /\ \A i \in DOMAIN done' : done'[i] = IF i = Len(done) + 1 THEN new ELSE done[i]
      /\ DOMAIN done = 1 .. Len(done) /\ Len(done) \in Nat
  BY <1>3, <1>4
<1>6. \A i \in DOMAIN done : done[i] # new
  <2> SUFFICES ASSUME NEW i \in DOMAIN done, done[i] = new PROVE FALSE
    OBVIOUS
  <2>1. IsOver(new)
    BY DEF OnceOK
  <2> QED BY <1>1, <1>3, <2>1 DEF IsOver, Submitting, Worked
<1>7. IsOver(new)'
  BY <1>1, <1>3 DEF IsOver, CallsMatch
<1>8. \A p \in DoneType : IsOver(p) => IsOver(p)'
  BY <1>1 DEF IsOver, Worked
<1>9. ASSUME NEW i \in DOMAIN done'
      PROVE  IsOver(done[i])' /\ Number(done'[i]) \in NumberType
  <2>1. PICK p \in DoneType : p = done'[i]
    BY <1>5
  <2>2. IsOver(p)' /\ Number(p) \in NumberType
    <3>1. CASE i = Len(done) + 1
      BY <1>3, <1>5, <1>7, <2>1, <3>1
    <3>2. CASE i # Len(done) + 1
      <4>1. i \in DOMAIN done /\ p = done[i]
        BY <1>5, <2>1, <3>2
      <4> QED BY <1>8, <4>1 DEF OnceOK
    <3> QED BY <3>1, <3>2
  <2> QED BY <2>1, <2>2 DEF IsOver
<1>10. \A i, j \in DOMAIN done' : i < j => done'[i] # done'[j]
  BY <1>5, <1>6 DEF OnceOK
<1> QED BY <1>5, <1>9, <1>10 DEF OnceOK, Number

LEMMA OnceSteps == ASSUME TypesOK, PlaceOK, CallsMatch, OnceOK, [Next]_vars PROVE OnceOK'
<1>1. ASSUME NEW c \in Connections, Client(c) PROVE OnceOK'
  <2>1. done' = done
    BY <1>1, ClientLeaves DEF mainVars
  <2> QED BY <1>1, <2>1, ClientKeepsOver, SameDoneOver
<1>2. CASE WorkerStep
  <2>1. CASE DoWork
    BY <2>1, WorkedOnOnce
  <2>2. CASE ~DoWork
    <3>1. done' = done
      BY <1>2, <2>2
         DEF WorkerStep, Main, Retrieve, CheckValidity, CheckDelay, Leave, CompareIds, Decide,
             BeginFetch, RefuseFetch, ContinueFetch, EndSnapshot, EndReinit, RecordId, GiveUp,
             Finish, AdvanceNumber, Exit, Teardown, WorkThrows, RequestStop, mainVars
    <3> QED BY <1>2, <3>1, WorkerKeepsOver, SameDoneOver
  <2> QED BY <2>1, <2>2
<1>3. ASSUME UNCHANGED vars \/ \E c \in Connections : Requeue(c) PROVE OnceOK'
  BY <1>3, SameDoneOver DEF vars, Requeue, storageVars, mainVars, IsOver
<1> QED BY <1>1, <1>2, <1>3 DEF Next, WorkerStep

-----------------------------------------------------------------------------
(* Packages with a number are worked on in ascending order. *)

Entered == {"ensure", "leave", "compare", "decide", "reinit", "record", "run"}

(* Session s will have its number advanced for the package done last. *)
Advancing(s) ==
    \/ mpc \in Worked /\ SessionOf[pkg] = s /\ arg[pkg] # Storage!NoNumber
    \/ mpc = "next" /\ job = s

DoneIn(s) == {i \in DOMAIN done : SessionOf[done[i][1]] = s /\ Counted(done[i])}

(* What was worked on is below the number of the session. *)
DoneBelow(s) ==
    \A i \in DoneIn(s) :
        /\ Number(done[i]) <= entry[s].seq
        /\ ~Advancing(s) => Number(done[i]) < entry[s].seq

(* The worker has a package with a number that is not late. *)
Chosen(s) ==
    /\ mpc \in Entered \/ wat = "delay"
    /\ SessionOf[pkg] = s /\ arg[pkg] # Storage!NoNumber

(* It comes after what was worked on, and is not early once it is entered. *)
ChosenNext(s) ==
    Chosen(s) => /\ \A i \in DoneIn(s) : Number(done[i]) < arg[pkg]
                 /\ mpc # "check" => arg[pkg] <= entry[s].seq

Ascending(s) == \A i, j \in DoneIn(s) : i < j => Number(done[i]) < Number(done[j])

OrderOK == \A s \in Sessions \ setBack : DoneBelow(s) /\ ChosenNext(s) /\ Ascending(s)

LEMMA NumbersAreInt ==
    ASSUME TypesOK
    PROVE  /\ \A s \in Sessions : entry[s].seq \in Int
           /\ pkg # NoConnection => arg[pkg] \in (0 .. MaxNum) \union {Storage!NoNumber}
           /\ Storage!NoNumber = -1
BY DEF TypesOK, Proved!EntryType, Proved!Absent, Proved!NoNumber, Storage!NoNumber

(* A step that works on nothing *)
LEMMA SameDoneOrdered ==
    ASSUME TypesOK, TypesOK', OnceOK, NEW s \in Sessions, done' = done,
           entry[s].seq <= entry'[s].seq, DoneBelow(s), Ascending(s),
           Advancing(s) => Advancing(s)' \/ entry[s].seq < entry'[s].seq
    PROVE  DoneBelow(s)' /\ Ascending(s)' /\ DoneIn(s)' = DoneIn(s)
<1>1. DoneIn(s)' = DoneIn(s)
  BY DEF DoneIn, Counted, Number
<1>2. /\ entry[s].seq \in Int /\ entry'[s].seq \in Int
      /\ \A i \in DoneIn(s) : Number(done[i]) \in Int
  <2>1. entry[s].seq \in Int /\ entry'[s].seq \in Int
    BY DEF TypesOK, Proved!EntryType, Proved!Absent, Proved!NoNumber
  <2> QED BY <2>1 DEF OnceOK, DoneIn, NumberType
<1>3. \A i \in DoneIn(s) :
          /\ Number(done[i]) <= entry'[s].seq
          /\ ~(Advancing(s)') => Number(done[i]) < entry'[s].seq
  BY <1>2 DEF DoneBelow
<1>4. DoneBelow(s)'
  BY <1>1, <1>3 DEF DoneBelow, Number
<1> QED BY <1>1, <1>4 DEF Ascending, Number

(* A step that leaves the worker its package *)
LEMMA SameChosen ==
    ASSUME TypesOK, TypesOK', NEW s \in Sessions, done' = done, DoneIn(s)' = DoneIn(s),
           entry[s].seq <= entry'[s].seq, ChosenNext(s),
           Chosen(s)' => /\ Chosen(s) /\ arg'[pkg'] = arg[pkg] /\ arg[pkg] \in Int
                         /\ mpc' # "check" => mpc # "check"
    PROVE  ChosenNext(s)'
<1>1. entry[s].seq \in Int /\ entry'[s].seq \in Int
  BY DEF TypesOK, Proved!EntryType, Proved!Absent, Proved!NoNumber
<1> QED BY <1>1 DEF ChosenNext, Number

(* The clients leave the worker its package, and the worker keeps it while *)
(* it is about to work on it.                                              *)
LEMMA ClientKeepsOrder ==
    ASSUME TypesOK, TypesOK', PlaceOK, OnceOK, EntriesStay,
           NEW c \in Connections, Client(c), NEW s \in Sessions \ setBack',
           DoneBelow(s), ChosenNext(s), Ascending(s)
    PROVE  DoneBelow(s)' /\ ChosenNext(s)' /\ Ascending(s)'
<1>1. /\ UNCHANGED <<job, pkg, mpc, done>>
      /\ wat' = wat \/ (wat = "waiting" /\ wat' = "woken")
  BY ClientLeaves DEF mainVars
<1>2. entry[s].seq <= entry'[s].seq
  BY DEF EntriesStay, EntryStays
<1>3. pkg # NoConnection => arg'[pkg] = arg[pkg] /\ arg[pkg] \in Int
  <2>1. CASE MakeCall(c)
    <3>1. pkg # NoConnection => pkg # c
      BY <2>1 DEF MakeCall, Storage!Call, TypesOK
    <3>2. PICK x : arg' = [arg EXCEPT ![c] = x]
      BY <2>1 DEF MakeCall, Storage!Call
    <3> QED BY <3>1, <3>2, NumbersAreInt, Constants DEF TypesOK
  <2>2. CASE Serve(c) \/ ClientEnds(c)
    <3>1. CallsStay
      BY <2>2, HandlersLeaveCalls
    <3>2. pkg # NoConnection => pkg \in Connections /\ at'[pkg] = "queued"
      BY <1>1 DEF TypesOK
    <3> QED BY <3>1, <3>2, NumbersAreInt, Constants DEF CallsStay, Calling
  <2> QED BY <2>1, <2>2 DEF Client
<1>4. mpc \in Worked \union Entered \/ wat = "delay" => pkg # NoConnection
  BY Constants DEF PlaceOK, TypesOK, Worked, Entered, WithPackage, AtWork, FetchesWithPackage
<1>5. Advancing(s) => Advancing(s)'
  BY <1>1, <1>3, <1>4 DEF Advancing
<1>6. DoneBelow(s)' /\ Ascending(s)' /\ DoneIn(s)' = DoneIn(s)
  BY <1>1, <1>2, <1>5, SameDoneOrdered
<1>7. Chosen(s)' => Chosen(s) /\ arg'[pkg'] = arg[pkg] /\ arg[pkg] \in Int /\ mpc' = mpc
  BY <1>1, <1>3, <1>4 DEF Chosen
<1> QED BY <1>1, <1>2, <1>6, <1>7, SameChosen

(* The steps of the worker that leave it its package, or give it up        *)
Steady(s) ==
    /\ done' = done
    /\ Advancing(s) => Advancing(s)'
    /\ Chosen(s)' => Chosen(s) /\ UNCHANGED <<pkg, arg>> /\ (mpc' # "check" => mpc # "check")

LEMMA SteadyKeepsOrder ==
    ASSUME TypesOK, TypesOK', PlaceOK, OnceOK, EntriesStay, NEW s \in Sessions \ setBack',
           Steady(s), DoneBelow(s), ChosenNext(s), Ascending(s)
    PROVE  DoneBelow(s)' /\ ChosenNext(s)' /\ Ascending(s)'
<1>1. entry[s].seq <= entry'[s].seq
  BY DEF EntriesStay, EntryStays
<1>2. DoneBelow(s)' /\ Ascending(s)' /\ DoneIn(s)' = DoneIn(s)
  BY <1>1, SameDoneOrdered DEF Steady
<1>3. Chosen(s) => arg[pkg] \in Int
  <2>1. Chosen(s) => pkg # NoConnection
    BY Constants DEF Chosen, Entered, PlaceOK, TypesOK, WithPackage, AtWork, FetchesWithPackage
  <2> QED BY <2>1, NumbersAreInt, Constants
<1> QED BY <1>1, <1>2, <1>3, SameChosen DEF Steady

LEMMA FetchIsSteady ==
    ASSUME PlaceOK, BeginFetch \/ RefuseFetch \/ ContinueFetch, NEW s
    PROVE  Steady(s)
<1>1. /\ Fetching /\ UNCHANGED <<done, pkg>> /\ wat # "next" /\ wat' # "delay"
      /\ \/ mpc' = mpc
         \/ mpc # "timeout" /\ mpc' \in {"loop", "requeue"}
         \/ mpc = "timeout" /\ mpc' = "finish"
  BY DEF BeginFetch, RefuseFetch, ContinueFetch, Fetching, NoData, Goto, storageVars,
         Storage!GetReinit, Storage!MayAsk, Storage!GetRequests, Storage!GetLocks,
         Storage!WaitEnds, Storage!GetAwake, Storage!Look, Storage!Home
<1>2. arg' = arg
  BY DEF BeginFetch, RefuseFetch, ContinueFetch, storageVars, Storage!GetReinit,
         Storage!GetRequests, Storage!GetLocks, Storage!WaitEnds, Storage!GetAwake
<1> QED BY <1>1, <1>2 DEF Steady, Advancing, Chosen, Worked, Entered, Fetching

LEMMA OthersAreSteady ==
    ASSUME TypesOK, PlaceOK, NEW s,
           \/ Leave \/ CompareIds \/ Decide \/ EndSnapshot \/ EndReinit \/ RecordId \/ GiveUp
           \/ Exit \/ Teardown \/ WorkThrows \/ RequestStop
    PROVE  Steady(s)
<1> USE DEF Steady, Advancing, Chosen, Worked, Entered, Goto
<1>1. CASE Leave \/ CompareIds \/ Decide
  <2>1. /\ mpc \in {"ensure", "compare", "decide"} /\ mpc' \notin {"check"}
        /\ UNCHANGED <<wat, pkg, arg, done>>
    BY <1>1 DEF Leave, Enter, CompareIds, Decide, storageVars, Storage!RequestReinit,
                Storage!workerVars
  <2> QED BY <2>1
<1>2. CASE EndSnapshot \/ EndReinit \/ RecordId
  <2>1. /\ UNCHANGED <<pkg, arg, done>> /\ wat' # "delay"
        /\ \/ mpc = "torn" /\ mpc' = "loop"
           \/ mpc = "leave" /\ mpc' = "compare"
           \/ mpc = "reinit" /\ mpc' = "record"
           \/ mpc = "record" /\ mpc' = "run"
           \/ mpc = "timeout" /\ mpc' = "recordTimeout"
           \/ mpc = "recordTimeout" /\ mpc' = "finish"
    BY <1>2 DEF EndSnapshot, EndReinit, RecordId, Enter, storageVars, Storage!UseEnds,
                Storage!Home, PlaceOK, AtWork
  <2> QED BY <2>1
<1>3. CASE GiveUp \/ Exit \/ WorkThrows
  <2>1. /\ mpc \in {"requeue", "loop", "run"} /\ mpc' \in {"loop", "over", "crashed"}
        /\ done' = done /\ wat' # "delay"
    BY <1>3 DEF GiveUp, Exit, WorkThrows, storageVars, Storage!GiveUp, Storage!Drop, PlaceOK,
                AtWork
  <2> QED BY <2>1
<1>4. CASE Teardown
  <2>1. mpc = "loop" /\ mpc' \in {"loop", "torn"} /\ done' = done /\ wat' # "delay"
    BY <1>4 DEF Teardown, PlaceOK, storageVars, Storage!RequestReinit, Storage!workerVars
  <2> QED BY <2>1
<1>5. CASE RequestStop
  BY <1>5 DEF RequestStop, storageVars, mainVars
<1> QED BY <1>1, <1>2, <1>3, <1>4, <1>5

LEMMA RetrieveAndFinishAreSteady ==
    ASSUME TypesOK, PlaceOK, NEW s, Finish \/ \E c \in Connections : Retrieve(c)
    PROVE  Steady(s)
<1> USE DEF Steady, Advancing, Chosen, Worked, Entered, Goto
<1>1. ASSUME NEW c \in Connections, Retrieve(c) PROVE Steady(s)
  <2>1. mpc = "loop" /\ done' = done /\ wat' \in {"idle", "validity", "work"}
    BY <1>1 DEF Retrieve, Storage!Retrieve
  <2>2. mpc' = IF wat' = "validity" THEN "check" ELSE IF wat' = "work" THEN "ensure" ELSE "loop"
    BY <1>1, <2>1 DEF Retrieve
  <2>3. wat' = "work" => arg'[pkg'] = Storage!NoNumber
    BY <1>1 DEF Retrieve, Storage!Retrieve, PlaceOK
  <2> QED BY <2>1, <2>2, <2>3
<1>2. CASE Finish
  <2>1. /\ mpc = "finish" /\ done' = done
        /\ mpc' = IF wat' = "next" THEN "next" ELSE "loop"
        /\ IF arg[pkg] = Storage!NoNumber THEN wat' = "idle"
                                         ELSE wat' = "next" /\ job' = SessionOf[pkg]
    BY <1>2 DEF Finish, Storage!Work
  <2> QED BY <2>1
<1> QED BY <1>1, <1>2

(* The package is not late. *)
LEMMA ValidityKeepsOrder ==
    ASSUME TypesOK, TypesOK', PlaceOK, OnceOK, NumbersOK, EntriesStay, CheckValidity,
           NEW s \in Sessions \ setBack', DoneBelow(s), ChosenNext(s), Ascending(s)
    PROVE  DoneBelow(s)' /\ ChosenNext(s)' /\ Ascending(s)'
<1>1. /\ wat = "validity" /\ mpc = "check" /\ pkg \in Connections /\ at[pkg] = "queued"
      /\ UNCHANGED <<entry, done, setBack>>
  BY DEF CheckValidity, Storage!CheckValidity, PlaceOK, TypesOK, AtWork, FetchesWithPackage,
         Waiting, WithPackage
<1>2. ~Advancing(s)
  BY <1>1 DEF Advancing, Worked
<1>3. DoneBelow(s)' /\ Ascending(s)' /\ DoneIn(s)' = DoneIn(s)
  <2>1. entry[s].seq <= entry'[s].seq
    BY DEF EntriesStay, EntryStays
  <2> QED BY <1>1, <1>2, <2>1, SameDoneOrdered
<1>4. /\ mpc' \in {"loop", "check"}
      /\ wat' = "delay" => /\ UNCHANGED <<pkg, arg>>
                           /\ ~Storage!Less(arg[pkg], entry[SessionOf[pkg]].seq)
  BY DEF CheckValidity, Storage!CheckValidity, Storage!Drop, Storage!Ent, Goto
<1>5. ASSUME Chosen(s)' PROVE mpc' = "check" /\ \A i \in DoneIn(s) : Number(done[i]) < arg'[pkg']
  <2>1. wat' = "delay" /\ mpc' = "check"
    <3>1. wat' = "delay"
      BY <1>4, <1>5 DEF Chosen, Entered
    <3> QED BY <1>1, <1>4, <3>1, Constants DEF CheckValidity, Goto
  <2>2. /\ UNCHANGED <<pkg, arg>> /\ SessionOf[pkg] = s /\ arg[pkg] # Storage!NoNumber
        /\ ~Storage!Less(arg[pkg], entry[s].seq)
    BY <1>4, <1>5, <2>1 DEF Chosen
  <2>3. entry[s].seq \in Nat /\ arg[pkg] \in Int
    BY <1>1, <2>2, NumbersAreInt, Constants DEF NumbersOK
  <2>4. entry[s].seq <= arg[pkg]
    BY <2>2, <2>3 DEF Storage!Less, Storage!NoNumber
  <2>5. \A i \in DoneIn(s) : Number(done[i]) \in Int
    BY DEF OnceOK, DoneIn, NumberType
  <2> QED BY <1>2, <2>1, <2>2, <2>3, <2>4, <2>5 DEF DoneBelow
<1>6. ChosenNext(s)'
  BY <1>1, <1>3, <1>5 DEF ChosenNext, Number
<1> QED BY <1>3, <1>6

(* Nor is it early. *)
LEMMA DelayKeepsOrder ==
    ASSUME TypesOK, TypesOK', PlaceOK, OnceOK, NumbersOK, EntriesStay, CheckDelay,
           NEW s \in Sessions \ setBack', DoneBelow(s), ChosenNext(s), Ascending(s)
    PROVE  DoneBelow(s)' /\ ChosenNext(s)' /\ Ascending(s)'
<1>1. /\ wat = "delay" /\ mpc = "check" /\ pkg \in Connections /\ at[pkg] = "queued"
      /\ UNCHANGED <<entry, arg, done, setBack>>
  BY DEF CheckDelay, Storage!CheckDelay, PlaceOK, TypesOK, AtWork, FetchesWithPackage,
         Waiting, WithPackage
<1>2. ~Advancing(s)
  BY <1>1 DEF Advancing, Worked
<1>3. DoneBelow(s)' /\ Ascending(s)' /\ DoneIn(s)' = DoneIn(s)
  <2>1. entry[s].seq <= entry'[s].seq
    BY DEF EntriesStay, EntryStays
  <2> QED BY <1>1, <1>2, <2>1, SameDoneOrdered
<1>4. \/ wat' = "idle" /\ mpc' = "loop"
      \/ wat' = "threw" /\ mpc' = "check"
      \/ /\ wat' = "work" /\ mpc' = "ensure" /\ pkg' = pkg
         /\ ~Storage!Less(entry[SessionOf[pkg]].seq, arg[pkg])
  BY DEF CheckDelay, Storage!CheckDelay, Storage!Drop, Storage!Ent, Goto
<1>5. ASSUME Chosen(s)'
      PROVE  pkg' = pkg /\ Chosen(s) /\ arg[pkg] <= entry[s].seq
  <2>1. /\ pkg' = pkg /\ SessionOf[pkg] = s /\ arg[pkg] # Storage!NoNumber
        /\ ~Storage!Less(entry[s].seq, arg[pkg])
    BY <1>1, <1>4, <1>5 DEF Chosen, Entered
  <2>2. entry[s].seq \in Nat /\ arg[pkg] \in Int
    BY <1>1, <2>1, NumbersAreInt, Constants DEF NumbersOK
  <2> QED BY <1>1, <2>1, <2>2 DEF Chosen, Storage!Less, Storage!NoNumber
<1>6. ChosenNext(s)'
  BY <1>1, <1>3, <1>5 DEF ChosenNext, Number
<1> QED BY <1>3, <1>6

LEMMA DoWorkKeepsOrder ==
    ASSUME TypesOK, TypesOK', PlaceOK, CallsMatch, OnceOK, DoWork,
           NEW s \in Sessions \ setBack', DoneBelow(s), ChosenNext(s), Ascending(s)
    PROVE  DoneBelow(s)' /\ ChosenNext(s)' /\ Ascending(s)'
<1>1. /\ mpc = "run" /\ mpc' \in {"finish", "timeout"} /\ wat' = "work"
      /\ pkg \in Connections /\ at[pkg] = "queued"
      /\ UNCHANGED <<entry, arg, pkg, job, setBack>>
  BY DEF DoWork, PlaceOK, TypesOK, AtWork, WithPackage, Goto, storageVars
<1>2. PICK new : new = <<pkg, calls[pkg]>>
  OBVIOUS
<1>3. new[1] = pkg /\ Number(new) = arg[pkg] /\ new \in DoneType
  BY <1>1, <1>2, Constants DEF CallsMatch, Number, DoneType
<1>4. /\ DOMAIN done = 1 .. Len(done) /\ Len(done) \in Nat
      /\ DOMAIN done' = 1 .. Len(done) + 1
      /\ \A i \in DOMAIN done : done'[i] = done[i]
      /\ done'[Len(done) + 1] = new
  <2>1. done' = Append(done, new) /\ done \in Seq(DoneType)
    BY <1>2 DEF DoWork, OnceOK
  <2> QED BY <1>3, <2>1
<1>5. ~Chosen(s)' /\ ~Advancing(s)
  BY <1>1 DEF Chosen, Entered, Advancing, Worked
<1>6. ChosenNext(s)'
  BY <1>5 DEF ChosenNext
<1>7. /\ entry[s].seq \in Int
      /\ \A i \in DoneIn(s) : /\ i \in DOMAIN done /\ Number(done[i]) \in Int
                              /\ Number(done[i]) < entry[s].seq
  <2>1. \A i \in DoneIn(s) : i \in DOMAIN done /\ Number(done[i]) \in Int
    BY DEF OnceOK, DoneIn, NumberType
  <2> QED BY <1>5, <2>1, NumbersAreInt DEF DoneBelow
<1>8. CASE SessionOf[pkg] = s /\ arg[pkg] # Storage!NoNumber
  <2>1. Chosen(s) /\ Advancing(s)'
    BY <1>1, <1>8 DEF Chosen, Entered, Advancing, Worked
  <2>2. /\ \A i \in DoneIn(s) : Number(done[i]) < arg[pkg]
        /\ arg[pkg] <= entry[s].seq /\ arg[pkg] \in Int
    BY <1>1, <2>1, NumbersAreInt, Constants DEF ChosenNext
  <2>3. \A i \in DoneIn(s)' :
            \/ i = Len(done) + 1 /\ Number(done'[i]) = arg[pkg]
            \/ i \in DoneIn(s) /\ done'[i] = done[i]
    BY <1>3, <1>4 DEF DoneIn, Counted, Number
  <2>4. \A i \in DoneIn(s)' : Number(done'[i]) <= entry[s].seq
    BY <1>7, <2>2, <2>3
  <2>5. DoneBelow(s)'
    BY <1>1, <2>1, <2>4 DEF DoneBelow, Number
  <2>6. ASSUME NEW i \in DoneIn(s)', NEW j \in DoneIn(s)', i < j
        PROVE  Number(done'[i]) < Number(done'[j])
    <3>1. i \in DoneIn(s) /\ done'[i] = done[i]
      BY <1>4, <1>7, <2>3, <2>6
    <3> QED BY <2>2, <2>3, <2>6, <3>1 DEF Ascending
  <2>7. Ascending(s)'
    BY <2>6 DEF Ascending, Number
  <2> QED BY <1>6, <2>5, <2>7
<1>9. CASE ~(SessionOf[pkg] = s /\ arg[pkg] # Storage!NoNumber)
  <2>1. DoneIn(s)' = DoneIn(s) /\ \A i \in DoneIn(s) : done'[i] = done[i]
    <3>1. Len(done) + 1 \notin DoneIn(s)'
      <4>1. ~(SessionOf[done'[Len(done) + 1][1]] = s
              /\ Number(done'[Len(done) + 1]) # Storage!NoNumber)
        BY <1>3, <1>4, <1>9
      <4> QED BY <4>1 DEF DoneIn, Counted, Number
    <3>2. \A i \in DOMAIN done : i \in DoneIn(s)' <=> i \in DoneIn(s)
      BY <1>4 DEF DoneIn, Counted, Number
    <3>3. DoneIn(s) \subseteq DOMAIN done /\ DoneIn(s)' \subseteq DOMAIN done'
      BY DEF DoneIn
    <3>4. \A i \in DOMAIN done' : i # Len(done) + 1 => i \in DOMAIN done
      BY <1>4
    <3>5. \A i : i \in DoneIn(s)' <=> i \in DoneIn(s)
      BY <3>1, <3>2, <3>3, <3>4
    <3>6. \A i \in DoneIn(s) : done'[i] = done[i]
      BY <1>4, <3>3
    <3>7. DoneIn(s)' = DoneIn(s)
      BY <3>5 DEF DoneIn
    <3> QED BY <3>6, <3>7
  <2>2. DoneBelow(s)'
    BY <1>1, <1>7, <2>1 DEF DoneBelow, Number
  <2>3. Ascending(s)'
    BY <2>1 DEF Ascending, Number
  <2> QED BY <1>6, <2>2, <2>3
<1> QED BY <1>8, <1>9

LEMMA AdvanceKeepsOrder ==
    ASSUME TypesOK, TypesOK', PlaceOK, OnceOK, NumbersOK, EntriesStay, AdvanceNumber,
           NEW s \in Sessions \ setBack', DoneBelow(s), Ascending(s)
    PROVE  DoneBelow(s)' /\ ChosenNext(s)' /\ Ascending(s)'
<1>1. mpc = "next" /\ mpc' = "loop" /\ wat = "next" /\ wat' = "idle" /\ done' = done
  BY DEF AdvanceNumber, Storage!AdvanceNumber, Goto
<1>2. ChosenNext(s)'
  BY <1>1 DEF ChosenNext, Chosen, Entered
<1>3. entry[s].seq <= entry'[s].seq
  BY <1>1 DEF EntriesStay, EntryStays
<1>4. Advancing(s) => entry[s].seq < entry'[s].seq
  <2>1. SUFFICES ASSUME job = s PROVE entry[s].seq < entry'[s].seq
    BY <1>1 DEF Advancing, Worked
  <2>2. entry[s] \in Proved!EntryType /\ entry[s].seq \in Nat
    BY <1>1, <2>1 DEF NumbersOK, TypesOK
  <2>3. Storage!Advanced(entry[s]).seq = entry[s].seq + 1
    BY <2>2, EntryFields
  <2>4. entry'[s] = Storage!Advanced(entry[s])
    BY <2>1 DEF AdvanceNumber, Storage!AdvanceNumber, Storage!SetEntry, TypesOK
  <2> QED BY <2>2, <2>3, <2>4
<1> QED BY <1>1, <1>2, <1>3, <1>4, SameDoneOrdered

LEMMA WorkerKeepsOrder ==
    ASSUME TypesOK, TypesOK', PlaceOK, CallsMatch, OnceOK, NumbersOK, WorkerStep,
           NEW s \in Sessions \ setBack', DoneBelow(s), ChosenNext(s), Ascending(s)
    PROVE  DoneBelow(s)' /\ ChosenNext(s)' /\ Ascending(s)'
<1>1. EntriesStay
  BY WorkerKeepsEntries
<1>2. CASE Steady(s)
  BY <1>1, <1>2, SteadyKeepsOrder
<1>3. CASE CheckValidity \/ CheckDelay \/ DoWork \/ AdvanceNumber
  BY <1>1, <1>3, ValidityKeepsOrder, DelayKeepsOrder, DoWorkKeepsOrder, AdvanceKeepsOrder
<1> QED BY <1>2, <1>3, FetchIsSteady, OthersAreSteady, RetrieveAndFinishAreSteady
        DEF WorkerStep, Main

OrderInv == OnceOK /\ OrderOK

LEMMA OrderSteps == ASSUME Inv, NumbersOK, OrderInv, [Next]_vars PROVE OrderInv'
<1>1. TypesOK /\ TypesOK' /\ PlaceOK /\ CallsMatch /\ OnceOK /\ OrderOK
  BY StepUsesStorage, StorageKeeps DEF Inv, OrderInv
<1>2. OnceOK'
  BY <1>1, OnceSteps
<1>3. setBack \subseteq setBack'
  <2>1. ASSUME NEW c \in Connections, Client(c) PROVE setBack \subseteq setBack'
    BY <2>1 DEF Client, MakeCall, ClientEnds, Serve
  <2> QED BY <2>1, WorkerLeavesScripts DEF Next, WorkerStep, Requeue, vars
<1>4. ASSUME NEW s \in Sessions \ setBack'
      PROVE  DoneBelow(s)' /\ ChosenNext(s)' /\ Ascending(s)'
  <2>1. DoneBelow(s) /\ ChosenNext(s) /\ Ascending(s)
    BY <1>1, <1>3 DEF OrderOK
  <2>2. ASSUME NEW c \in Connections, Client(c)
        PROVE  DoneBelow(s)' /\ ChosenNext(s)' /\ Ascending(s)'
    <3>1. EntriesStay
      BY <1>1, <2>2, CallsKeepEntries, ServeKeepsEntries DEF Client
    <3> QED BY <1>1, <2>1, <2>2, <3>1, ClientKeepsOrder
  <2>3. CASE WorkerStep
    BY <1>1, <2>1, <2>3, WorkerKeepsOrder
  <2>4. ASSUME UNCHANGED vars \/ \E c \in Connections : Requeue(c)
        PROVE  DoneBelow(s)' /\ ChosenNext(s)' /\ Ascending(s)'
    BY <2>1, <2>4
       DEF vars, Requeue, storageVars, mainVars, DoneBelow, ChosenNext, Ascending, DoneIn,
           Advancing, Chosen, Counted, Number
  <2> QED BY <2>2, <2>3, <2>4 DEF Next, WorkerStep
<1> QED BY <1>2, <1>4 DEF OrderInv, OrderOK

LEMMA OrderInit == Init => OrderInv
BY DEF Init, OrderInv, OnceOK, OrderOK, DoneBelow, ChosenNext, Ascending, DoneIn, Chosen, Entered,
       Storage!Init

LEMMA OrderSuffices == OrderInv => InOrderOnce
<1> SUFFICES ASSUME OrderInv, NEW i \in DOMAIN done, NEW j \in DOMAIN done, i < j
             PROVE  /\ done[i] # done[j]
                    /\ /\ SessionOf[done[i][1]] = SessionOf[done[j][1]]
                       /\ Counted(done[i]) /\ Counted(done[j])
                       /\ SessionOf[done[i][1]] \notin setBack
                       => Number(done[i]) < Number(done[j])
  BY DEF InOrderOnce
<1>1. done[i] # done[j]
  BY DEF OrderInv, OnceOK
<1>2. done[i] \in DoneType
  BY DEF OrderInv, OnceOK
<1>3. SessionOf[done[i][1]] \in Sessions
  BY <1>2, Constants DEF DoneType
<1> QED BY <1>1, <1>3 DEF OrderInv, OrderOK, Ascending, DoneIn

(* Each package is worked on once, and those of a session that have a      *)
(* number in ascending order (round-robin-reinit-scheduler.h:180-199),     *)
(* unless a fast-forward has set the session's number back                 *)
(* (session-storage.tcc:358-367): whatever was worked on is below the      *)
(* session's number, and what the worker takes is at it.                   *)
THEOREM OrderIsKept == Spec => []InOrderOnce
<1>1. Inv /\ NumbersOK /\ OrderInv /\ [Next]_vars => OrderInv'
  BY OrderSteps
<1> QED BY <1>1, OrderInit, OrderSuffices, Invariant, NumbersInvariant, PTL DEF Spec
=============================================================================
