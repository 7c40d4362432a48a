----------------------- MODULE SessionStorage_proofs -----------------------
(***************************************************************************)
(* Proofs about SessionStorage, for any number of sessions, connections    *)
(* and ids, and any bound on the numbers.                                  *)
(***************************************************************************)
EXTENDS SessionStorage, FiniteSetTheorems, TLAPS

(* What an entry is at any time, but for its reference count *)
EntryOK(e) ==
    /\ e \in EntryType
    /\ ~e.known => IsForgotten(e)
    /\ e.data # NoId => e.data = e.stored /\ IsUpToDate(e)

(* A call that is between two regions has touched its session, so that the *)
(* cleanup passes over it.                                                 *)
CallsAreKnown ==
    \A c \in Connections : at[c] \in Between => Ent(c).known /\ Ent(c).age = 0

EntriesOK == entry \in [Sessions -> EntryType] /\ \A s \in Sessions : EntryOK(entry[s])

CallsOK ==
    /\ at \in [Connections -> Labels]
    /\ arg \in [Connections -> ReinitIds \union Numbers \union {NoNumber, NoId}]
    /\ \A c \in Connections :
           /\ at[c] \in {"notify", "pending", "upload"} => arg[c] \in ReinitIds
           /\ at[c] \in {"submit", "forward", "queued"} => arg[c] \in Numbers \union {NoNumber}

WorkerOK ==
    /\ wat \in {"idle", "request", "relock", "waiting", "woken", "using", "validity",
                "delay", "work", "next", "threw"}
    /\ job \in IF wat \in {"request", "relock", "waiting", "woken", "using", "next"}
                 THEN Sessions ELSE {NoSession}
    /\ forever \in BOOLEAN
    /\ wat \in {"validity", "delay", "work"} => pkg # NoConnection
    /\ wat \in {"idle", "next"} => pkg = NoConnection
    /\ pkg # NoConnection => pkg \in Connections /\ at[pkg] = "queued"

(* The inductive invariant; its first four parts are TypeOK and            *)
(* DataBelongToId.                                                         *)
IInv ==
    /\ EntriesOK /\ CallsOK /\ WorkerOK /\ expired \subseteq Sessions
    /\ CallsAreKnown
    /\ OpenCallsAreDeferred
    /\ NoMissedUpload

-----------------------------------------------------------------------------
(* What the operators on entries preserve *)

LEMMA UnknownOK == EntryOK(Unknown)
BY StorageAssumption DEF EntryOK, EntryType, IsForgotten, Unknown, Absent, NoNumber

LEMMA TouchedOK ==
    ASSUME NEW e, EntryOK(e), e.known, NEW n \in Int,
           NEW r, r = [e EXCEPT !.refcount = n, !.age = 0]
    PROVE  /\ EntryOK(r) /\ r.known /\ r.age = 0 /\ r.deferred = e.deferred
           /\ IsUpToDate(r) <=> IsUpToDate(e)
<1> DEFINE counted == [e EXCEPT !.refcount = n]
<1>1. r \in EntryType
  <2>1. counted \in EntryType
    BY DEF EntryOK, EntryType
  <2> HIDE DEF counted
  <2>2. [counted EXCEPT !.age = 0] \in EntryType
    BY <2>1 DEF EntryType
  <2> QED BY <2>2 DEF counted
<1>2. r.known /\ r.age = 0
  BY DEF EntryOK, EntryType
<1>3. /\ r.notified = e.notified /\ r.pending = e.pending /\ r.stored = e.stored
      /\ r.data = e.data /\ r.deferred = e.deferred
  BY DEF EntryOK, EntryType
<1> QED BY <1>1, <1>2, <1>3 DEF EntryOK, IsUpToDate

LEMMA RegisterNewOK ==
    ASSUME NEW e, EntryOK(e), ~e.known,
           NEW r, r = RegisterNew(e)
    PROVE  /\ EntryOK(r) /\ r.known /\ r.age = 0 /\ r.deferred = e.deferred
           /\ ~IsUpToDate(r) /\ ~IsUpToDate(e)
<1> DEFINE n == IF e.seq = Absent THEN 0 ELSE e.seq
<1>0. r = [e EXCEPT !.known = TRUE, !.refcount = 1, !.age = 0, !.seq = n]
  BY DEF RegisterNew
<1>1. e \in EntryType /\ e.notified = NoId /\ e.data = NoId
  BY DEF EntryOK, EntryType, IsForgotten, IsUpToDate
<1>2. n \in Nat \union {Absent, NoNumber}
  BY <1>1 DEF EntryType
<1> HIDE DEF n
<1>3. r \in EntryType
  <2> DEFINE known == [e EXCEPT !.known = TRUE]
             counted == [known EXCEPT !.refcount = 1]
             fresh == [counted EXCEPT !.age = 0]
  <2>1. known \in EntryType
    BY <1>1 DEF EntryType
  <2> HIDE DEF known
  <2>2. counted \in EntryType
    BY <2>1 DEF EntryType
  <2> HIDE DEF counted
  <2>3. fresh \in EntryType
    BY <2>2 DEF EntryType
  <2> HIDE DEF fresh
  <2>4. [fresh EXCEPT !.seq = n] \in EntryType
    BY <2>3, <1>2 DEF EntryType
  <2> QED BY <2>4, <1>0 DEF fresh, counted, known
<1>4. /\ r.known /\ r.age = 0 /\ r.deferred = e.deferred
      /\ r.notified = NoId /\ r.data = NoId
  BY <1>0, <1>1 DEF EntryType
<1> QED BY <1>1, <1>3, <1>4 DEF EntryOK, IsUpToDate

LEMMA RegisteredOK ==
    ASSUME NEW e, EntryOK(e), NEW tracked \in BOOLEAN,
           NEW r, r = EnsureRegistered(e, tracked)
    PROVE  /\ EntryOK(r) /\ r.known /\ r.age = 0 /\ r.deferred = e.deferred
           /\ IsUpToDate(r) <=> IsUpToDate(e)
<1>1. CASE e.known
  <2> DEFINE n == IF tracked THEN e.refcount ELSE e.refcount + 1
  <2>1. n \in Int
    BY DEF EntryOK, EntryType
  <2>2. r = [e EXCEPT !.refcount = n, !.age = 0]
    BY <1>1 DEF EnsureRegistered
  <2> HIDE DEF n
  <2> QED BY <1>1, <2>1, <2>2, TouchedOK
<1>2. CASE ~e.known
  <2>1. r = RegisterNew(e)
    BY <1>2 DEF EnsureRegistered
  <2> QED BY <1>2, <2>1, RegisterNewOK
<1> QED BY <1>1, <1>2

LEMMA UnreferenceOK ==
    ASSUME NEW e, EntryOK(e),
           NEW r, r = Unreference(e)
    PROVE  /\ EntryOK(r) /\ r.known = e.known /\ r.deferred = e.deferred
           /\ e.known => r.age = 0
           /\ IsUpToDate(r) <=> IsUpToDate(e)
<1>0. e.known \in BOOLEAN
  BY DEF EntryOK, EntryType
<1>1. CASE e.known
  <2> DEFINE n == e.refcount - 1
  <2>1. n \in Int
    BY DEF EntryOK, EntryType
  <2>2. r = [e EXCEPT !.refcount = n, !.age = 0]
    BY <1>1 DEF Unreference
  <2> HIDE DEF n
  <2>3. /\ EntryOK(r) /\ r.known /\ r.age = 0 /\ r.deferred = e.deferred
        /\ IsUpToDate(r) <=> IsUpToDate(e)
    BY <1>1, <2>1, <2>2, TouchedOK
  <2>4. r.known = e.known
    BY <1>1, <2>2 DEF EntryOK, EntryType
  <2> QED BY <2>3, <2>4
<1>2. CASE ~e.known
  BY <1>2 DEF Unreference
<1> QED BY <1>1, <1>2

LEMMA NotifiedOK ==
    ASSUME NEW e, EntryOK(e), e.known, NEW id \in ReinitIds,
           NEW r, r = Notified(e, id)
    PROVE  /\ EntryOK(r) /\ r.known /\ r.age = e.age /\ r.deferred = e.deferred
           /\ IsUpToDate(r) => IsUpToDate(e)
BY StorageAssumption DEF EntryOK, EntryType, IsForgotten, Notified, IsUpToDate, Absent, NoNumber

LEMMA PendedOK ==
    ASSUME NEW e, EntryOK(e), e.known, e.notified \in ReinitIds, NEW c \in Connections,
           NEW r, r = Pended(e, e.notified, c)
    PROVE  /\ EntryOK(r) /\ r.known /\ r.age = e.age /\ r.deferred = c
           /\ IsUpToDate(r) => IsUpToDate(e)
BY StorageAssumption DEF EntryOK, EntryType, IsForgotten, Pended, IsUpToDate, Absent, NoNumber

LEMMA StoredOK ==
    ASSUME NEW e, EntryOK(e), e.known, NEW id \in ReinitIds,
           NEW r, r = Stored(e, id, id)
    PROVE  EntryOK(r) /\ r.known /\ r.age = e.age /\ r.deferred = e.deferred
BY StorageAssumption DEF EntryOK, EntryType, IsForgotten, Stored, IsExpected, IsUpToDate, Absent, NoNumber

LEMMA AnsweredOK ==
    ASSUME NEW e, EntryOK(e),
           NEW r, r = Answered(e)
    PROVE  /\ EntryOK(r) /\ r.known = e.known /\ r.age = e.age
           /\ r.deferred = NoConnection
           /\ IsUpToDate(r) <=> IsUpToDate(e)
BY DEF EntryOK, EntryType, IsForgotten, Answered, IsUpToDate, Absent, NoNumber

LEMMA ForceOK ==
    ASSUME NEW e, EntryOK(e), NEW b \in BOOLEAN, e.known \/ ~b,
           NEW r, r = [e EXCEPT !.force = b]
    PROVE  /\ EntryOK(r) /\ r.known = e.known /\ r.age = e.age
           /\ r.deferred = e.deferred
           /\ IsUpToDate(r) <=> IsUpToDate(e)
BY DEF EntryOK, EntryType, IsForgotten, IsUpToDate, Absent, NoNumber

LEMMA ForwardOK ==
    ASSUME NEW e, EntryOK(e), e.known, NEW n \in Numbers \union {NoNumber},
           NEW r, r = [e EXCEPT !.seq = n]
    PROVE  /\ EntryOK(r) /\ r.known /\ r.age = e.age /\ r.deferred = e.deferred
           /\ IsUpToDate(r) <=> IsUpToDate(e)
BY StorageAssumption DEF EntryOK, EntryType, IsForgotten, IsUpToDate, Absent, NoNumber, Numbers

LEMMA AdvancedOK ==
    ASSUME NEW e, EntryOK(e),
           NEW r, r = Advanced(e)
    PROVE  /\ EntryOK(r) /\ r.known = e.known /\ r.age = e.age
           /\ r.deferred = e.deferred
           /\ IsUpToDate(r) <=> IsUpToDate(e)
BY DEF EntryOK, EntryType, IsForgotten, Advanced, IsUpToDate, Absent, NoNumber

LEMMA OlderOK ==
    ASSUME NEW e, EntryOK(e), e.known, e.age < 2,
           NEW r, r = [e EXCEPT !.age = @ + 1]
    PROVE  /\ EntryOK(r) /\ r.known /\ r.deferred = e.deferred
           /\ IsUpToDate(r) <=> IsUpToDate(e)
BY DEF EntryOK, EntryType, IsForgotten, IsUpToDate, Absent, NoNumber

-----------------------------------------------------------------------------
(* What a step does to the entries *)

LEMMA SessionsOfConnections == \A c \in Connections : SessionOf[c] \in Sessions
BY StorageAssumption

LEMMA EntrySet ==
    ASSUME EntriesOK, NEW s \in Sessions, NEW e, EntryOK(e), SetEntry(s, e)
    PROVE  /\ EntriesOK'
           /\ entry'[s] = e
           /\ \A q \in Sessions \ {s} : entry'[q] = entry[q]
BY DEF EntriesOK, EntryOK, SetEntry

(* A step leaves known and young what is, and no data appear unless the    *)
(* worker is not asleep.                                                   *)
Keeps ==
    \A s \in Sessions :
        /\ entry[s].known /\ entry[s].age = 0 => entry'[s].known /\ entry'[s].age = 0
        /\ wat' = "waiting" /\ IsUpToDate(entry'[s]) => IsUpToDate(entry[s])

LEMMA EntryKept ==
    ASSUME EntriesOK, NEW s \in Sessions, NEW e, EntryOK(e), SetEntry(s, e),
           entry[s].known /\ entry[s].age = 0 => e.known /\ e.age = 0,
           wat' = "waiting" /\ IsUpToDate(e) => IsUpToDate(entry[s])
    PROVE  EntriesOK' /\ Keeps
BY EntrySet DEF Keeps

LEMMA CallKeeps ==
    ASSUME IInv, NEW c \in Connections, NEW op \in DOMAIN Arguments, Call(c, op)
    PROVE  EntriesOK' /\ Keeps
<1> DEFINE s == SessionOf[c]
           r == EnsureRegistered(entry[s], at[c] = "idle")
<1>1. s \in Sessions /\ EntriesOK /\ EntryOK(entry[s]) /\ SetEntry(s, r)
  BY SessionsOfConnections DEF IInv, EntriesOK, Call, Ent
<1>2. EntryOK(r) /\ r.known /\ r.age = 0 /\ (IsUpToDate(r) <=> IsUpToDate(entry[s]))
  BY <1>1, RegisteredOK
<1> HIDE DEF r
<1> QED BY <1>1, <1>2, EntryKept

(* A handler finds its session known. *)
LEMMA HandlerKnows ==
    ASSUME IInv, NEW c \in Connections, at[c] \in Between
    PROVE  /\ SessionOf[c] \in Sessions /\ EntriesOK /\ EntryOK(Ent(c))
           /\ Ent(c) = entry[SessionOf[c]] /\ Ent(c).known /\ Ent(c).age = 0
BY SessionsOfConnections DEF IInv, EntriesOK, CallsAreKnown, Ent

LEMMA HandlersKeep ==
    ASSUME IInv, NEW c \in Connections,
           \/ HandleNotify(c) \/ HandlePending(c) \/ HandleUpload(c)
           \/ HandleEnforce(c) \/ SubmitForward(c)
    PROVE  EntriesOK' /\ Keeps
<1>0. at[c] \in Between
  BY DEF Between, HandleNotify, HandlePending, HandleUpload, HandleEnforce, SubmitForward
<1>1. /\ SessionOf[c] \in Sessions /\ EntriesOK /\ EntryOK(Ent(c))
      /\ Ent(c) = entry[SessionOf[c]] /\ Ent(c).known /\ Ent(c).age = 0
  BY <1>0, HandlerKnows
<1> DEFINE e == Ent(c)
<1>2. CASE HandleNotify(c)
  <2>1. arg[c] \in ReinitIds /\ SetEntry(SessionOf[c], Notified(e, arg[c]))
    BY <1>2 DEF IInv, CallsOK, HandleNotify
  <2> DEFINE r == Notified(e, arg[c])
  <2>2. EntryOK(r) /\ r.known /\ r.age = e.age /\ (IsUpToDate(r) => IsUpToDate(e))
    BY <1>1, <2>1, NotifiedOK
  <2> HIDE DEF r
  <2> QED BY <1>1, <2>1, <2>2, EntryKept DEF r
<1>3. CASE HandlePending(c)
  <2>1. CASE e.notified = arg[c]
    <3> DEFINE r == Pended(e, e.notified, c)
    <3>1. e.notified \in ReinitIds /\ SetEntry(SessionOf[c], r)
      BY <1>3, <2>1 DEF IInv, CallsOK, HandlePending
    <3>2. EntryOK(r) /\ r.known /\ r.age = e.age /\ (IsUpToDate(r) => IsUpToDate(e))
      BY <1>1, <3>1, PendedOK
    <3> HIDE DEF r
    <3> QED BY <1>1, <3>1, <3>2, EntryKept
  <2>2. CASE e.notified # arg[c]
    <3>1. entry' = entry
      BY <1>3, <2>2 DEF HandlePending
    <3> QED BY <1>1, <3>1 DEF EntriesOK, Keeps
  <2> QED BY <2>1, <2>2
<1>4. CASE HandleUpload(c)
  <2> DEFINE r == Stored(e, arg[c], arg[c])
  <2>1. arg[c] \in ReinitIds /\ SetEntry(SessionOf[c], r) /\ wat' # "waiting"
    BY <1>4 DEF IInv, CallsOK, HandleUpload, Wake
  <2>2. EntryOK(r) /\ r.known /\ r.age = e.age
    BY <1>1, <2>1, StoredOK
  <2> HIDE DEF r
  <2> QED BY <1>1, <2>1, <2>2, EntryKept
<1>5. CASE HandleEnforce(c)
  <2> DEFINE f == [e EXCEPT !.force = TRUE]
             r == Answered(f)
  <2>1. /\ EntryOK(f) /\ f.known = e.known /\ f.age = e.age
        /\ IsUpToDate(f) <=> IsUpToDate(e)
    BY <1>1, ForceOK
  <2>2. SetEntry(SessionOf[c], f) \/ SetEntry(SessionOf[c], r)
    BY <1>5 DEF HandleEnforce
  <2> HIDE DEF f
  <2>3. /\ EntryOK(r) /\ r.known = f.known /\ r.age = f.age
        /\ IsUpToDate(r) <=> IsUpToDate(f)
    BY <2>1, AnsweredOK
  <2> HIDE DEF r
  <2>4. CASE SetEntry(SessionOf[c], f)
    BY <1>1, <2>1, <2>4, EntryKept
  <2>5. CASE SetEntry(SessionOf[c], r)
    BY <1>1, <2>1, <2>3, <2>5, EntryKept
  <2> QED BY <2>2, <2>4, <2>5
<1>6. CASE SubmitForward(c)
  <2> DEFINE r == [e EXCEPT !.seq = arg[c]]
  <2>1. arg[c] \in Numbers \union {NoNumber} /\ SetEntry(SessionOf[c], r)
    BY <1>6 DEF IInv, CallsOK, SubmitForward
  <2>2. EntryOK(r) /\ r.known /\ r.age = e.age /\ (IsUpToDate(r) <=> IsUpToDate(e))
    BY <1>1, <2>1, ForwardOK
  <2> HIDE DEF r
  <2> QED BY <1>1, <2>1, <2>2, EntryKept
<1> QED BY <1>2, <1>3, <1>4, <1>5, <1>6

LEMMA DisconnectKeeps ==
    ASSUME IInv, NEW c \in Connections, Disconnect(c)
    PROVE  EntriesOK' /\ Keeps
<1> DEFINE s == SessionOf[c]
           r == Unreference(entry[s])
<1>1. s \in Sessions /\ EntriesOK /\ EntryOK(entry[s]) /\ SetEntry(s, r)
  BY SessionsOfConnections DEF IInv, EntriesOK, Disconnect, Ent
<1>2. /\ EntryOK(r) /\ r.known = entry[s].known /\ (entry[s].known => r.age = 0)
      /\ IsUpToDate(r) <=> IsUpToDate(entry[s])
  BY <1>1, UnreferenceOK
<1> HIDE DEF r
<1> QED BY <1>1, <1>2, EntryKept

LEMMA AskKeeps ==
    ASSUME IInv, NEW s \in Sessions, Ask(s)
    PROVE  EntriesOK' /\ Keeps
<1>1. EntriesOK /\ EntryOK(entry[s])
  BY DEF IInv, EntriesOK
<1>2. CASE MayRequest(entry[s])
  <2> DEFINE r == Answered(entry[s])
  <2>1. /\ EntryOK(r) /\ r.known = entry[s].known /\ r.age = entry[s].age
        /\ IsUpToDate(r) <=> IsUpToDate(entry[s])
    BY <1>1, AnsweredOK
  <2>2. SetEntry(s, r)
    BY <1>2 DEF Ask
  <2> HIDE DEF r
  <2> QED BY <1>1, <2>1, <2>2, EntryKept
<1>3. CASE ~MayRequest(entry[s])
  <2>1. entry' = entry
    BY <1>3 DEF Ask
  <2> QED BY <1>1, <2>1 DEF EntriesOK, Keeps
<1> QED BY <1>2, <1>3

LEMMA WorkerSetsKeep ==
    ASSUME IInv, UseEnds \/ AdvanceNumber
    PROVE  EntriesOK' /\ Keeps
<1>1. job \in Sessions /\ EntriesOK /\ EntryOK(entry[job])
  BY DEF IInv, WorkerOK, EntriesOK, UseEnds, AdvanceNumber
<1>2. CASE SetEntry(job, [entry[job] EXCEPT !.force = FALSE])
  <2> DEFINE r == [entry[job] EXCEPT !.force = FALSE]
  <2>1. /\ EntryOK(r) /\ r.known = entry[job].known /\ r.age = entry[job].age
        /\ IsUpToDate(r) <=> IsUpToDate(entry[job])
    BY <1>1, ForceOK
  <2> HIDE DEF r
  <2> QED BY <1>1, <1>2, <2>1, EntryKept DEF r
<1>3. CASE SetEntry(job, Advanced(entry[job]))
  <2> DEFINE r == Advanced(entry[job])
  <2>1. /\ EntryOK(r) /\ r.known = entry[job].known /\ r.age = entry[job].age
        /\ IsUpToDate(r) <=> IsUpToDate(entry[job])
    BY <1>1, AdvancedOK
  <2> HIDE DEF r
  <2> QED BY <1>1, <1>3, <2>1, EntryKept DEF r
<1>4. CASE entry' = entry
  BY <1>1, <1>4 DEF EntriesOK, Keeps
<1> QED BY <1>2, <1>3, <1>4 DEF UseEnds, AdvanceNumber

(* All that is not the passing of time *)
LEMMA StepKeeps ==
    ASSUME IInv, (\E c \in Connections : Connection(c)) \/ Worker \/ UNCHANGED vars
    PROVE  EntriesOK' /\ Keeps
<1>1. ASSUME entry' = entry PROVE EntriesOK' /\ Keeps
  BY <1>1 DEF IInv, EntriesOK, Keeps
<1>2. ASSUME NEW c \in Connections, Connection(c) PROVE EntriesOK' /\ Keeps
  <2>1. SubmitLook(c) \/ Commit(c) => entry' = entry
    BY DEF SubmitLook, Commit
  <2> QED BY <1>1, <1>2, <2>1, CallKeeps, HandlersKeep, DisconnectKeeps DEF Connection
<1>3. CASE Worker
  <2>1. ASSUME NEW s \in Sessions, RequestReinit(s) PROVE EntriesOK' /\ Keeps
    BY <2>1, AskKeeps DEF RequestReinit
  <2>2. CASE GetRequests
    BY <2>2, AskKeeps DEF GetRequests, IInv, WorkerOK
  <2>3. ASSUME NEW s \in Sessions, GetReinit(s, TRUE) \/ GetReinit(s, FALSE)
        PROVE  EntriesOK' /\ Keeps
    BY <1>1, <2>3 DEF GetReinit
  <2>4. ASSUME NEW c \in Connections, Retrieve(c) PROVE EntriesOK' /\ Keeps
    BY <1>1, <2>4 DEF Retrieve
  <2>5. CASE GetLocks \/ WaitEnds \/ GetAwake \/ CheckValidity \/ CheckDelay
              \/ GiveUp \/ Work
    BY <1>1, <2>5 DEF GetLocks, WaitEnds, GetAwake, CheckValidity, CheckDelay, GiveUp, Work
  <2>6. CASE UseEnds \/ AdvanceNumber
    BY <2>6, WorkerSetsKeep
  <2> QED BY <1>3, <2>1, <2>2, <2>3, <2>4, <2>5, <2>6 DEF Worker
<1>4. CASE UNCHANGED vars
  BY <1>1, <1>4 DEF vars
<1> QED BY <1>2, <1>3, <1>4

LEMMA TimeKeeps ==
    ASSUME IInv, NEW s \in Sessions, TimePasses(s)
    PROVE  /\ EntriesOK'
           /\ entry'[s].deferred = entry[s].deferred
           /\ \A q \in Sessions : IsUpToDate(entry'[q]) => IsUpToDate(entry[q])
           /\ \A q \in Sessions \ {s} : entry'[q] = entry[q]
<1> DEFINE e == entry[s]
           r == [e EXCEPT !.age = @ + 1]
<1>1. EntriesOK /\ EntryOK(e) /\ e.known /\ e.age < 2 /\ SetEntry(s, r)
  BY DEF IInv, EntriesOK, TimePasses
<1>2. EntryOK(r) /\ r.deferred = e.deferred /\ (IsUpToDate(r) <=> IsUpToDate(e))
  BY <1>1, OlderOK
<1> HIDE DEF r
<1> QED BY <1>1, <1>2, EntrySet

LEMMA CleanupKeeps ==
    ASSUME IInv, Cleanup
    PROVE  /\ EntriesOK'
           /\ \A q \in Old : entry'[q].deferred = NoConnection /\ ~IsUpToDate(entry'[q])
           /\ \A q \in Sessions \ Old : entry'[q] = entry[q]
<1>1. \A q \in Sessions : entry'[q] = IF q \in Old THEN Unknown ELSE entry[q]
  BY DEF Cleanup
<1>2. entry' \in [Sessions -> EntryType]
  BY UnknownOK DEF IInv, EntriesOK, EntryOK, Cleanup
<1>3. EntriesOK'
  BY <1>1, <1>2, UnknownOK DEF IInv, EntriesOK
<1>4. Unknown.deferred = NoConnection /\ ~IsUpToDate(Unknown)
  BY DEF Unknown, IsUpToDate
<1> QED BY <1>1, <1>3, <1>4 DEF Old

-----------------------------------------------------------------------------
(* The parts of the invariant *)

LEMMA InitHolds == Init => IInv
<1> SUFFICES ASSUME Init PROVE IInv
  OBVIOUS
<1>1. EntriesOK
  BY UnknownOK DEF Init, EntriesOK, EntryOK
<1>2. CallsOK /\ CallsAreKnown
  BY DEF Init, CallsOK, CallsAreKnown, Labels, Between
<1>3. WorkerOK /\ expired \subseteq Sessions /\ NoMissedUpload
  BY DEF Init, WorkerOK, NoMissedUpload
<1>4. OpenCallsAreDeferred
  BY StorageAssumption, SessionsOfConnections DEF Init, OpenCallsAreDeferred, Ent, Unknown
<1> QED BY <1>1, <1>2, <1>3, <1>4 DEF IInv

(* Calls that are answered are no longer between two regions, nor queued. *)
LEMMA SignalledTypes ==
    ASSUME CallsOK, NEW S, NEW label \in {"granted", "refused"}
    PROVE  /\ Signalled(S, label) \in [Connections -> Labels]
           /\ \A c \in Connections : Signalled(S, label)[c] \in {at[c], label}
BY DEF CallsOK, Signalled, Labels

LEMMA CallsStayOK == ASSUME IInv, [Next]_vars PROVE CallsOK'
<1>0. CallsOK
  BY DEF IInv
<1>1. ASSUME NEW c \in Connections, NEW op \in DOMAIN Arguments, Call(c, op) PROVE CallsOK'
  <2>1. op \in {"notify", "pending", "upload", "enforce", "submit"}
    BY DEF Arguments
  <2>2. PICK x \in Arguments[op] : arg' = [arg EXCEPT ![c] = x]
    BY <1>1 DEF Call
  <2>3. /\ op \in {"notify", "pending", "upload"} => x \in ReinitIds
        /\ op = "submit" => x \in Numbers \union {NoNumber}
        /\ x \in ReinitIds \union Numbers \union {NoNumber, NoId}
    BY <2>1, <2>2 DEF Arguments
  <2>4. at' = [at EXCEPT ![c] = op]
    BY <1>1 DEF Call, Goto
  <2> QED BY <1>0, <2>1, <2>2, <2>3, <2>4 DEF CallsOK, Labels, Between
<1>2. ASSUME NEW c \in Connections, HandleNotify(c) \/ HandleUpload(c) PROVE CallsOK'
  BY <1>0, <1>2 DEF HandleNotify, HandleUpload, Return, Goto, Forget, CallsOK, Labels
<1>3. ASSUME NEW c \in Connections, HandlePending(c) PROVE CallsOK'
  <2>1. PICK label \in {"idle", "waiting"} :
            \/ at' = [at EXCEPT ![c] = label]
            \/ at' = [Signalled({SessionOf[c]}, "refused") EXCEPT ![c] = label]
    BY <1>3 DEF HandlePending, Goto
  <2>2. arg' = [arg EXCEPT ![c] = NoId]
    BY <1>3 DEF HandlePending, Forget
  <2> QED BY <1>0, <2>1, <2>2, SignalledTypes DEF CallsOK, Labels
<1>4. ASSUME NEW c \in Connections, HandleEnforce(c) PROVE CallsOK'
  <2>1. \/ at' = [at EXCEPT ![c] = "idle"]
        \/ at' = [Signalled({SessionOf[c]}, "granted") EXCEPT ![c] = "idle"]
    BY <1>4 DEF HandleEnforce, Goto
  <2>2. arg' = arg
    BY <1>4 DEF HandleEnforce
  <2> QED BY <1>0, <2>1, <2>2, SignalledTypes DEF CallsOK, Labels
<1>5. ASSUME NEW c \in Connections, SubmitLook(c) \/ SubmitForward(c) PROVE CallsOK'
  BY <1>0, <1>5 DEF SubmitLook, SubmitForward, Goto, CallsOK, Labels, Between
<1>6. ASSUME NEW c \in Connections, Commit(c) \/ Disconnect(c) PROVE CallsOK'
  BY <1>0, <1>6 DEF Commit, Disconnect, Goto, CallsOK, Labels
<1>7. ASSUME NEW s \in Sessions, Ask(s), UNCHANGED arg PROVE CallsOK'
  BY <1>0, <1>7, SignalledTypes DEF Ask, CallsOK
<1>8. ASSUME NEW c \in Connections, Retrieve(c) PROVE CallsOK'
  BY <1>0, <1>8 DEF Retrieve, Goto, Forget, CallsOK, Labels
<1>9. CASE CheckValidity \/ Work
  BY <1>0, <1>9 DEF CheckValidity, Work, Return, Goto, Forget, CallsOK, Labels
<1>10. CASE Cleanup
  BY <1>0, <1>10, SignalledTypes DEF Cleanup, CallsOK
<1>11. ASSUME UNCHANGED <<at, arg>> PROVE CallsOK'
  BY <1>0, <1>11 DEF CallsOK
<1>12. ASSUME NEW c \in Connections, Connection(c) PROVE CallsOK'
  BY <1>1, <1>2, <1>3, <1>4, <1>5, <1>6, <1>12 DEF Connection
<1>13. CASE Worker
  <2>1. ASSUME NEW s \in Sessions, RequestReinit(s) PROVE CallsOK'
    BY <1>7, <2>1 DEF RequestReinit
  <2>2. CASE GetRequests
    BY <1>7, <2>2 DEF GetRequests, IInv, WorkerOK
  <2>3. ASSUME NEW s \in Sessions, GetReinit(s, TRUE) \/ GetReinit(s, FALSE) PROVE CallsOK'
    BY <1>11, <2>3 DEF GetReinit
  <2>4. CASE GetLocks \/ WaitEnds \/ GetAwake \/ UseEnds \/ CheckDelay \/ GiveUp
              \/ AdvanceNumber
    BY <1>11, <2>4 DEF GetLocks, WaitEnds, GetAwake, UseEnds, CheckDelay, GiveUp, AdvanceNumber
  <2> QED BY <1>8, <1>9, <1>13, <2>1, <2>2, <2>3, <2>4 DEF Worker
<1>14. ASSUME NEW s \in Sessions, TimePasses(s) PROVE CallsOK'
  BY <1>11, <1>14 DEF TimePasses
<1>15. CASE UNCHANGED vars
  BY <1>11, <1>15 DEF vars
<1> QED BY <1>10, <1>12, <1>13, <1>14, <1>15 DEF Next

(* Who is answered had an open call. *)
LEMMA SignalledWaited ==
    ASSUME IInv, NEW S, NEW label, NEW c \in Connections, at[c] # "waiting"
    PROVE  Signalled(S, label)[c] = at[c]
BY DEF IInv, OpenCallsAreDeferred, Signalled

(* Only the worker moves a call that is in the queue. *)
LEMMA QueuedStays ==
    ASSUME IInv, NEW c \in Connections, at[c] = "queued",
           \/ \E d \in Connections : Connection(d)
           \/ \E s \in Sessions : Ask(s)
           \/ \E s \in Sessions : TimePasses(s)
           \/ Cleanup
    PROVE  at'[c] = "queued"
<1>0. at \in [Connections -> Labels] /\ \A S, l : Signalled(S, l)[c] = at[c]
  BY SignalledWaited DEF IInv, CallsOK
<1>1. \A S, l : Signalled(S, l) = [d \in Connections |-> Signalled(S, l)[d]]
  BY DEF Signalled
<1>2. ASSUME NEW d \in Connections, Connection(d) PROVE at'[c] = "queued"
  <2>1. CASE \E op \in DOMAIN Arguments : Call(d, op)
    BY <1>0, <2>1 DEF Call, Goto
  <2>2. CASE HandleNotify(d) \/ HandleUpload(d)
    BY <1>0, <2>2 DEF HandleNotify, HandleUpload, Return, Goto
  <2>3. CASE HandlePending(d)
    BY <1>0, <1>1, <2>3 DEF HandlePending, Goto
  <2>4. CASE HandleEnforce(d)
    BY <1>0, <1>1, <2>4 DEF HandleEnforce, Goto
  <2>5. CASE SubmitLook(d) \/ SubmitForward(d) \/ Commit(d) \/ Disconnect(d)
    BY <1>0, <2>5 DEF SubmitLook, SubmitForward, Commit, Disconnect, Goto
  <2> QED BY <1>2, <2>1, <2>2, <2>3, <2>4, <2>5 DEF Connection
<1>3. ASSUME NEW s \in Sessions, Ask(s) \/ TimePasses(s) PROVE at'[c] = "queued"
  BY <1>0, <1>3 DEF Ask, TimePasses
<1>4. CASE Cleanup
  BY <1>0, <1>4 DEF Cleanup
<1> QED BY <1>2, <1>3, <1>4

LEMMA WorkerStaysOK == ASSUME IInv, [Next]_vars PROVE WorkerOK'
<1>0. WorkerOK /\ CallsOK
  BY DEF IInv
<1>1. ASSUME NEW c \in Connections, Connection(c) PROVE WorkerOK'
  <2>1. UNCHANGED workerVars
        \/ (wat' = (IF wat = "waiting" THEN "woken" ELSE wat) /\ UNCHANGED <<job, forever, pkg>>)
    BY <1>1 DEF Connection, Call, HandleNotify, HandlePending, HandleUpload, HandleEnforce,
                SubmitLook, SubmitForward, Commit, Disconnect, Wake
  <2>2. \A d \in Connections : at[d] = "queued" => at'[d] = "queued"
    BY <1>1, QueuedStays
  <2> QED BY <1>0, <2>1, <2>2 DEF WorkerOK, workerVars
<1>2. ASSUME NEW s \in Sessions, RequestReinit(s) PROVE WorkerOK'
  <2>1. \A d \in Connections : at[d] = "queued" => at'[d] = "queued"
    BY <1>2, QueuedStays DEF RequestReinit
  <2> QED BY <1>0, <1>2, <2>1 DEF RequestReinit, WorkerOK, workerVars
<1>3. ASSUME NEW s \in Sessions, NEW b \in BOOLEAN, GetReinit(s, b) PROVE WorkerOK'
  <2>1. wat \in {"idle", "work"} /\ wat' \in {"using", "request"} /\ job' = s
        /\ UNCHANGED <<at, pkg>>
    BY <1>3 DEF GetReinit, MayAsk
  <2>2. forever' \in BOOLEAN
    BY <1>3 DEF GetReinit
  <2> QED BY <1>0, <2>1, <2>2 DEF WorkerOK
<1>4. CASE GetRequests \/ WaitEnds
  <2>1. \A d \in Connections : at[d] = "queued" => at'[d] = "queued"
    BY <1>0, <1>4, QueuedStays DEF GetRequests, WaitEnds, WorkerOK
  <2>2. wat \in {"request", "waiting"} /\ wat' \in {"relock", "woken"}
        /\ UNCHANGED <<job, forever, pkg>>
    BY <1>4 DEF GetRequests, WaitEnds
  <2> QED BY <1>0, <2>1, <2>2 DEF WorkerOK
<1>5. CASE GetLocks \/ GetAwake
  BY <1>0, <1>5 DEF GetLocks, GetAwake, Look, Home, WorkerOK
<1>6. CASE UseEnds \/ AdvanceNumber
  <2>1. UNCHANGED <<at, forever, pkg>> /\ job' = NoSession
    BY <1>6 DEF UseEnds, AdvanceNumber
  <2>2. IF pkg = NoConnection THEN wat' = "idle" ELSE wat' = "work"
    <3>1. wat' = Home \/ (wat = "next" /\ wat' = "idle")
      BY <1>6 DEF UseEnds, AdvanceNumber
    <3> QED BY <1>0, <3>1 DEF Home, WorkerOK
  <2>3. (pkg # NoConnection => pkg \in Connections /\ at[pkg] = "queued") /\ forever \in BOOLEAN
    BY <1>0 DEF WorkerOK
  <2> QED BY <2>1, <2>2, <2>3 DEF WorkerOK
<1>7. ASSUME NEW c \in Connections, Retrieve(c) PROVE WorkerOK'
  <2>1. wat = "idle" /\ pkg = NoConnection /\ UNCHANGED <<job, forever>>
    BY <1>0, <1>7 DEF Retrieve, WorkerOK
  <2>2. \/ UNCHANGED <<wat, pkg>>
        \/ wat' \in {"work", "validity"} /\ pkg' = c /\ at' = at /\ at[c] = "queued"
    BY <1>7 DEF Retrieve
  <2>3. c # NoConnection
    BY StorageAssumption
  <2> QED BY <1>0, <2>1, <2>2, <2>3 DEF WorkerOK
<1>8. CASE CheckValidity \/ CheckDelay \/ GiveUp
  BY <1>0, <1>8 DEF CheckValidity, CheckDelay, GiveUp, Drop, Return, Goto, WorkerOK
<1>9. CASE Work
  BY <1>0, <1>9, SessionsOfConnections DEF Work, WorkerOK
<1>10. CASE (\E s \in Sessions : TimePasses(s)) \/ Cleanup
  <2>1. \A d \in Connections : at[d] = "queued" => at'[d] = "queued"
    BY <1>10, QueuedStays
  <2>2. UNCHANGED workerVars
    BY <1>10 DEF TimePasses, Cleanup
  <2> QED BY <1>0, <2>1, <2>2 DEF WorkerOK, workerVars
<1>11. CASE UNCHANGED vars
  BY <1>0, <1>11 DEF vars, workerVars, WorkerOK
<1> QED BY <1>1, <1>2, <1>3, <1>4, <1>5, <1>6, <1>7, <1>8, <1>9, <1>10, <1>11
        DEF Next, Worker

(* A call gets between two regions by touching its session. *)
LEMMA CallsStayKnown == ASSUME IInv, [Next]_vars PROVE CallsAreKnown'
<1>0. CallsOK /\ CallsAreKnown
  BY DEF IInv
<1>1. \A S : \A l \in {"granted", "refused"}, d \in Connections :
          Signalled(S, l)[d] \in Between => at[d] \in Between
  BY <1>0, SignalledTypes DEF Between
<1>2. \A S, l : Signalled(S, l) = [d \in Connections |-> Signalled(S, l)[d]]
  BY DEF Signalled
<1>3. ASSUME Keeps,
             \A d \in Connections : at'[d] \in Between => at[d] \in Between
      PROVE  CallsAreKnown'
  BY <1>0, <1>3, SessionsOfConnections DEF CallsAreKnown, Ent, Keeps
<1>4. ASSUME NEW c \in Connections, NEW op \in DOMAIN Arguments, Call(c, op)
      PROVE  CallsAreKnown'
  <2> DEFINE s == SessionOf[c]
  <2>1. s \in Sessions /\ EntriesOK /\ EntryOK(entry[s])
        /\ SetEntry(s, EnsureRegistered(entry[s], at[c] = "idle"))
        /\ at' = [at EXCEPT ![c] = op]
    BY <1>4, SessionsOfConnections DEF IInv, EntriesOK, Call, Ent, Goto
  <2>2. entry'[s].known /\ entry'[s].age = 0
    <3> DEFINE r == EnsureRegistered(entry[s], at[c] = "idle")
    <3>1. EntryOK(r) /\ r.known /\ r.age = 0 /\ SetEntry(s, r)
      BY <2>1, RegisteredOK
    <3> HIDE DEF r
    <3> QED BY <2>1, <3>1, EntrySet
  <2>3. Keeps
    BY <1>4, CallKeeps
  <2> QED BY <1>0, <2>1, <2>2, <2>3, SessionsOfConnections DEF CallsAreKnown, Ent, Keeps, CallsOK
<1>5. ASSUME NEW c \in Connections, Connection(c) PROVE CallsAreKnown'
  <2>1. Keeps
    BY <1>5, StepKeeps
  <2>2. CASE HandleNotify(c) \/ HandleUpload(c)
    <3>1. at' = [at EXCEPT ![c] = "idle"]
      BY <2>2 DEF HandleNotify, HandleUpload, Return, Goto
    <3>2. \A d \in Connections : at'[d] \in Between => at[d] \in Between
      BY <1>0, <3>1 DEF CallsOK, Between
    <3> QED BY <1>3, <2>1, <3>2
  <2>3. CASE HandlePending(c)
    <3>1. PICK l \in {"idle", "waiting"} :
              \/ at' = [at EXCEPT ![c] = l]
              \/ at' = [Signalled({SessionOf[c]}, "refused") EXCEPT ![c] = l]
      BY <2>3 DEF HandlePending, Goto
    <3>2. \A d \in Connections : at'[d] \in Between => at[d] \in Between
      BY <1>0, <1>1, <1>2, <3>1 DEF CallsOK, Between
    <3> QED BY <1>3, <2>1, <3>2
  <2>4. CASE HandleEnforce(c)
    <3>1. \/ at' = [at EXCEPT ![c] = "idle"]
          \/ at' = [Signalled({SessionOf[c]}, "granted") EXCEPT ![c] = "idle"]
      BY <2>4 DEF HandleEnforce, Goto
    <3>2. \A d \in Connections : at'[d] \in Between => at[d] \in Between
      BY <1>0, <1>1, <1>2, <3>1 DEF CallsOK, Between
    <3> QED BY <1>3, <2>1, <3>2
  <2>5. CASE SubmitLook(c) \/ SubmitForward(c) \/ Commit(c) \/ Disconnect(c)
    <3>1. at[c] = "submit" \/ ~(at'[c] \in Between)
      BY <1>0, <2>5 DEF SubmitLook, SubmitForward, Commit, Disconnect, Goto, CallsOK, Between
    <3>2. \A d \in Connections \ {c} : at'[d] = at[d]
      BY <1>0, <2>5 DEF SubmitLook, SubmitForward, Commit, Disconnect, Goto, CallsOK
    <3>3. \A d \in Connections : at'[d] \in Between => at[d] \in Between
      BY <3>1, <3>2 DEF Between
    <3> QED BY <1>3, <2>1, <3>3
  <2> QED BY <1>4, <1>5, <2>2, <2>3, <2>4, <2>5 DEF Connection
<1>6. CASE Worker
  <2>1. Keeps
    BY <1>6, StepKeeps
  <2>3. ASSUME NEW c \in Connections, Retrieve(c)
        PROVE  \A d \in Connections : at'[d] \in Between => at[d] \in Between
    BY <1>0, <2>3 DEF Retrieve, Goto, CallsOK, Between
  <2>4. CASE CheckValidity \/ Work
    <3>1. at' = at \/ (pkg \in Connections /\ at' = [at EXCEPT ![pkg] = "idle"])
      BY <2>4 DEF IInv, WorkerOK, CheckValidity, Work, Return, Goto
    <3>2. \A d \in Connections : at'[d] \in Between => at[d] \in Between
      BY <1>0, <3>1 DEF CallsOK, Between
    <3> QED BY <1>3, <2>1, <3>2
  <2>5. ASSUME NEW s \in Sessions, Ask(s)
        PROVE  \A d \in Connections : at'[d] \in Between => at[d] \in Between
    BY <1>1, <2>5 DEF Ask
  <2>6. CASE GetRequests
    BY <1>3, <2>1, <2>5, <2>6 DEF GetRequests, IInv, WorkerOK
  <2>7. ASSUME NEW s \in Sessions, RequestReinit(s) PROVE CallsAreKnown'
    BY <1>3, <2>1, <2>5, <2>7 DEF RequestReinit
  <2>8. CASE at' = at
    BY <1>3, <2>1, <2>8
  <2> QED BY <1>3, <1>6, <2>1, <2>3, <2>4, <2>6, <2>7, <2>8
          DEF Worker, GetReinit, GetLocks, WaitEnds, GetAwake, UseEnds, CheckDelay,
              GiveUp, AdvanceNumber
<1>7. ASSUME NEW s \in Sessions, TimePasses(s) PROVE CallsAreKnown'
  <2>1. at' = at /\ \A d \in Connections : SessionOf[d] = s => at[d] \notin Between
    BY <1>7 DEF TimePasses, Connected, Between
  <2>2. \A q \in Sessions \ {s} : entry'[q] = entry[q]
    BY <1>7, TimeKeeps
  <2> QED BY <1>0, <2>1, <2>2, SessionsOfConnections DEF CallsAreKnown, Ent
<1>8. CASE Cleanup
  <2>1. \A d \in Connections : at'[d] \in Between => at[d] \in Between
    BY <1>1, <1>8 DEF Cleanup
  <2>2. \A s \in Sessions : entry[s].age = 0 => entry'[s] = entry[s]
    BY <1>8, CleanupKeeps DEF Old, IsOld
  <2> QED BY <1>0, <2>1, <2>2, SessionsOfConnections DEF CallsAreKnown, Ent
<1>9. CASE UNCHANGED vars
  BY <1>0, <1>9 DEF vars, CallsAreKnown, Ent
<1> QED BY <1>5, <1>6, <1>7, <1>8, <1>9 DEF Next

LEMMA SleeperStaysRight == ASSUME IInv, [Next]_vars PROVE NoMissedUpload'
<1>0. NoMissedUpload /\ WorkerOK
  BY DEF IInv
<1>1. ASSUME \A s \in Sessions : wat' = "waiting" /\ IsUpToDate(entry'[s]) => IsUpToDate(entry[s]),
             UNCHANGED <<job, forever>>, wat' = "waiting" => wat = "waiting"
      PROVE  NoMissedUpload'
  BY <1>0, <1>1 DEF WorkerOK, NoMissedUpload
<1>2. ASSUME NEW c \in Connections, Connection(c) PROVE NoMissedUpload'
  <2>1. UNCHANGED <<job, forever>> /\ (wat' = "waiting" => wat = "waiting")
    BY <1>2 DEF Connection, Call, HandleNotify, HandlePending, HandleUpload, HandleEnforce,
                SubmitLook, SubmitForward, Commit, Disconnect, Wake, workerVars
  <2>2. Keeps
    BY <1>2, StepKeeps
  <2> QED BY <1>1, <2>1, <2>2 DEF Keeps
<1>3. ASSUME NEW s \in Sessions, RequestReinit(s) PROVE NoMissedUpload'
  BY <1>0, <1>3 DEF RequestReinit, MayAsk, NoMissedUpload, workerVars
<1>4. CASE GetLocks \/ GetAwake
  <2>1. wat' = "waiting" /\ forever' => ~IsUpToDate(entry[job])
    BY <1>4 DEF GetLocks, GetAwake, Look, Home
  <2>2. entry' = entry /\ (wat' = "waiting" => job' = job)
    BY <1>4 DEF GetLocks, GetAwake, Look, Home
  <2> QED BY <2>1, <2>2 DEF NoMissedUpload
<1>5. ASSUME wat' # "waiting" PROVE NoMissedUpload'
  BY <1>5 DEF NoMissedUpload
<1>6. CASE Worker
  <2>1. (\E s \in Sessions : GetReinit(s, TRUE) \/ GetReinit(s, FALSE)) => wat' # "waiting"
    BY DEF GetReinit
  <2>2. GetRequests \/ WaitEnds \/ UseEnds \/ AdvanceNumber => wat' # "waiting"
    BY DEF GetRequests, WaitEnds, UseEnds, AdvanceNumber, Home
  <2>3. (\E c \in Connections : Retrieve(c)) => wat' # "waiting"
    BY DEF Retrieve
  <2>4. CheckValidity \/ CheckDelay \/ GiveUp \/ Work => wat' # "waiting"
    BY DEF CheckValidity, CheckDelay, GiveUp, Work, Drop
  <2> QED BY <1>3, <1>4, <1>5, <1>6, <2>1, <2>2, <2>3, <2>4 DEF Worker
<1>7. ASSUME NEW s \in Sessions, TimePasses(s) PROVE NoMissedUpload'
  <2>1. UNCHANGED <<job, forever>> /\ wat' = wat
    BY <1>7 DEF TimePasses, workerVars
  <2> QED BY <1>1, <1>7, <2>1, TimeKeeps
<1>8. CASE Cleanup
  <2>1. UNCHANGED <<job, forever>> /\ wat' = wat
    BY <1>8 DEF Cleanup, workerVars
  <2>2. \A s \in Sessions : IsUpToDate(entry'[s]) => IsUpToDate(entry[s])
    BY <1>8, CleanupKeeps
  <2> QED BY <1>1, <2>1, <2>2
<1>9. CASE UNCHANGED vars
  BY <1>0, <1>9 DEF vars, workerVars, NoMissedUpload
<1> QED BY <1>2, <1>6, <1>7, <1>8, <1>9 DEF Next

(* Open calls *)

LEMMA DeferredStay ==
    ASSUME IInv, \A s \in Sessions : entry'[s].deferred = entry[s].deferred,
           \A d \in Connections : at'[d] = "waiting" <=> at[d] = "waiting"
    PROVE  OpenCallsAreDeferred'
BY SessionsOfConnections DEF IInv, OpenCallsAreDeferred, Ent

(* Those whose sessions are signalled are answered and forgotten. *)
LEMMA SignalledForgotten ==
    ASSUME IInv, NEW S \in SUBSET Sessions, NEW label \in {"granted", "refused"},
           at' = Signalled(S, label),
           \A s \in S : entry'[s].deferred = NoConnection,
           \A s \in Sessions \ S : entry'[s].deferred = entry[s].deferred
    PROVE  OpenCallsAreDeferred'
<1>1. SUFFICES ASSUME NEW c \in Connections
               PROVE  at'[c] = "waiting" <=> entry'[SessionOf[c]].deferred = c
  BY DEF OpenCallsAreDeferred, Ent
<1>2. at[c] = "waiting" <=> entry[SessionOf[c]].deferred = c
  BY DEF IInv, OpenCallsAreDeferred, Ent
<1>3. CASE SessionOf[c] \in S
  BY <1>2, <1>3, StorageAssumption DEF Signalled, Ent
<1>4. CASE SessionOf[c] \notin S
  BY <1>2, <1>4, SessionsOfConnections DEF Signalled
<1> QED BY <1>3, <1>4

(* The connection that acts was not waiting and does not wait. *)
LEMMA OthersWait ==
    ASSUME IInv, NEW c \in Connections, at[c] # "waiting",
           NEW label \in Labels \ {"waiting"}, at' = [at EXCEPT ![c] = label]
    PROVE  \A d \in Connections : at'[d] = "waiting" <=> at[d] = "waiting"
BY DEF IInv, CallsOK

LEMMA OneEntryDeferred ==
    ASSUME EntriesOK, NEW s \in Sessions, NEW e, EntryOK(e), SetEntry(s, e),
           e.deferred = entry[s].deferred
    PROVE  \A q \in Sessions : entry'[q].deferred = entry[q].deferred
BY EntrySet

LEMMA AskAnswers == ASSUME IInv, NEW s \in Sessions, Ask(s) PROVE OpenCallsAreDeferred'
<1>1. EntriesOK /\ EntryOK(entry[s])
  BY DEF IInv, EntriesOK
<1>2. CASE MayRequest(entry[s])
  <2> DEFINE r == Answered(entry[s])
  <2>1. EntryOK(r) /\ r.deferred = NoConnection /\ SetEntry(s, r)
    BY <1>1, <1>2, AnsweredOK DEF Ask
  <2>2. at' = Signalled({s}, "granted")
    BY <1>2 DEF Ask
  <2> HIDE DEF r
  <2>3. /\ entry'[s].deferred = NoConnection
        /\ \A q \in Sessions \ {s} : entry'[q].deferred = entry[q].deferred
    BY <1>1, <2>1, EntrySet
  <2> QED BY <2>2, <2>3, SignalledForgotten
<1>3. CASE ~MayRequest(entry[s])
  BY <1>3 DEF Ask, IInv, OpenCallsAreDeferred, Ent
<1> QED BY <1>2, <1>3

(* A new pending call takes the place of the one that was open. *)
LEMMA PendingReplaces ==
    ASSUME IInv, NEW c \in Connections, HandlePending(c)
    PROVE  OpenCallsAreDeferred'
<1> DEFINE e == Ent(c)
           s == SessionOf[c]
<1>0. at[c] = "pending" /\ at[c] \in Between /\ at[c] # "waiting"
  BY DEF HandlePending, Between
<1>1. s \in Sessions /\ EntriesOK /\ EntryOK(e) /\ e = entry[s] /\ e.known
  BY <1>0, HandlerKnows
<1>2. CASE e.notified = arg[c]
  <2> DEFINE r == Pended(e, e.notified, c)
  <2>1. /\ SetEntry(s, r) /\ e.notified \in ReinitIds
        /\ at' = [Signalled({s}, "refused") EXCEPT ![c] = "waiting"]
    BY <1>2, <1>0 DEF HandlePending, IInv, CallsOK
  <2>2. EntryOK(r) /\ r.deferred = c
    BY <1>1, <2>1, PendedOK
  <2> HIDE DEF r
  <2>3. entry'[s].deferred = c /\ \A q \in Sessions \ {s} : entry'[q] = entry[q]
    BY <1>1, <2>1, <2>2, EntrySet
  <2>4. SUFFICES ASSUME NEW d \in Connections
                 PROVE  at'[d] = "waiting" <=> entry'[SessionOf[d]].deferred = d
    BY DEF OpenCallsAreDeferred, Ent
  <2>5. at[d] = "waiting" <=> entry[SessionOf[d]].deferred = d
    BY DEF IInv, OpenCallsAreDeferred, Ent
  <2>6. CASE d = c
    BY <2>1, <2>3, <2>6 DEF Signalled
  <2>7. CASE d # c /\ SessionOf[d] = s
    BY <2>1, <2>3, <2>5, <2>7 DEF Signalled, Ent
  <2>8. CASE d # c /\ SessionOf[d] # s
    BY <2>1, <2>3, <2>5, <2>8, SessionsOfConnections DEF Signalled
  <2> QED BY <2>6, <2>7, <2>8
<1>3. CASE e.notified # arg[c]
  <2>1. entry' = entry /\ at' = [at EXCEPT ![c] = "idle"]
    BY <1>3 DEF HandlePending, Goto
  <2> QED BY <1>0, <2>1, OthersWait, DeferredStay DEF Labels
<1> QED BY <1>2, <1>3

LEMMA EnforceAnswers ==
    ASSUME IInv, NEW c \in Connections, HandleEnforce(c)
    PROVE  OpenCallsAreDeferred'
<1> DEFINE e == Ent(c)
           s == SessionOf[c]
           f == [e EXCEPT !.force = TRUE]
<1>0. at[c] = "enforce" /\ at[c] \in Between /\ at[c] # "waiting"
  BY DEF HandleEnforce, Between
<1>1. s \in Sessions /\ EntriesOK /\ EntryOK(e) /\ e = entry[s] /\ e.known
  BY <1>0, HandlerKnows
<1>2. EntryOK(f) /\ f.deferred = e.deferred
  BY <1>1, ForceOK
<1>3. \/ SetEntry(s, f) /\ at' = [at EXCEPT ![c] = "idle"]
      \/ /\ SetEntry(s, Answered(f))
         /\ at' = [Signalled({s}, "granted") EXCEPT ![c] = "idle"]
  BY DEF HandleEnforce, Goto
<1> HIDE DEF f
<1>4. CASE SetEntry(s, f) /\ at' = [at EXCEPT ![c] = "idle"]
  <2>1. \A q \in Sessions : entry'[q].deferred = entry[q].deferred
    BY <1>1, <1>2, <1>4, OneEntryDeferred
  <2> QED BY <1>0, <1>4, <2>1, OthersWait, DeferredStay DEF Labels
<1>5. CASE /\ SetEntry(s, Answered(f))
           /\ at' = [Signalled({s}, "granted") EXCEPT ![c] = "idle"]
  <2> DEFINE r == Answered(f)
  <2>1. EntryOK(r) /\ r.deferred = NoConnection
    BY <1>2, AnsweredOK
  <2>2. SetEntry(s, r)
    BY <1>5
  <2> HIDE DEF r
  <2>3. entry'[s].deferred = NoConnection /\ \A q \in Sessions \ {s} : entry'[q] = entry[q]
    BY <1>1, <2>1, <2>2, EntrySet
  <2>4. SUFFICES ASSUME NEW d \in Connections
                 PROVE  at'[d] = "waiting" <=> entry'[SessionOf[d]].deferred = d
    BY DEF OpenCallsAreDeferred, Ent
  <2>5. at[d] = "waiting" <=> entry[SessionOf[d]].deferred = d
    BY DEF IInv, OpenCallsAreDeferred, Ent
  <2>6. CASE SessionOf[d] = s
    BY <1>5, <2>3, <2>5, <2>6, StorageAssumption DEF Signalled, Ent
  <2>7. CASE SessionOf[d] # s
    BY <1>5, <2>3, <2>5, <2>7, SessionsOfConnections DEF Signalled
  <2> QED BY <2>6, <2>7
<1> QED BY <1>3, <1>4, <1>5

LEMMA OpenCallsStay == ASSUME IInv, [Next]_vars PROVE OpenCallsAreDeferred'
<1>0. EntriesOK /\ CallsOK /\ OpenCallsAreDeferred
  BY DEF IInv
<1>1. ASSUME NEW c \in Connections, NEW op \in DOMAIN Arguments, Call(c, op)
      PROVE  OpenCallsAreDeferred'
  <2> DEFINE s == SessionOf[c]
             r == EnsureRegistered(entry[s], at[c] = "idle")
  <2>1. s \in Sessions /\ EntryOK(entry[s]) /\ SetEntry(s, r)
    BY <1>0, <1>1, SessionsOfConnections DEF EntriesOK, Call, Ent
  <2>2. EntryOK(r) /\ r.deferred = entry[s].deferred
    BY <2>1, RegisteredOK
  <2> HIDE DEF r
  <2>3. \A q \in Sessions : entry'[q].deferred = entry[q].deferred
    BY <1>0, <2>1, <2>2, OneEntryDeferred
  <2>4. op \in Labels \ {"waiting"}
    BY DEF Arguments, Labels, Between
  <2>5. at[c] # "waiting" /\ at' = [at EXCEPT ![c] = op]
    BY <1>1 DEF Call, Goto
  <2> QED BY <2>3, <2>4, <2>5, OthersWait, DeferredStay
<1>2. ASSUME NEW c \in Connections, HandleNotify(c) \/ HandleUpload(c) \/ SubmitForward(c)
      PROVE  OpenCallsAreDeferred'
  <2> DEFINE e == Ent(c)
  <2>0. at[c] \in Between /\ at[c] # "waiting"
    BY <1>2 DEF Between, HandleNotify, HandleUpload, SubmitForward
  <2>1. SessionOf[c] \in Sessions /\ EntryOK(e) /\ e = entry[SessionOf[c]] /\ e.known
    BY <2>0, HandlerKnows
  <2>2. PICK r : SetEntry(SessionOf[c], r) /\ EntryOK(r) /\ r.deferred = e.deferred
    <3>1. CASE HandleNotify(c)
      <4>1. arg[c] \in ReinitIds /\ SetEntry(SessionOf[c], Notified(e, arg[c]))
        BY <1>0, <3>1 DEF CallsOK, HandleNotify
      <4> QED BY <2>1, <4>1, NotifiedOK
    <3>2. CASE HandleUpload(c)
      <4>1. arg[c] \in ReinitIds /\ SetEntry(SessionOf[c], Stored(e, arg[c], arg[c]))
        BY <1>0, <3>2 DEF CallsOK, HandleUpload
      <4> QED BY <2>1, <4>1, StoredOK
    <3>3. CASE SubmitForward(c)
      <4>1. /\ arg[c] \in Numbers \union {NoNumber}
            /\ SetEntry(SessionOf[c], [e EXCEPT !.seq = arg[c]])
        BY <1>0, <3>3 DEF CallsOK, SubmitForward
      <4> QED BY <2>1, <4>1, ForwardOK
    <3> QED BY <1>2, <3>1, <3>2, <3>3
  <2>3. \A q \in Sessions : entry'[q].deferred = entry[q].deferred
    BY <1>0, <2>1, <2>2, OneEntryDeferred
  <2>4. PICK label \in {"idle", "queued"} : at' = [at EXCEPT ![c] = label]
    BY <1>2 DEF HandleNotify, HandleUpload, SubmitForward, Return, Goto
  <2> QED BY <2>0, <2>3, <2>4, OthersWait, DeferredStay DEF Labels
<1>3. ASSUME NEW c \in Connections, SubmitLook(c) \/ Commit(c) \/ Retrieve(c)
      PROVE  OpenCallsAreDeferred'
  <2>1. entry' = entry /\ at[c] # "waiting"
    BY <1>3 DEF SubmitLook, Commit, Retrieve
  <2>2. at' = at \/ \E label \in {"forward", "queued", "idle", "lost"} : at' = [at EXCEPT ![c] = label]
    BY <1>3 DEF SubmitLook, Commit, Retrieve, Goto
  <2>3. CASE at' = at
    BY <2>1, <2>3, DeferredStay
  <2>4. ASSUME NEW label \in {"forward", "queued", "idle", "lost"}, at' = [at EXCEPT ![c] = label]
        PROVE  OpenCallsAreDeferred'
    BY <2>1, <2>4, OthersWait, DeferredStay DEF Labels, Between
  <2> QED BY <2>2, <2>3, <2>4
<1>4. ASSUME NEW c \in Connections, Disconnect(c) PROVE OpenCallsAreDeferred'
  <2> DEFINE s == SessionOf[c]
             r == Unreference(entry[s])
  <2>1. s \in Sessions /\ EntryOK(entry[s]) /\ SetEntry(s, r)
    BY <1>0, <1>4, SessionsOfConnections DEF EntriesOK, Disconnect, Ent
  <2>2. EntryOK(r) /\ r.deferred = entry[s].deferred
    BY <2>1, UnreferenceOK
  <2> HIDE DEF r
  <2>3. \A q \in Sessions : entry'[q].deferred = entry[q].deferred
    BY <1>0, <2>1, <2>2, OneEntryDeferred
  <2>4. at[c] # "waiting" /\ at' = [at EXCEPT ![c] = "away"]
    BY <1>4 DEF Disconnect, Goto
  <2> QED BY <2>3, <2>4, OthersWait, DeferredStay DEF Labels
<1>5. ASSUME NEW c \in Connections, Connection(c) PROVE OpenCallsAreDeferred'
  BY <1>1, <1>2, <1>3, <1>4, <1>5, PendingReplaces, EnforceAnswers DEF Connection
<1>6. CASE UseEnds \/ AdvanceNumber
  <2>1. job \in Sessions /\ EntryOK(entry[job]) /\ at' = at
    BY <1>0, <1>6 DEF IInv, WorkerOK, EntriesOK, UseEnds, AdvanceNumber
  <2>2. CASE entry' = entry
    BY <2>1, <2>2, DeferredStay
  <2>3. CASE entry' # entry
    <3>1. PICK r : SetEntry(job, r) /\ EntryOK(r) /\ r.deferred = entry[job].deferred
      BY <1>6, <2>1, <2>3, ForceOK, AdvancedOK DEF UseEnds, AdvanceNumber
    <3>2. \A q \in Sessions : entry'[q].deferred = entry[q].deferred
      BY <1>0, <2>1, <3>1, OneEntryDeferred
    <3> QED BY <2>1, <3>2, DeferredStay
  <2> QED BY <2>2, <2>3
<1>7. CASE CheckValidity \/ Work
  <2>1. at' = at \/ (/\ pkg \in Connections /\ at[pkg] # "waiting"
                     /\ at' = [at EXCEPT ![pkg] = "idle"])
    BY <1>7 DEF IInv, WorkerOK, CheckValidity, Work, Return, Goto
  <2>2. entry' = entry
    BY <1>7 DEF CheckValidity, Work
  <2> QED BY <2>1, <2>2, OthersWait, DeferredStay DEF Labels
<1>8. ASSUME UNCHANGED <<entry, at>> PROVE OpenCallsAreDeferred'
  BY <1>8, DeferredStay
<1>9. CASE Worker
  <2>1. ASSUME NEW s \in Sessions, GetReinit(s, TRUE) \/ GetReinit(s, FALSE)
        PROVE  OpenCallsAreDeferred'
    BY <1>8, <2>1 DEF GetReinit
  <2>2. CASE GetLocks \/ WaitEnds \/ GetAwake \/ CheckDelay \/ GiveUp
    BY <1>8, <2>2 DEF GetLocks, WaitEnds, GetAwake, CheckDelay, GiveUp
  <2>3. ASSUME NEW s \in Sessions, RequestReinit(s) PROVE OpenCallsAreDeferred'
    BY <2>3, AskAnswers DEF RequestReinit
  <2>4. CASE GetRequests
    BY <2>4, AskAnswers DEF GetRequests, IInv, WorkerOK
  <2> QED BY <1>3, <1>6, <1>7, <1>9, <2>1, <2>2, <2>3, <2>4 DEF Worker
<1>10. ASSUME NEW s \in Sessions, TimePasses(s) PROVE OpenCallsAreDeferred'
  <2>1. \A q \in Sessions : entry'[q].deferred = entry[q].deferred
    BY <1>10, TimeKeeps
  <2>2. at' = at
    BY <1>10 DEF TimePasses
  <2> QED BY <2>1, <2>2, DeferredStay
<1>11. CASE Cleanup
  <2>1. at' = Signalled(Old, "refused") /\ Old \in SUBSET Sessions
    BY <1>11 DEF Cleanup, Old
  <2> QED BY <1>11, <2>1, CleanupKeeps, SignalledForgotten
<1>12. CASE UNCHANGED vars
  BY <1>8, <1>12 DEF vars
<1> QED BY <1>5, <1>9, <1>10, <1>11, <1>12 DEF Next

LEMMA NextKeeps == ASSUME IInv, [Next]_vars PROVE IInv'
<1>1. EntriesOK'
  BY StepKeeps, TimeKeeps, CleanupKeeps DEF Next
<1>2. expired' \subseteq Sessions
  <2>1. expired' = expired \/ expired' = expired \union {s \in Old : Connected(s) # {}}
    BY DEF Next, Connection, Worker, Call, HandleNotify, HandlePending, HandleUpload,
           HandleEnforce, SubmitLook, SubmitForward, Commit, Disconnect, RequestReinit,
           GetReinit, GetRequests, GetLocks, WaitEnds, GetAwake, UseEnds, Retrieve,
           CheckValidity, CheckDelay, GiveUp, Work, AdvanceNumber, TimePasses, Cleanup, vars
  <2> QED BY <2>1 DEF IInv, Old
<1> QED BY <1>1, <1>2, CallsStayOK, WorkerStaysOK, CallsStayKnown, OpenCallsStay,
           SleeperStaysRight DEF IInv

-----------------------------------------------------------------------------
(* References *)

LEMMA ConnectedFinite ==
    \A s : IsFiniteSet(Connected(s)) /\ Cardinality(Connected(s)) \in Nat
<1>1. \A s : Connected(s) \subseteq Connections
  BY DEF Connected
<1> QED BY <1>1, StorageAssumption, FS_Subset, FS_CardinalityType

(* Steps that register and forget nothing *)
SameCounts ==
    /\ \A s \in Sessions :
           entry'[s].known = entry[s].known /\ entry'[s].refcount = entry[s].refcount
    /\ \A c \in Connections : at'[c] = "away" <=> at[c] = "away"
    /\ expired' = expired

LEMMA SameCountsKeep ==
    ASSUME RefcountCounts, SameCounts
    PROVE  RefcountCounts'
<1>1. \A s : {c \in Connections : SessionOf[c] = s /\ at'[c] # "away"} = Connected(s)
  BY DEF SameCounts, Connected
<1>2. SUFFICES ASSUME NEW s \in Sessions
               PROVE  /\ entry'[s].known => entry'[s].refcount <= Cardinality(Connected(s))
                      /\ s \notin expired' => entry'[s].refcount = Cardinality(Connected(s))
  BY <1>1 DEF RefcountCounts, Connected
<1> QED BY DEF RefcountCounts, SameCounts

(* What handlers and the worker do to an entry leaves its references. *)
LEMMA OperatorsLeaveCounts ==
    ASSUME NEW e \in EntryType, NEW id, NEW c, NEW n, NEW r,
           r \in {Notified(e, id), Pended(e, id, c), Stored(e, id, id), Answered(e),
                  [e EXCEPT !.force = n], [e EXCEPT !.seq = n], [e EXCEPT !.age = n],
                  Advanced(e)}
    PROVE  r.known = e.known /\ r.refcount = e.refcount
BY DEF EntryType, Notified, Pended, Stored, Answered, Advanced

LEMMA OneEntryCounts ==
    ASSUME EntriesOK, NEW s \in Sessions, NEW e, SetEntry(s, e),
           e.known = entry[s].known, e.refcount = entry[s].refcount
    PROVE  \A q \in Sessions :
               entry'[q].known = entry[q].known /\ entry'[q].refcount = entry[q].refcount
BY DEF EntriesOK, SetEntry

(* No call is answered that was not made. *)
LEMMA SignalledAway ==
    ASSUME IInv, NEW S, NEW label \in {"granted", "refused"}, NEW c \in Connections
    PROVE  Signalled(S, label)[c] = "away" <=> at[c] = "away"
<1>1. at[c] = "waiting" \/ Signalled(S, label)[c] = at[c]
  BY SignalledWaited
<1> QED BY <1>1, SignalledTypes DEF IInv

LEMMA HandlersLeaveCounts ==
    ASSUME IInv, NEW c \in Connections, Connection(c), ~Disconnect(c),
           \A op \in DOMAIN Arguments : ~Call(c, op)
    PROVE  SameCounts
<1>0. /\ EntriesOK /\ SessionOf[c] \in Sessions /\ Ent(c) \in EntryType
      /\ Ent(c) = entry[SessionOf[c]] /\ at \in [Connections -> Labels]
  BY SessionsOfConnections DEF IInv, EntriesOK, CallsOK, Ent
<1>1. \A S : \A l \in {"granted", "refused"} :
          /\ Signalled(S, l) = [d \in Connections |-> Signalled(S, l)[d]]
          /\ \A d \in Connections : Signalled(S, l)[d] = "away" <=> at[d] = "away"
  BY SignalledAway DEF Signalled
<1>2. \A d \in Connections : at'[d] = "away" <=> at[d] = "away"
  <2>1. CASE HandleNotify(c) \/ HandleUpload(c)
    BY <1>0, <2>1 DEF HandleNotify, HandleUpload, Return, Goto
  <2>2. CASE HandlePending(c)
    <3>1. PICK l \in {"idle", "waiting"} :
              \/ at' = [at EXCEPT ![c] = l]
              \/ at' = [Signalled({SessionOf[c]}, "refused") EXCEPT ![c] = l]
      BY <2>2 DEF HandlePending, Goto
    <3>2. at[c] # "away"
      BY <2>2 DEF HandlePending
    <3> QED BY <1>0, <1>1, <3>1, <3>2
  <2>3. CASE HandleEnforce(c)
    <3>1. \/ at' = [at EXCEPT ![c] = "idle"]
          \/ at' = [Signalled({SessionOf[c]}, "granted") EXCEPT ![c] = "idle"]
      BY <2>3 DEF HandleEnforce, Goto
    <3>2. at[c] # "away"
      BY <2>3 DEF HandleEnforce
    <3> QED BY <1>0, <1>1, <3>1, <3>2
  <2>4. CASE SubmitLook(c) \/ SubmitForward(c) \/ Commit(c)
    BY <1>0, <2>4 DEF SubmitLook, SubmitForward, Commit, Goto
  <2> QED BY <2>1, <2>2, <2>3, <2>4 DEF Connection
<1>3. PICK r : /\ entry' = entry \/ SetEntry(SessionOf[c], r)
               /\ r.known = Ent(c).known /\ r.refcount = Ent(c).refcount
  <2>1. CASE HandleNotify(c)
    BY <1>0, <2>1, OperatorsLeaveCounts DEF HandleNotify
  <2>2. CASE HandlePending(c)
    BY <1>0, <2>2, OperatorsLeaveCounts DEF HandlePending
  <2>3. CASE HandleUpload(c)
    BY <1>0, <2>3, OperatorsLeaveCounts DEF HandleUpload
  <2>4. CASE HandleEnforce(c)
    <3> DEFINE f == [Ent(c) EXCEPT !.force = TRUE]
    <3>1. f \in EntryType
      BY <1>0 DEF EntryType
    <3>2. f.known = Ent(c).known /\ f.refcount = Ent(c).refcount
      BY <1>0 DEF EntryType
    <3>3. SetEntry(SessionOf[c], f) \/ SetEntry(SessionOf[c], Answered(f))
      BY <2>4 DEF HandleEnforce
    <3> HIDE DEF f
    <3>4. Answered(f).known = f.known /\ Answered(f).refcount = f.refcount
      BY <3>1, OperatorsLeaveCounts
    <3> QED BY <3>2, <3>3, <3>4
  <2>5. CASE SubmitForward(c)
    BY <1>0, <2>5, OperatorsLeaveCounts DEF SubmitForward
  <2>6. CASE SubmitLook(c) \/ Commit(c)
    BY <2>6 DEF SubmitLook, Commit
  <2> QED BY <2>1, <2>2, <2>3, <2>4, <2>5, <2>6 DEF Connection
<1>4. expired' = expired
  BY DEF Connection, HandleNotify, HandlePending, HandleUpload, HandleEnforce, SubmitLook,
         SubmitForward, Commit
<1> QED BY <1>0, <1>2, <1>3, <1>4, OneEntryCounts DEF SameCounts

LEMMA AskLeavesCounts ==
    ASSUME IInv, NEW s \in Sessions, Ask(s), expired' = expired
    PROVE  SameCounts
<1>1. EntriesOK /\ entry[s] \in EntryType
  BY DEF IInv, EntriesOK
<1>2. CASE MayRequest(entry[s])
  <2>1. SetEntry(s, Answered(entry[s])) /\ at' = Signalled({s}, "granted")
    BY <1>2 DEF Ask
  <2>2. /\ Answered(entry[s]).known = entry[s].known
        /\ Answered(entry[s]).refcount = entry[s].refcount
    BY <1>1, OperatorsLeaveCounts
  <2> QED BY <1>1, <2>1, <2>2, OneEntryCounts, SignalledAway DEF SameCounts
<1>3. CASE ~MayRequest(entry[s])
  BY <1>3 DEF Ask, SameCounts
<1> QED BY <1>2, <1>3

LEMMA WorkerLeavesCounts == ASSUME IInv, Worker PROVE SameCounts
<1>0. EntriesOK /\ at \in [Connections -> Labels]
  BY DEF IInv, CallsOK
<1>1. ASSUME NEW s \in Sessions, RequestReinit(s) PROVE SameCounts
  BY <1>1, AskLeavesCounts DEF RequestReinit
<1>2. CASE GetRequests
  BY <1>2, AskLeavesCounts DEF GetRequests, IInv, WorkerOK
<1>3. CASE UseEnds \/ AdvanceNumber
  <2>1. job \in Sessions /\ entry[job] \in EntryType /\ at' = at /\ expired' = expired
    BY <1>0, <1>3 DEF IInv, WorkerOK, EntriesOK, UseEnds, AdvanceNumber
  <2>2. PICK r : /\ entry' = entry \/ SetEntry(job, r)
                 /\ r.known = entry[job].known /\ r.refcount = entry[job].refcount
    <3>1. CASE SetEntry(job, [entry[job] EXCEPT !.force = FALSE])
      BY <2>1, <3>1, OperatorsLeaveCounts
    <3>2. CASE SetEntry(job, Advanced(entry[job]))
      BY <2>1, <3>2, OperatorsLeaveCounts
    <3>3. CASE entry' = entry
      BY <3>3
    <3> QED BY <1>3, <3>1, <3>2, <3>3 DEF UseEnds, AdvanceNumber
  <2> QED BY <1>0, <2>1, <2>2, OneEntryCounts DEF SameCounts
<1>4. ASSUME UNCHANGED <<entry, at, expired>> PROVE SameCounts
  BY <1>4 DEF SameCounts
<1>5. ASSUME NEW c \in Connections, Retrieve(c) PROVE SameCounts
  BY <1>0, <1>5 DEF Retrieve, Goto, SameCounts
<1>6. CASE CheckValidity \/ Work
  <2>1. at' = at \/ (/\ pkg \in Connections /\ at[pkg] = "queued"
                     /\ at' = [at EXCEPT ![pkg] = "idle"])
    BY <1>6 DEF IInv, WorkerOK, CheckValidity, Work, Return, Goto
  <2>2. UNCHANGED <<entry, expired>>
    BY <1>6 DEF CheckValidity, Work
  <2> QED BY <1>0, <2>1, <2>2 DEF SameCounts
<1>7. (\E s \in Sessions : GetReinit(s, TRUE) \/ GetReinit(s, FALSE)) => SameCounts
  BY <1>4 DEF GetReinit
<1>8. GetLocks \/ WaitEnds \/ GetAwake \/ CheckDelay \/ GiveUp => SameCounts
  BY <1>4 DEF GetLocks, WaitEnds, GetAwake, CheckDelay, GiveUp
<1> QED BY <1>1, <1>2, <1>3, <1>5, <1>6, <1>7, <1>8 DEF Worker

(* A connection that calls for the first time is counted; a session that   *)
(* is gone under a connection that was counted begins anew.                *)
LEMMA CallCounts ==
    ASSUME IInv, RefcountCounts, NEW c \in Connections, NEW op \in DOMAIN Arguments,
           Call(c, op)
    PROVE  RefcountCounts'
<1> DEFINE s == SessionOf[c]
           e == entry[s]
           n == Cardinality(Connected(s))
<1>0. /\ s \in Sessions /\ EntriesOK /\ EntryOK(e) /\ e \in EntryType
      /\ at \in [Connections -> Labels] /\ expired' = expired
      /\ op # "away" /\ at' = [at EXCEPT ![c] = op]
      /\ SetEntry(s, EnsureRegistered(e, at[c] = "idle"))
  BY SessionsOfConnections DEF IInv, EntriesOK, CallsOK, Call, Goto, Ent, Arguments
<1>1. \A q : {d \in Connections : SessionOf[d] = q /\ at'[d] # "away"}
                = IF q = s THEN Connected(q) \union {c} ELSE Connected(q)
  BY <1>0 DEF Connected
<1>2. /\ n \in Nat /\ IsFiniteSet(Connected(s))
      /\ Cardinality(Connected(s) \union {c}) = IF at[c] = "away" THEN n + 1 ELSE n
      /\ at[c] # "away" => n > 0
  <2>1. n \in Nat /\ IsFiniteSet(Connected(s)) /\ (c \in Connected(s) <=> at[c] # "away")
    BY ConnectedFinite DEF Connected
  <2>2. at[c] # "away" => n # 0
    BY <2>1, FS_EmptySet
  <2>3. Cardinality(Connected(s) \union {c}) = IF c \in Connected(s) THEN n ELSE n + 1
    BY <2>1, FS_AddElement
  <2> HIDE DEF n
  <2> QED BY <2>1, <2>2, <2>3
<1>3. /\ e.known => e.refcount <= n
      /\ s \notin expired => e.refcount = n
      /\ ~e.known => e.refcount = 0
      /\ e.refcount \in Int
  BY <1>0 DEF RefcountCounts, EntryOK, IsForgotten, EntryType
<1>4. entry'[s].refcount =
          IF ~e.known THEN 1 ELSE IF at[c] = "idle" THEN e.refcount ELSE e.refcount + 1
  <2> DEFINE r == EnsureRegistered(e, at[c] = "idle")
  <2>1. r.refcount = IF ~e.known THEN 1
                     ELSE IF at[c] = "idle" THEN e.refcount ELSE e.refcount + 1
    BY <1>0 DEF EnsureRegistered, RegisterNew, EntryType
  <2>2. entry' = [entry EXCEPT ![s] = r]
    BY <1>0 DEF SetEntry
  <2> HIDE DEF r
  <2> QED BY <1>0, <2>1, <2>2 DEF EntriesOK
<1>5. at[c] \in {"away", "idle"}
  BY DEF Call
<1> HIDE DEF n
<1>6. /\ entry'[s].refcount <= Cardinality(Connected(s) \union {c})
      /\ s \notin expired => entry'[s].refcount = Cardinality(Connected(s) \union {c})
  <2>1. CASE at[c] = "away"
    BY <1>2, <1>3, <1>4, <2>1
  <2>2. CASE at[c] = "idle"
    BY <1>2, <1>3, <1>4, <2>2
  <2> QED BY <1>5, <2>1, <2>2
<1>7. \A q \in Sessions \ {s} : entry'[q] = entry[q]
  BY <1>0 DEF SetEntry, EntriesOK
<1>8. SUFFICES ASSUME NEW q \in Sessions
               PROVE  LET C == IF q = s THEN Connected(q) \union {c} ELSE Connected(q)
                      IN  /\ entry'[q].known => entry'[q].refcount <= Cardinality(C)
                          /\ q \notin expired => entry'[q].refcount = Cardinality(C)
  BY <1>0, <1>1 DEF RefcountCounts, Connected
<1> QED BY <1>6, <1>7, <1>8 DEF RefcountCounts

LEMMA DisconnectCounts ==
    ASSUME IInv, RefcountCounts, NEW c \in Connections, Disconnect(c)
    PROVE  RefcountCounts'
<1> DEFINE s == SessionOf[c]
           e == entry[s]
           n == Cardinality(Connected(s))
<1>0. /\ s \in Sessions /\ EntriesOK /\ EntryOK(e) /\ e \in EntryType
      /\ at \in [Connections -> Labels] /\ expired' = expired
      /\ at[c] # "away" /\ at' = [at EXCEPT ![c] = "away"]
      /\ SetEntry(s, Unreference(e))
  BY SessionsOfConnections DEF IInv, EntriesOK, CallsOK, Disconnect, Goto, Ent
<1>1. \A q : {d \in Connections : SessionOf[d] = q /\ at'[d] # "away"}
                = IF q = s THEN Connected(q) \ {c} ELSE Connected(q)
  BY <1>0 DEF Connected
<1>2. n \in Nat /\ n > 0 /\ Cardinality(Connected(s) \ {c}) = n - 1
  <2>1. n \in Nat /\ IsFiniteSet(Connected(s)) /\ c \in Connected(s)
    BY <1>0, ConnectedFinite DEF Connected
  <2>2. n # 0
    BY <2>1, FS_EmptySet
  <2>3. Cardinality(Connected(s) \ {c}) = n - 1
    BY <2>1, FS_RemoveElement
  <2> HIDE DEF n
  <2> QED BY <2>1, <2>2, <2>3
<1>3. /\ e.known => e.refcount <= n
      /\ s \notin expired => e.refcount = n
      /\ ~e.known => e.refcount = 0
      /\ e.refcount \in Int
  BY <1>0 DEF RefcountCounts, EntryOK, IsForgotten, EntryType
<1>4. entry'[s] = Unreference(e) /\ \A q \in Sessions \ {s} : entry'[q] = entry[q]
  BY <1>0 DEF SetEntry, EntriesOK
<1>5. CASE e.known
  <2>1. entry'[s].refcount = e.refcount - 1
    BY <1>0, <1>4, <1>5 DEF Unreference, EntryType
  <2> HIDE DEF n
  <2>2. /\ entry'[s].refcount <= Cardinality(Connected(s) \ {c})
        /\ s \notin expired => entry'[s].refcount = Cardinality(Connected(s) \ {c})
    BY <1>2, <1>3, <1>5, <2>1
  <2>3. SUFFICES ASSUME NEW q \in Sessions
                 PROVE  LET C == IF q = s THEN Connected(q) \ {c} ELSE Connected(q)
                        IN  /\ entry'[q].known => entry'[q].refcount <= Cardinality(C)
                            /\ q \notin expired => entry'[q].refcount = Cardinality(C)
    BY <1>0, <1>1 DEF RefcountCounts, Connected
  <2> QED BY <1>4, <2>2, <2>3 DEF RefcountCounts
<1>6. CASE ~e.known
  <2>1. entry'[s] = e /\ s \in expired
    BY <1>2, <1>3, <1>4, <1>6 DEF Unreference
  <2>2. SUFFICES ASSUME NEW q \in Sessions
                 PROVE  LET C == IF q = s THEN Connected(q) \ {c} ELSE Connected(q)
                        IN  /\ entry'[q].known => entry'[q].refcount <= Cardinality(C)
                            /\ q \notin expired => entry'[q].refcount = Cardinality(C)
    BY <1>0, <1>1 DEF RefcountCounts, Connected
  <2> QED BY <1>4, <1>6, <2>1, <2>2 DEF RefcountCounts
<1> QED BY <1>5, <1>6

LEMMA CleanupCounts ==
    ASSUME IInv, RefcountCounts, Cleanup
    PROVE  RefcountCounts'
<1>1. \A q : {d \in Connections : SessionOf[d] = q /\ at'[d] # "away"} = Connected(q)
  <2>1. \A d \in Connections : at'[d] = "away" <=> at[d] = "away"
    BY SignalledAway DEF Cleanup
  <2> QED BY <2>1 DEF Connected
<1>2. SUFFICES ASSUME NEW q \in Sessions
               PROVE  /\ entry'[q].known => entry'[q].refcount <= Cardinality(Connected(q))
                      /\ q \notin expired' => entry'[q].refcount = Cardinality(Connected(q))
  BY <1>1 DEF RefcountCounts, Connected
<1>3. CASE q \in Old
  <2>1. entry'[q] = Unknown
    BY <1>3 DEF Cleanup
  <2>2. Unknown.refcount = 0 /\ ~Unknown.known
    BY DEF Unknown
  <2>3. q \notin expired' => Connected(q) = {}
    BY <1>3 DEF Cleanup
  <2> QED BY <2>1, <2>2, <2>3, FS_EmptySet
<1>4. CASE q \notin Old
  BY <1>2, <1>4 DEF Cleanup, RefcountCounts
<1> QED BY <1>3, <1>4

LEMMA CountsStay == ASSUME IInv, RefcountCounts, [Next]_vars PROVE RefcountCounts'
<1>1. ASSUME NEW c \in Connections, Connection(c) PROVE RefcountCounts'
  BY <1>1, CallCounts, DisconnectCounts, HandlersLeaveCounts, SameCountsKeep
<1>2. CASE Worker
  BY <1>2, WorkerLeavesCounts, SameCountsKeep
<1>3. ASSUME NEW s \in Sessions, TimePasses(s) PROVE RefcountCounts'
  <2>1. /\ SetEntry(s, [entry[s] EXCEPT !.age = @ + 1]) /\ at' = at /\ expired' = expired
        /\ EntriesOK /\ entry[s] \in EntryType
    BY <1>3 DEF TimePasses, IInv, EntriesOK
  <2>2. /\ [entry[s] EXCEPT !.age = @ + 1].known = entry[s].known
        /\ [entry[s] EXCEPT !.age = @ + 1].refcount = entry[s].refcount
    BY <2>1, OperatorsLeaveCounts
  <2>3. SameCounts
    BY <2>1, <2>2, OneEntryCounts DEF SameCounts
  <2> QED BY <2>3, SameCountsKeep
<1>4. CASE Cleanup
  BY <1>4, CleanupCounts
<1>5. CASE UNCHANGED vars
  <2>1. SameCounts
    BY <1>5 DEF vars, SameCounts
  <2> QED BY <2>1, SameCountsKeep
<1> QED BY <1>1, <1>2, <1>3, <1>4, <1>5 DEF Next

-----------------------------------------------------------------------------
(* The theorems *)

THEOREM Inductive == Spec => []IInv
<1>1. Init => IInv
  BY InitHolds
<1>2. IInv /\ [Next]_vars => IInv'
  BY NextKeeps
<1> QED BY <1>1, <1>2, PTL DEF Spec

(* The maps, the calls and the worker thread are in step whatever happens. *)
THEOREM TypeCorrect == Spec => []TypeOK
<1>1. IInv => TypeOK
  BY DEF IInv, EntriesOK, EntryOK, CallsOK, WorkerOK, TypeOK
<1> QED BY <1>1, Inductive, PTL

(* reinit_get_mutable() hands out the data of the id notified last         *)
(* (session-storage.tcc:56-116).                                           *)
THEOREM DataAlwaysBelong == Spec => []DataBelongToId
<1>1. IInv => DataBelongToId
  BY DEF IInv, EntriesOK, EntryOK, DataBelongToId
<1> QED BY <1>1, Inductive, PTL

(* No client waits in reinit_pending for an answer that nobody can give    *)
(* (session-storage.tcc:85-87, 118-138, 498-511).                          *)
THEOREM OpenCallsAlwaysDeferred == Spec => []OpenCallsAreDeferred
<1>1. IInv => OpenCallsAreDeferred
  BY DEF IInv
<1> QED BY <1>1, Inductive, PTL

(* The worker never sleeps without a deadline on data that are there       *)
(* (session-storage.tcc:289-305).                                          *)
THEOREM NoUploadMissed == Spec => []NoMissedUpload
<1>1. IInv => NoMissedUpload
  BY DEF IInv
<1> QED BY <1>1, Inductive, PTL

(* A session's reference count is the number of its connections, as long   *)
(* as it does not expire under them (session-storage.tcc:140-185).         *)
THEOREM RefcountAlwaysCounts == Spec => []RefcountCounts
<1>1. Init => RefcountCounts
  <2> SUFFICES ASSUME Init PROVE RefcountCounts
    OBVIOUS
  <2>1. \A s : Connected(s) = {}
    BY DEF Init, Connected
  <2>2. Unknown.refcount = 0
    BY DEF Unknown
  <2> QED BY <2>1, <2>2, FS_EmptySet DEF Init, RefcountCounts
<1>2. IInv /\ RefcountCounts /\ [Next]_vars => RefcountCounts'
  BY CountsStay
<1> QED BY <1>1, <1>2, Inductive, PTL DEF Spec
=============================================================================
