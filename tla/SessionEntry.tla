---------------------------- MODULE SessionEntry ----------------------------
(***************************************************************************)
(* What the maps of SessionStorage hold for one session, and what the      *)
(* regions under its mutex do to it (session-storage.tcc).  An entry is a  *)
(* record with a field per map:                                            *)
(*   known, refcount          m_session_to_refcount                        *)
(*   age                      how long ago refcount was touched:           *)
(*                            0 recently, 1 over 5 min, 2 over 30 min      *)
(*   seq                      m_session_to_sequence_num                    *)
(*   notified, pending, stored   m_session_to_reinit_id_*                  *)
(*   data                     what m_session_to_reinit_data holds          *)
(*   force                    m_session_reinit_force                       *)
(*   deferred                 whose call m_session_to_deferred keeps open  *)
(***************************************************************************)
EXTENDS Integers

CONSTANTS
    NoId,           \* no entry in a map of ids, and no data
    NoConnection    \* no deferred call

(* m_session_to_sequence_num has no entry. *)
Absent == -2

(* A SequenceNumber without a number, which marks packages out of order. *)
NoNumber == -1

(* No map has an entry. *)
Unknown ==
    [known |-> FALSE, refcount |-> 0, age |-> 0, seq |-> Absent, notified |-> NoId,
     pending |-> NoId, stored |-> NoId, data |-> NoId, force |-> FALSE,
     deferred |-> NoConnection]

-----------------------------------------------------------------------------
(* References *)

(* register_new_session_while_locked(); insert() leaves an entry alone. *)
RegisterNew(e) ==
    [e EXCEPT !.known = TRUE, !.refcount = 1, !.age = 0,
              !.seq = IF @ = Absent THEN 0 ELSE @]

(* Mutant: every call counts as a new connection. *)
EnsureRegisteredAgain(e, tracked) ==
    IF e.known THEN [e EXCEPT !.refcount = @ + 1, !.age = 0] ELSE RegisterNew(e)

(* ensure_registered(); a connection that is tracked has been counted. *)
EnsureRegistered(e, tracked) ==
    IF ~e.known THEN RegisterNew(e)
    ELSE [e EXCEPT !.refcount = IF tracked THEN @ ELSE @ + 1, !.age = 0]

(* The callback for the end of a connection *)
Unreference(e) == IF e.known THEN [e EXCEPT !.refcount = @ - 1, !.age = 0] ELSE e

IsActive(e) == e.known /\ e.refcount > 0

(* What the cleanup erases *)
IsOld(e) == e.known /\ ((e.refcount = 0 /\ e.age >= 1) \/ e.age = 2)

-----------------------------------------------------------------------------
(* Reinit data *)

IsPending(e) == e.notified # NoId /\ e.notified = e.pending /\ e.stored # e.pending

IsUpToDate(e) ==
    e.notified # NoId /\ e.notified = e.pending /\ e.pending = e.stored /\ e.data # NoId

IsRequested(e) ==
    e.notified # NoId /\ e.notified = e.pending /\ e.deferred = NoConnection

(* reinit_request() asks for the upload. *)
MayRequest(e) == IsActive(e) /\ ~IsUpToDate(e) /\ IsPending(e) /\ ~IsRequested(e)

(* Mutant: the data of the previous id stay. *)
NotifiedKeepData(e, id) == [e EXCEPT !.notified = id]

(* reinit_handle_notify() *)
Notified(e, id) ==
    IF e.notified = id THEN e ELSE [e EXCEPT !.notified = id, !.data = NoId]

(* reinit_handle_pending() of the id notified, called by connection c *)
Pended(e, id, c) == [e EXCEPT !.pending = id, !.deferred = c]

(* reinit_store() accepts data for this id. *)
IsExpected(e, id) == e.notified = e.pending /\ e.pending = id

(* reinit_store() *)
Stored(e, id, data) ==
    IF IsExpected(e, id) THEN [e EXCEPT !.stored = id, !.data = data] ELSE e

(* The deferred call is answered and forgotten. *)
Answered(e) == [e EXCEPT !.deferred = NoConnection]

-----------------------------------------------------------------------------
(* Sequence numbers *)

(* operator< of SequenceNumber: nothing is less without a number. *)
Less(a, b) == a # NoNumber /\ b # NoNumber /\ a < b

(* sequence_num_next() of a session that is not known creates a            *)
(* SequenceNumber without a number; incrementing it is undefined and       *)
(* leaves it without one.                                                  *)
Advanced(e) == [e EXCEPT !.seq = IF @ \in {Absent, NoNumber} THEN NoNumber ELSE @ + 1]
=============================================================================
