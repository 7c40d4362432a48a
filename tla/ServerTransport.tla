-------------------------- MODULE ServerTransport ---------------------------
(***************************************************************************)
(* The connections of an RCF server, and its start and stop: RcfServer     *)
(* starts and stops its services, TcpServerTransport listens, and          *)
(* AsioServerTransport accepts connections up to a limit and closes them.  *)
(*                                                                         *)
(* A network session lives as long as somebody refers to it: the io        *)
(* service (an accept or a read), the thread that runs its handler, a      *)
(* RemoteCallContext kept by the application, or cancelOutstandingIo().    *)
(***************************************************************************)
EXTENDS Naturals, FiniteSets

CONSTANTS
    Threads,        \* the server's thread pool
    Sessions,       \* bound: sessions there are at a time
    Clients,        \* how many clients there are
    initialNumberOfConnections,
    connectionLimit,  \* none if 0
    MaxStarts,      \* bound: how often the server is started
    MayHold,        \* calls may be answered asynchronously
    Others,         \* threads of the application
    Waiters,        \* threads that may call waitForStopEvent()
    None            \* no thread, no session

TransportAssumption ==
    /\ IsFiniteSet(Sessions)
    /\ Clients \in Nat /\ connectionLimit \in Nat /\ MaxStarts \in Nat
    /\ initialNumberOfConnections \in 1..Cardinality(Sessions)
    /\ None \notin Threads \union Sessions
    /\ Waiters \subseteq Threads \union Others /\ Threads \intersect Others = {}

VARIABLES
    phase,      \* what the io service or the application has of each session
    socket,     \* sessions that have a socket
    mSessions,  \* sessions that are registered
    job,        \* the session whose handler a thread runs
    pc,         \* what each thread does
    knocking,   \* clients that connect
    owner,      \* where start() or stop() is
    todo,       \* sessions cancelOutstandingIo() has still to visit
    visited,    \* the one it refers to
    starts

vars == <<phase, socket, mSessions, job, pc, knocking, owner, todo, visited, starts>>

(* Phases: "none", "accepting", "reading" in the io service, "held" by the *)
(* application, "busy" for the thread only, "dying" in its destructor.     *)
In(p) == {s \in Sessions : phase[s] = p}

Established == {s \in socket : phase[s] \in {"reading", "held"}}

(* mSessionsMutex is free *)
Unlocked == owner # "cancelling"

(* The application gives up its reference to s: the destructor runs unless *)
(* cancelOutstandingIo() has one.                                          *)
Dropped(s) == IF visited = s THEN "visited" ELSE "dying"

-----------------------------------------------------------------------------
(* RcfServer::start(): the port is opened, and accepts begin.              *)
Start ==
    /\ owner = "stopped" /\ starts < MaxStarts
    /\ Cardinality(In("none")) >= initialNumberOfConnections
    /\ \E new \in SUBSET In("none") :
           /\ Cardinality(new) = initialNumberOfConnections
           /\ phase' = [s \in Sessions |-> IF s \in new THEN "accepting" ELSE phase[s]]
           /\ mSessions' = mSessions \union new /\ socket' = socket \union new
    /\ owner' = "started" /\ starts' = starts + 1
    /\ UNCHANGED <<job, pc, knocking, todo, visited>>

(* RcfServer::stop(): the threads of the services are stopped first. *)
Stop ==
    /\ owner = "started" /\ owner' = "joining"
    /\ UNCHANGED <<phase, socket, mSessions, job, pc, knocking, todo, visited, starts>>

(* Then the transport is closed: no acceptor any more, and                 *)
(* cancelOutstandingIo() takes mSessionsMutex.                             *)
Close ==
    /\ owner = "joining" /\ \A t \in Threads : pc[t] = "idle"
    /\ owner' = "cancelling" /\ todo' = mSessions
    /\ UNCHANGED <<phase, socket, mSessions, job, pc, knocking, visited, starts>>

(* The next session, unless it is being destroyed. *)
Visit ==
    /\ owner = "cancelling" /\ visited = None
    /\ \E s \in todo :
           /\ todo' = todo \ {s}
           /\ visited' = IF phase[s] = "dying" THEN None ELSE s
    /\ UNCHANGED <<phase, socket, mSessions, job, pc, knocking, owner, starts>>

(* Its socket is closed ... *)
CloseSocket ==
    /\ visited \in socket
    /\ socket' = socket \ {visited}
    /\ UNCHANGED <<phase, mSessions, job, pc, knocking, owner, todo, visited, starts>>

(* ... and the reference given up.  If it was the last one the destructor  *)
(* wants mSessionsMutex, which this thread has.                            *)
Leave ==
    /\ visited # None /\ visited \notin socket
    /\ visited' = None
    /\ IF phase[visited] = "visited"
         THEN phase' = [phase EXCEPT ![visited] = "dying"] /\ owner' = "deadlock"
         ELSE UNCHANGED <<phase, owner>>
    /\ UNCHANGED <<socket, mSessions, job, pc, knocking, todo, starts>>

(* Mutant: the io service is kept. *)
ResetNothing ==
    /\ owner = "cancelling" /\ todo = {} /\ visited = None
    /\ owner' = "stopped" /\ knocking' = 0
    /\ UNCHANGED <<phase, socket, mSessions, job, pc, todo, visited, starts>>

(* resetMuxers(): the io service goes, with the handlers it has; clients   *)
(* that were not accepted are refused by the system.  Then those who wait  *)
(* for stop() are notified.                                                *)
ResetMuxers ==
    /\ owner = "cancelling" /\ todo = {} /\ visited = None
    /\ phase' = [s \in Sessions |-> IF phase[s] \in {"accepting", "reading"} THEN "dying" ELSE phase[s]]
    /\ owner' = "stopped" /\ knocking' = 0
    /\ pc' = [t \in DOMAIN pc |-> IF pc[t] = "waiting" THEN "idle" ELSE pc[t]]
    /\ UNCHANGED <<socket, mSessions, job, todo, visited, starts>>

-----------------------------------------------------------------------------
(* onAcceptCompleted(): another session is made and accepts. *)
Accept(t) ==
    /\ owner = "started" /\ pc[t] = "idle" /\ knocking > 0
    /\ \E s \in In("accepting"), new \in In("none") :
           /\ phase' = [phase EXCEPT ![s] = "busy", ![new] = "accepting"]
           /\ mSessions' = mSessions \union {new} /\ socket' = socket \union {new}
           /\ job' = [job EXCEPT ![t] = s]
    /\ knocking' = knocking - 1
    /\ pc' = [pc EXCEPT ![t] = "accepted"]
    /\ UNCHANGED <<owner, todo, visited, starts>>

(* Mutant: the session itself is not counted. *)
LimitAllowsOneMore == connectionLimit = 0 \/ Cardinality(mSessions) < 1 + 1 + connectionLimit + 1

LimitAllows == connectionLimit = 0 \/ Cardinality(mSessions) < 1 + 1 + connectionLimit

(* The limit is checked under mSessionsMutex: the first read is posted, or *)
(* the error, after which the session is closed.                           *)
Check(t) ==
    /\ pc[t] = "accepted" /\ Unlocked
    /\ IF LimitAllows
         THEN phase' = [phase EXCEPT ![job[t]] = "reading"] /\ UNCHANGED socket
         ELSE phase' = [phase EXCEPT ![job[t]] = "dying"] /\ socket' = socket \ {job[t]}
    /\ pc' = [pc EXCEPT ![t] = "idle"] /\ job' = [job EXCEPT ![t] = None]
    /\ UNCHANGED <<mSessions, knocking, owner, todo, visited, starts>>

(* A call: its servant keeps it in a RemoteCallContext. *)
Call(t) ==
    /\ MayHold /\ owner = "started" /\ pc[t] = "idle"
    /\ \E s \in Established \ In("held") : phase' = [phase EXCEPT ![s] = "held"]
    /\ UNCHANGED <<socket, mSessions, job, pc, knocking, owner, todo, visited, starts>>

(* waitForStopEvent(): a thread of the pool calls it from a servant.       *)
WaitForStop(t) ==
    /\ owner = "started" /\ pc[t] = "idle"
    /\ t \in Threads => Established # {}
    /\ pc' = [pc EXCEPT ![t] = "waiting"]
    /\ UNCHANGED <<phase, socket, mSessions, job, knocking, owner, todo, visited, starts>>

(* The client goes away, which the read tells a thread of. *)
PeerCloses(t) ==
    /\ owner = "started" /\ pc[t] = "idle"
    /\ \E s \in In("reading") :
           phase' = [phase EXCEPT ![s] = "dying"] /\ socket' = socket \ {s}
    /\ UNCHANGED <<mSessions, job, pc, knocking, owner, todo, visited, starts>>

(* The application commits its context, or drops it: with a socket, and an *)
(* io service, the response and then the next read refer to the session.   *)
Commit(s) ==
    /\ phase[s] = "held"
    /\ \/ /\ s \in socket /\ owner # "stopped"
          /\ phase' = [phase EXCEPT ![s] = "reading"]
       \/ phase' = [phase EXCEPT ![s] = Dropped(s)]
    /\ UNCHANGED <<socket, mSessions, job, pc, knocking, owner, todo, visited, starts>>

(* The destructor of a session unregisters it, under mSessionsMutex. *)
Destroy(s) ==
    /\ phase[s] = "dying" /\ Unlocked /\ owner # "deadlock"
    /\ mSessions' = mSessions \ {s}
    /\ phase' = [phase EXCEPT ![s] = "none"] /\ socket' = socket \ {s}
    /\ UNCHANGED <<job, pc, knocking, owner, todo, visited, starts>>

(* A client connects; the backlog takes it while the port is open. *)
Connect ==
    /\ owner \in {"started", "joining"}
    /\ knocking + Cardinality(Established \union In("busy")) < Clients
    /\ knocking' = knocking + 1
    /\ UNCHANGED <<phase, socket, mSessions, job, pc, owner, todo, visited, starts>>
-----------------------------------------------------------------------------
Init ==
    /\ phase = [s \in Sessions |-> "none"] /\ socket = {} /\ mSessions = {}
    /\ job = [t \in Threads |-> None] /\ pc = [t \in Threads \union Others |-> "idle"]
    /\ knocking = 0 /\ owner = "stopped" /\ todo = {} /\ visited = None /\ starts = 0

Stopping == Close \/ Visit \/ CloseSocket \/ Leave \/ ResetMuxers

Next ==
    \/ Start \/ Stop \/ Stopping
    \/ \E t \in Threads : Accept(t) \/ Check(t) \/ Call(t) \/ PeerCloses(t)
    \/ \E t \in Waiters : WaitForStop(t)
    \/ \E s \in Sessions : Commit(s) \/ Destroy(s)
    \/ Connect

Spec == Init /\ [][Next]_vars

(* Threads run their handlers to the end, and stop() goes on. *)
FairSpec ==
    /\ Spec /\ WF_vars(Stopping)
    /\ \A t \in Threads : WF_vars(Check(t))
    /\ \A s \in Sessions : WF_vars(Destroy(s))

-----------------------------------------------------------------------------
(* Properties *)

(* ServerTransport.hpp:144: "Sets the maximum number of simultaneous       *)
(* connections to the server transport."  It is kept, however many         *)
(* connections are accepted at a time.                                     *)
LimitKept == connectionLimit = 0 \/ Cardinality(Established) <= connectionLimit

(* Once the server has stopped, the sessions the application does not keep *)
(* are destroyed (AsioServerTransport.cpp:1111-1127, RcfServer.cpp:429).   *)
SessionsEnd == owner = "stopped" ~> (Sessions = In("none") \union In("held") \/ owner # "stopped")
=============================================================================
