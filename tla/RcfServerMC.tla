----------------------------- MODULE RcfServerMC -----------------------------
(* Instances of the server's parts of RCF for TLC: its thread pool, its    *)
(* connections, a session, and a publisher.  Each is checked against its   *)
(* own threads and peers while the others are at rest: what it needs of    *)
(* another is among its own actions, as of the pool that its threads run   *)
(* handlers whenever there are any, and of the io service that it accepts  *)
(* a connection, or loses one.                                             *)
EXTENDS ThreadPool, Sequences

CONSTANTS
    Sessions, Clients, initialNumberOfConnections, connectionLimit, MaxStarts, MayHold, Others,
    Waiters, None, IoThreads,                                           \* connections
    Workers, Calls, MaxPings, PeerMayClose, IdleTimeout, MayStall,      \* a session
    Subscribers, Limit, MaxMessages                                     \* a publisher

VARIABLES
    \* ServerTransport
    phase, socket, mSessions, job, tpc, knocking, server, todo, visited, starts,
    \* ServerSession
    sent, inbox, consumed, received, peerGone, open, state, zeroByte, readLeft, writeLeft, writeBuf,
    reading, writing, closing, lastError, request, autoSend, inProgress, stale, mutex, pinging, queued,
    entry, contexts, twice, spc, msg, heap, clock, expired, reaper,
    \* Publisher
    session, silent, publishing, mAddedClientTransports, mClientTransports, send, handler, pings,
    published, due, got,
    part        \* the part that runs

T == INSTANCE ServerTransport WITH Threads <- IoThreads, pc <- tpc, owner <- server
N == INSTANCE ServerSession WITH pc <- spc
P == INSTANCE Publisher WITH MaxPings <- MaxPings - 1, open <- publishing, received <- got

ASSUME PartsAssumption == T!TransportAssumption /\ N!SessionAssumption /\ P!PublisherAssumption

transportVars == <<phase, socket, mSessions, job, tpc, knocking, server, todo, visited, starts>>
sessionVars == <<
    sent, inbox, consumed, received, peerGone, open, state, zeroByte, readLeft, writeLeft, writeBuf,
    reading, writing, closing, lastError, request, autoSend, inProgress, stale, mutex, pinging, queued,
    entry, contexts, twice, spc, msg, heap, clock, expired, reaper>>
publisherVars == <<session, silent, publishing, mAddedClientTransports, mClientTransports, send, handler,
    pings, published, due, got>>
allVars == <<vars, transportVars, sessionVars, publisherVars, part>>

Pool(Step) == part = "pool" /\ Step /\ UNCHANGED <<transportVars, sessionVars, publisherVars, part>>
Transport(Step) == part = "transport" /\ Step /\ UNCHANGED <<vars, sessionVars, publisherVars, part>>
Session(Step) == part = "session" /\ Step /\ UNCHANGED <<vars, transportVars, publisherVars, part>>
Publishing(Step) == part = "publisher" /\ Step /\ UNCHANGED <<vars, transportVars, sessionVars, part>>

(* A part at rest is in one of its initial states. *)
ServerInit ==
    /\ Init /\ T!Init /\ N!Init /\ P!Init
    /\ part \in {"pool", "transport", "session", "publisher"}
    /\ part # "pool" => threads = CHOOSE some \in SUBSET Threads : Cardinality(some) = MinCount

(* Bounds: until its last call the session may be idle for too long and    *)
(* the client may go away.                                                 *)
SessionNext ==
    /\ N!Next
    /\ stale' => Len(sent') < MaxCalls
    /\ N!ClientCloses => Len(sent) < MaxCalls

ServerNext == Pool(Next) \/ Transport(T!Next) \/ Session(SessionNext) \/ Publishing(P!Next)

(* The fairness of each part; what is asked of different parts is asked    *)
(* together, as only one of them runs in a behaviour.                      *)
ServerFairness ==
    /\ \A t \in IoThreads : WF_allVars(Session(N!Run(t)) \/ Transport(T!Check(t)))
    /\ \A w \in Workers : WF_allVars(Session(N!Run(w)))
    /\ WF_allVars(Session(N!Ping) \/ Transport(T!Stopping))
    /\ \A s \in Sessions : WF_allVars(Transport(T!Destroy(s)))

ServerSpec == ServerInit /\ [][ServerNext]_allVars /\ ServerFairness

A(form, fate, async, oneway, ping) ==
    [form |-> form, fate |-> fate, async |-> async, oneway |-> oneway, ping |-> ping]

(* Requests of every form, with every fate, some oneway, one with pings *)
SomeCalls ==
    {A("fine", "returns", FALSE, FALSE, FALSE), A("fine", "returns", TRUE, FALSE, TRUE),
     A("fine", "throws", FALSE, TRUE, FALSE), A("fine", "other", FALSE, TRUE, FALSE),
     A("fine", "other", TRUE, FALSE, FALSE), A("newer", "returns", FALSE, FALSE, FALSE),
     A("long", "returns", FALSE, FALSE, FALSE), A("close", "returns", FALSE, TRUE, FALSE)}

LimitKept == T!LimitKept
SessionsEnd == T!SessionsEnd
AnswersInOrder == N!AnswersInOrder
OneOperation == N!OneOperation
CallsAreAnswered == N!CallsAreAnswered
KeptGotAll == P!KeptGotAll
=============================================================================
