--------------------------- MODULE ServerSession ----------------------------
(***************************************************************************)
(* One connection of an RCF server: AsioNetworkSession, which frames       *)
(* messages and has at most one operation on the socket; RcfSession, which *)
(* dispatches a call and sends its response; RemoteCallContext, with which *)
(* another thread answers later; PingBackService, which sends messages     *)
(* while a call is made; and SessionTimeoutService, which closes           *)
(* connections that are idle.                                              *)
(*                                                                         *)
(* A handler runs in steps where it meets other threads.  A region under   *)
(* mIoStateMutex is one step.                                              *)
(***************************************************************************)
EXTENDS Naturals, Sequences

CONSTANTS
    IoThreads,      \* threads of the server's pool
    Workers,        \* threads that answer asynchronous calls
    Calls,          \* calls the client may make
    MaxCalls,       \* bound: calls on this connection
    MaxPings,       \* bound: no ping after so many entries in the timer heap
    PeerMayClose,   \* the client may go away at any time
    IdleTimeout,    \* a connection idle timeout is set
    MayStall,       \* a thread may stand still for as long as a ping interval
    None            \* no thread, no message

HeaderLength == 2   \* pieces of the length prefix (4 bytes)
BodyLength   == 2   \* pieces of a request
WriteLength  == 2   \* pieces of a response

(* What a call is: how its message looks, how the servant ends (it may     *)
(* throw a std::exception, or something else), whether it leaves the       *)
(* answer to another thread, whether the client wants a response and       *)
(* whether it wants to be pinged meanwhile.                                *)
Call == [form : {"fine", "long", "newer", "close"}, fate : {"returns", "throws", "other"},
         async : BOOLEAN, oneway : BOOLEAN, ping : BOOLEAN]

(* What the server sends, for which request *)
Message == [type : {"response", "error", "ping"}, of : Nat]

SessionAssumption ==
    /\ Calls \subseteq Call
    /\ MaxCalls \in Nat /\ MaxPings \in Nat
    /\ IoThreads \intersect Workers = {}
    /\ None \notin IoThreads \union Workers \union Nat \union Message

VARIABLES
    \* the client and the connection
    sent,       \* the calls the client has made
    inbox,      \* those the server has not read, and ...
    consumed,   \* ... how many pieces of the first it has read
    received,   \* messages the client has got
    peerGone,   \* the client has closed the connection
    \* AsioNetworkSession
    open,       \* mSocketPtr
    state,      \* mState
    zeroByte,   \* mIssueZeroByteRead
    readLeft,   \* mReadBufferRemaining
    writeLeft,  \* mWriteBufferRemaining
    writeBuf,   \* mWriteByteBuffers
    reading,    \* how many reads are under way in the io service
    writing,    \* and writes
    closing,    \* mCloseAfterWrite
    lastError,  \* mLastError
    \* RcfSession
    request,    \* mRequest
    autoSend,   \* mAutoSend
    inProgress, \* mCallInProgress
    stale,      \* mTouchTimestamp lies back more than the timeout
    mutex,      \* the thread that has mStopCallInProgressMutex
    pinging,    \* mWritingPingBack
    queued,     \* mQueuedSendBuffers
    entry,      \* mPingBackTimerEntry
    contexts,   \* RemoteCallContexts nobody has committed
    twice,      \* history: a call was answered here and is by its context
    \* threads
    pc, 
    msg,        \* the response a thread is sending
    \* services
    heap,       \* times in the timer heap
    clock,      \* the last time put into it
    expired,    \* the entry the ping back thread has found
    reaper      \* where onTimer() of the timeout service is

client  == <<sent, received, peerGone>>
channel == <<inbox, consumed>>
reads   == <<zeroByte, readLeft, reading>>
writes  == <<writeLeft, writeBuf, writing>>
net     == <<state, reads, writes, closing, lastError>>
call    == <<request, autoSend, contexts, twice>>
idling  == <<inProgress, stale>>
pings   == <<entry, heap, clock>>
sending == <<pinging, queued>>
vars == <<client, channel, open, net, call, idling, mutex, pings, sending, pc, msg, expired, reaper>>

AllThreads == IoThreads \union Workers

Current == sent[request]
Response(type) == [type |-> type, of |-> request]
Answers(i) == {k \in DOMAIN received : received[k].type # "ping" /\ received[k].of = i}
WantsAnswer(c) == ~(c.oneway /\ c.form # "long") /\ c.form # "close"

(* ... or it is answered although it does not want to be *)
IsAnswered(c) == WantsAnswer(c) \/ (c.form = "fine" /\ c.fate = "other")

Goto(t, label) == pc' = [pc EXCEPT ![t] = label]

-----------------------------------------------------------------------------
(* AsioNetworkSession: reads and writes.  n is the number of operations    *)
(* under way but for the one that has just completed.                      *)

BeginRead(n) == reading' = IF closing \/ ~open THEN n ELSE n + 1

PostRead(n) ==
    IF lastError
      THEN reading' = n /\ UNCHANGED <<state, zeroByte, readLeft>>
      ELSE BeginRead(n) /\ state' = "header" /\ zeroByte' = TRUE /\ readLeft' = 0

BeginWrite(n) == writing' = IF open THEN n + 1 ELSE n

PostWrite(m, n) ==
    IF lastError
      THEN writing' = n /\ UNCHANGED <<state, writeLeft, writeBuf>>
      ELSE BeginWrite(n) /\ state' = "writing" /\ writeLeft' = WriteLength /\ writeBuf' = m

(* Pieces of requests that have arrived and have not been read. *)
Arrived == Len(inbox) * (HeaderLength + BodyLength) - consumed

(* A read finds nothing to be wrong: the empty one that waits for a        *)
(* request, one that leaves something to read, the length, the request.    *)
ReadsNothing ==
    /\ zeroByte /\ Arrived > 0
    /\ zeroByte' = FALSE /\ readLeft' = HeaderLength /\ BeginRead(reading - 1)
    /\ UNCHANGED <<channel, state, writes, closing, pc>>

ReadsSome ==
    /\ ~zeroByte
    /\ \E n \in 1..(readLeft - 1) :
           /\ n <= Arrived
           /\ readLeft' = readLeft - n /\ consumed' = consumed + n
    /\ BeginRead(reading - 1)
    /\ UNCHANGED <<inbox, state, zeroByte, writes, closing, pc>>

ReadsHeader ==
    /\ ~zeroByte /\ state = "header" /\ readLeft <= Arrived
    /\ consumed' = consumed + readLeft
    /\ IF sent[inbox[1]].form = "long"
         THEN \* sendServerError()
              /\ closing' = TRUE
              /\ PostWrite([type |-> "error", of |-> inbox[1]], writing)
              /\ reading' = reading - 1 /\ readLeft' = 0
         ELSE /\ state' = "body" /\ readLeft' = BodyLength /\ BeginRead(reading - 1)
              /\ UNCHANGED <<writes, closing>>
    /\ UNCHANGED <<inbox, zeroByte, pc>>

ReadsBody(t) ==
    /\ ~zeroByte /\ state = "body" /\ readLeft <= Arrived
    /\ consumed' = 0 /\ inbox' = Tail(inbox)
    /\ state' = "ready" /\ readLeft' = 0 /\ reading' = reading - 1
    /\ Goto(t, "read")
    /\ UNCHANGED <<zeroByte, writes, closing>>

(* onNetworkReadCompleted().  What two operations at a time do to the      *)
(* buffers of each other is not defined, and not followed.                 *)
ReadCompletes(t) ==
    /\ t \in IoThreads /\ pc[t] = "idle" /\ reading > 0 /\ open
    /\ reading + writing = 1
    /\ ReadsNothing \/ ReadsSome \/ ReadsHeader \/ ReadsBody(t)
    /\ lastError' = FALSE
    /\ UNCHANGED <<client, open, call, idling, mutex, pings, sending, msg, expired, reaper>>

(* An operation fails: nothing is done until the session is released.      *)
Fails(t) ==
    /\ t \in IoThreads /\ pc[t] = "idle" /\ (~open \/ peerGone)
    /\ \/ reading > 0 /\ reading' = reading - 1 /\ UNCHANGED writing
       \/ writing > 0 /\ writing' = writing - 1 /\ UNCHANGED reading
    /\ lastError' = TRUE
    /\ UNCHANGED <<client, channel, open, state, zeroByte, readLeft, writeLeft, writeBuf, closing, call, idling, mutex,
                   pings, sending, pc, msg, expired, reaper>>

(* onNetworkWriteCompleted(), which may leave something to write.  At the  *)
(* end the message has been sent; after an error the socket is shut down.  *)
WriteCompletes(t) ==
    /\ t \in IoThreads /\ pc[t] = "idle" /\ writing > 0 /\ open /\ ~peerGone
    /\ reading + writing = 1
    /\ lastError' = FALSE
    /\ \/ /\ \E n \in 1..(writeLeft - 1) : writeLeft' = writeLeft - n
          /\ BeginWrite(writing - 1)
          /\ UNCHANGED <<received, peerGone, state, pc>>
       \/ /\ writeLeft' = 0 /\ writing' = writing - 1
          /\ received' = Append(received, writeBuf)
          /\ IF closing THEN peerGone' = TRUE /\ UNCHANGED <<state, pc>>
                        ELSE state' = "ready" /\ Goto(t, "written") /\ UNCHANGED peerGone
    /\ UNCHANGED <<sent, channel, open, reads, writeBuf, closing, call, idling, mutex, pings, sending, msg, expired, reaper>>

-----------------------------------------------------------------------------
(* RcfSession: a request *)

(* onReadCompleted(): the mutex is held until the handler returns. *)
Enter(t) ==
    /\ pc[t] = "read" /\ mutex = None
    /\ mutex' = t /\ Goto(t, "request")
    /\ request' = request + 1
    /\ UNCHANGED <<client, channel, open, net, autoSend, contexts, twice, idling, pings, sending, msg, expired, reaper>>

(* A client that is newer is told our version; one that says so is closed; *)
(* else callServant() begins.                                              *)
Decode(t) ==
    /\ pc[t] = "request"
    /\ \/ /\ Current.form = "newer"
          /\ IF Current.oneway THEN Goto(t, "written") /\ UNCHANGED <<state, writes>>
                               ELSE Goto(t, "leave") /\ PostWrite(Response("error"), writing)
          /\ UNCHANGED <<open, autoSend, idling>>
       \/ /\ Current.form = "close"
          /\ open' = FALSE /\ Goto(t, "leave")
          /\ UNCHANGED <<state, writes, autoSend, idling>>
       \/ /\ Current.form = "fine"
          /\ autoSend' = TRUE
          /\ inProgress' = TRUE /\ stale' = FALSE
          /\ Goto(t, IF Current.ping /\ ~Current.oneway THEN "register" ELSE "servant")
          /\ UNCHANGED <<open, state, writes>>
    /\ UNCHANGED <<client, channel, reads, closing, lastError, request, contexts, twice, mutex, pings, sending, msg, expired, reaper>>

(* registerForPingBacks(): the entry is put into the heap first ... *)
Register(t) ==
    /\ pc[t] = "register"
    /\ heap' = heap \union {clock + 1} /\ clock' = clock + 1
    /\ msg' = [msg EXCEPT ![t] = clock + 1]
    /\ Goto(t, "registered")
    /\ UNCHANGED <<client, channel, open, net, call, idling, mutex, entry, sending, expired, reaper>>

(* ... and kept in the session then. *)
KeepEntry(t) ==
    /\ pc[t] = "registered"
    /\ entry' = msg[t] /\ msg' = [msg EXCEPT ![t] = None]
    /\ Goto(t, "servant")
    /\ UNCHANGED <<client, channel, open, net, call, idling, mutex, heap, clock, sending, expired, reaper>>

(* The servant runs.  A RemoteCallContext takes the call over. *)
Servant(t) ==
    /\ pc[t] = "servant"
    /\ IF Current.async
         THEN autoSend' = FALSE /\ contexts' = contexts \union {request}
         ELSE UNCHANGED <<autoSend, contexts>>
    /\ Goto(t, "served")
    /\ UNCHANGED <<client, channel, open, net, request, twice, idling, mutex, pings, sending, msg, expired, reaper>>

(* ~SessionTouch() *)
Served(t) ==
    /\ pc[t] = "served"
    /\ stale' = FALSE /\ inProgress' = FALSE
    /\ Goto(t, "returned")
    /\ UNCHANGED <<client, channel, open, net, call, mutex, pings, sending, msg, expired, reaper>>

(* Mutant: a oneway call whose servant throws is answered. *)
ReturnedThrows(t) ==
    /\ pc[t] = "returned"
    /\ LET throws == Current.fate \in {"throws", "other"} IN
       IF ~throws /\ ~autoSend THEN Goto(t, "leave") /\ UNCHANGED msg
       ELSE IF ~throws /\ Current.oneway THEN Goto(t, "written") /\ UNCHANGED msg
       ELSE Goto(t, "send") /\ msg' = [msg EXCEPT ![t] = Response("response")]
    /\ twice' = (twice \/ (Current.fate = "other" /\ ~autoSend))
    /\ UNCHANGED <<client, channel, open, net, request, autoSend, contexts, idling, mutex, pings, sending,
                   expired, reaper>>

(* processRequest(), after callServant(): the response, or what was        *)
(* thrown; a oneway call is over.  The scope guard answers what is no      *)
(* std::exception, whether the call is oneway and whoever is to answer it. *)
Returned(t) ==
    /\ pc[t] = "returned"
    /\ IF Current.fate = "other" THEN Goto(t, "send") /\ msg' = [msg EXCEPT ![t] = Response("error")]
       ELSE IF ~autoSend THEN Goto(t, "leave") /\ UNCHANGED msg
       ELSE IF Current.oneway THEN Goto(t, "written") /\ UNCHANGED msg
       ELSE Goto(t, "send") /\ msg' = [msg EXCEPT ![t] = Response("response")]
    /\ twice' = (twice \/ (Current.fate = "other" /\ ~autoSend))
    /\ UNCHANGED <<client, channel, open, net, request, autoSend, contexts, idling, mutex, pings, sending,
                   expired, reaper>>

(* RemoteCallContext::commit(), by another thread.  Nothing of the session *)
(* tells it which call it answers.                                         *)
Commit(t) ==
    /\ t \in Workers /\ pc[t] = "idle"
    /\ \E c \in contexts : contexts' = contexts \ {c}
    /\ IF Current.oneway
         THEN Goto(t, "written") /\ UNCHANGED msg
         ELSE Goto(t, "send") /\ msg' = [msg EXCEPT ![t] = Response("response")]
    /\ UNCHANGED <<client, channel, open, net, request, autoSend, twice, idling, mutex, pings, sending, expired, reaper>>

(* Mutant: a ping that is being sent is not waited for. *)
SendAnyway(t) ==
    /\ pc[t] = "send"
    /\ IF Current.ping THEN heap' = heap \ {entry} /\ entry' = 0 ELSE UNCHANGED <<heap, entry>>
    /\ Goto(t, "write") /\ UNCHANGED queued
    /\ UNCHANGED <<client, channel, open, net, call, idling, mutex, clock, pinging, msg, expired, reaper>>

(* sendSessionResponse(), the region: no more pings; the response waits    *)
(* until a ping that is being sent has been.                               *)
Send(t) ==
    /\ pc[t] = "send"
    /\ IF Current.ping THEN heap' = heap \ {entry} /\ entry' = 0 ELSE UNCHANGED <<heap, entry>>
    /\ IF pinging THEN queued' = msg[t] /\ Goto(t, "leave") ELSE Goto(t, "write") /\ UNCHANGED queued
    /\ UNCHANGED <<client, channel, open, net, call, idling, mutex, clock, pinging, msg, expired, reaper>>

(* postWrite() of the response *)
Write(t) ==
    /\ pc[t] = "write"
    /\ PostWrite(msg[t], writing) /\ Goto(t, "leave")
    /\ UNCHANGED <<client, channel, open, reads, closing, lastError, call, idling, mutex, pings, sending, msg, expired, reaper>>

(* Mutant: the response that waited is forgotten. *)
WrittenForgets(t) ==
    /\ pc[t] = "written"
    /\ pinging' = FALSE /\ queued' = None
    /\ IF pinging THEN UNCHANGED <<state, reads>> ELSE PostRead(reading)
    /\ Goto(t, "leave")
    /\ UNCHANGED <<client, channel, open, writes, closing, lastError, call, idling, mutex, pings, msg, expired, reaper>>

(* onWriteCompleted(): the region.  After a ping the response that waits   *)
(* is sent, else the next request is read.                                 *)
Written(t) ==
    /\ pc[t] = "written"
    /\ IF pinging
         THEN /\ pinging' = FALSE /\ queued' = None
              /\ IF queued = None
                   THEN Goto(t, "leave") /\ UNCHANGED msg
                   ELSE Goto(t, "write") /\ msg' = [msg EXCEPT ![t] = queued]
              /\ UNCHANGED <<state, reads>>
         ELSE /\ PostRead(reading) /\ Goto(t, "leave")
              /\ UNCHANGED <<sending, msg>>
    /\ UNCHANGED <<client, channel, open, writes, closing, lastError, call, idling, mutex, pings, expired, reaper>>

(* The handler returns. *)
Leave(t) ==
    /\ pc[t] = "leave"
    /\ Goto(t, "idle") /\ msg' = [msg EXCEPT ![t] = None]
    /\ mutex' = IF mutex = t THEN None ELSE mutex
    /\ UNCHANGED <<client, channel, open, net, call, idling, pings, sending, expired, reaper>>

-----------------------------------------------------------------------------
(* PingBackService *)

(* cycle(): the first entry has expired.  A ping interval is at least a    *)
(* second, longer than registerForPingBacks() takes unless it stalls.      *)
Expires ==
    /\ expired = None /\ heap # {} /\ clock < MaxPings
    /\ MayStall \/ \A t \in AllThreads : pc[t] # "registered"
    /\ expired' = CHOOSE e \in heap : \A f \in heap : e <= f
    /\ UNCHANGED <<client, channel, open, net, call, idling, mutex, pings, sending, pc, msg, reaper>>

(* cycle(), under the session's mutex: if the entry is still the first,    *)
(* the next one is made and a ping is sent, unless one is being sent.      *)
Ping ==
    /\ expired # None /\ expired' = None
    /\ IF expired \in heap /\ (\A f \in heap : expired <= f)
         THEN /\ heap' = (heap \ {expired}) \union {clock + 1}
              /\ clock' = clock + 1 /\ entry' = clock + 1
              /\ pinging' = TRUE
              /\ IF pinging THEN UNCHANGED <<state, writes>>
                            ELSE PostWrite([type |-> "ping", of |-> request], writing)
         ELSE UNCHANGED <<pings, pinging, state, writes>>
    /\ UNCHANGED <<client, channel, open, reads, closing, lastError, call, idling, mutex, queued, pc, msg, reaper>>

-----------------------------------------------------------------------------
(* SessionTimeoutService *)

(* onTimer(): no call is made ... *)
ReaperLooks ==
    /\ IdleTimeout /\ reaper = "waiting" /\ open
    /\ ~inProgress /\ reaper' = "looking"
    /\ UNCHANGED <<client, channel, open, net, call, idling, mutex, pings, sending, pc, msg, expired>>

(* ... and has not been for too long ... *)
ReaperDecides ==
    /\ reaper = "looking"
    /\ reaper' = IF stale THEN "closing" ELSE "waiting"
    /\ UNCHANGED <<client, channel, open, net, call, idling, mutex, pings, sending, pc, msg, expired>>

(* ... so the session is disconnected. *)
ReaperCloses ==
    /\ reaper = "closing"
    /\ open' = FALSE /\ reaper' = "waiting"
    /\ UNCHANGED <<client, channel, net, call, idling, mutex, pings, sending, pc, msg, expired>>

(* The timeout passes. *)
TimePasses ==
    /\ IdleTimeout /\ ~stale /\ stale' = TRUE
    /\ UNCHANGED <<client, channel, open, net, call, inProgress, mutex, pings, sending, pc, msg, expired, reaper>>

-----------------------------------------------------------------------------
(* The client makes a call when the one before is answered (bound: and     *)
(* none when a call was answered twice, of which nothing is said after).   *)
ClientCalls ==
    /\ ~peerGone /\ Len(sent) < MaxCalls /\ ~twice
    /\ \A i \in DOMAIN sent : sent[i].form \in {"fine", "newer"} /\ (WantsAnswer(sent[i]) => Answers(i) # {})
    /\ \E c \in Calls : sent' = Append(sent, c)
    /\ inbox' = Append(inbox, Len(sent) + 1)
    /\ UNCHANGED <<received, peerGone, consumed, open, net, call, idling, mutex, pings, sending, pc, msg, expired, reaper>>

ClientCloses ==
    /\ PeerMayClose /\ ~peerGone
    /\ peerGone' = TRUE
    /\ UNCHANGED <<sent, received, channel, open, net, call, idling, mutex, pings, sending, pc, msg, expired, reaper>>

-----------------------------------------------------------------------------
(* onAcceptCompleted() has faked a write, and so the first read is posted. *)
Init ==
    /\ sent = <<>> /\ received = <<>> /\ peerGone = FALSE
    /\ inbox = <<>> /\ consumed = 0
    /\ open = TRUE /\ state = "header" /\ zeroByte = TRUE /\ readLeft = 0 /\ reading = 1
    /\ writeLeft = 0 /\ writeBuf = None /\ writing = 0
    /\ closing = FALSE /\ lastError = FALSE
    /\ request = 0 /\ autoSend = TRUE /\ contexts = {} /\ twice = FALSE
    /\ inProgress = FALSE /\ stale = FALSE /\ mutex = None
    /\ entry = 0 /\ heap = {} /\ clock = 0
    /\ pinging = FALSE /\ queued = None
    /\ pc = [t \in AllThreads |-> "idle"] /\ msg = [t \in AllThreads |-> None]
    /\ expired = None /\ reaper = "waiting"

Run(t) ==
    \/ ReadCompletes(t) \/ Fails(t) \/ WriteCompletes(t)
    \/ Enter(t) \/ Decode(t) \/ Register(t) \/ KeepEntry(t) \/ Servant(t) \/ Served(t) \/ Returned(t)
    \/ Commit(t) \/ Send(t) \/ Write(t) \/ Written(t) \/ Leave(t)

Next ==
    \/ \E t \in AllThreads : Run(t)
    \/ Expires \/ Ping
    \/ ReaperLooks \/ ReaperDecides \/ ReaperCloses \/ TimePasses
    \/ ClientCalls \/ ClientCloses

Spec == Init /\ [][Next]_vars

(* Threads run; nobody makes clients call or entries expire. *)
Fairness == (\A t \in AllThreads : WF_vars(Run(t))) /\ WF_vars(Ping)

FairSpec == Spec /\ Fairness

-----------------------------------------------------------------------------
(* Properties *)

(* A session has one operation under way at most: pings, responses and     *)
(* the reads between calls do not overlap, although four kinds of threads  *)
(* begin them (AsioServerTransport.cpp:164-221) -- unless a servant left   *)
(* the answer to another thread and then threw something that is no        *)
(* std::exception: the scope guard answers, too (RcfServer.cpp:863).       *)
OneOperation == twice \/ reading + writing <= 1

InOrder ==
    /\ \A j, k \in DOMAIN received :
           j < k /\ received[k].type # "ping" => received[j].of < received[k].of \/ received[j].type = "ping"
    /\ \A k \in DOMAIN received : received[k].type # "ping" => IsAnswered(sent[received[k].of])

(* A call is answered once, after those before it, and a oneway call only  *)
(* if its servant throws something that is no std::exception               *)
(* (RcfServer.cpp:859-911, RemoteCallContext.cpp:39-87); unless a call was *)
(* answered here and by its context.                                       *)
AnswersInOrder == twice \/ InOrder

Unanswered == {i \in DOMAIN sent : WantsAnswer(sent[i]) /\ Answers(i) = {}}

(* A call that wants an answer gets it, unless the connection is lost      *)
(* first, or a call was answered here and by its context.                  *)
CallsAreAnswered ==
    Unanswered # {} ~> Unanswered = {} \/ peerGone \/ ~open \/ twice
=============================================================================
