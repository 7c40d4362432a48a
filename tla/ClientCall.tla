----------------------------- MODULE ClientCall -----------------------------
(***************************************************************************)
(* Asynchronous calls of an RCF client over TCP: ClientStub, which brings  *)
(* a call from its connection to its answer, the transport, whose          *)
(* operations have a handler each and a timer, and OverlappedAmi, which    *)
(* lets one of them in.  If a transport protocol is set, a client of its   *)
(* own ("sub") has the transport while it asks the server for filters.     *)
(*                                                                         *)
(* A handler runs under OverlappedAmi::mMutex, with the callback, and so   *)
(* is one step; so is a call up to the operation it posts.  Handlers that  *)
(* were posted with an earlier mIndex do nothing, and are left out.  The   *)
(* user makes a call, or waits, when the callback of the one before has    *)
(* run; cancel() the user may call at any time.                            *)
(***************************************************************************)
EXTENDS Naturals, Sequences

CONSTANTS
    MaxCalls,       \* bound: calls the user makes
    MaxPings,       \* bound: pings the server sends
    MaxChanges      \* bound: how often the server closes connections

Kinds == {"twoway", "oneway", "connect", "wait"}

VARIABLES
    client,     \* the client; the fields are given with Init
    wire,       \* messages the server has sent on the connection
    inbox,      \* requests it has got on it
    gone,       \* it has closed the connection
    closes,     \* how often it has
    pings

vars == <<client, wire, inbox, gone, closes, pings>>

-----------------------------------------------------------------------------
(* What a handler does to the client c.  First the transport: close() ...  *)
Close(c) ==
    [c EXCEPT !.live = {}, !.closed = TRUE, !.bound = IF c.closed THEN @ ELSE "none"]

(* Mutant: nobody looks at the time. *)
PostUntimed(c, op) == [c EXCEPT !.live = @ \union {op}]

(* ... and an operation, with its timer. *)
Post(c, op) == [c EXCEPT !.live = @ \union {op, "timer"}]

(* ClientStub: scheduleAmiNotification(), and the callback *)
Notify(c) ==
    [c EXCEPT !.inProgress = FALSE, !.callback = FALSE, !.notified = @ + IF c.callback THEN 1 ELSE 0]

(* disconnect(), which forgets the callback *)
Disconnect(c) == [Close(c) EXCEPT !.connected = FALSE, !.callback = FALSE]

(* Mutant: the connection of a call that was given up is used again. *)
OnErrorStays(c, error) ==
    [Notify(c) EXCEPT !.op = "None", !.encoded = 0, !.exception = TRUE]

(* onError(): what the server has thrown leaves the connection as it is.   *)
OnError(c, error) ==
    LET n == [Notify(c) EXCEPT !.op = "None", !.encoded = 0, !.exception = TRUE]
    IN  IF error = "remote" THEN n ELSE Disconnect(n)

(* connect(), the part that reconnects: the address is looked up by a      *)
(* thread of its own, or connected to.                                     *)
Connect(c) ==
    LET d == [Close(c) EXCEPT !.op = "Connect", !.closed = FALSE, !.bound = "main"]
    IN  {[d EXCEPT !.live = {"dns"}], Post(d, "connect"), OnError(d, "local")}

(* send() and receive() *)
Send(c, who) == Post([c EXCEPT !.bound = who], "write")
Receive(c, who) == Post([c EXCEPT !.bound = who, !.position = 0], "read")

BeginSend(c) == Send([c EXCEPT !.op = "Write"], "main")
BeginReceive(c) == Receive([c EXCEPT !.op = "Read"], "main")

(* beginCall() encodes the request and connects, unless it is connected; a *)
(* twoway call looks whether it still is.                                  *)
BeginCall(c) ==
    LET e == [c EXCEPT !.encoded = c.call]
    IN  IF e.connected /\ ~(gone /\ c.kind = "twoway") THEN {BeginSend(e)} ELSE Connect(e)

(* onSetupTransportProtocolCompleted(): whatever is encoded is sent. *)
SetupCompleted(c) ==
    LET d == [c EXCEPT !.connected = TRUE]
    IN  IF d.encoded # 0 THEN BeginSend(d) ELSE Notify(d)

(* onConnectCompleted(): filters are asked for by the sub client. *)
ConnectCompleted(c) ==
    LET d == [c EXCEPT !.op = "None"]
    IN  IF c.protocol THEN Send([d EXCEPT !.subOp = "Write"], "sub") ELSE SetupCompleted(d)

(* onRtfCompleted(): the transport goes back, and the call fails ... *)
Unfiltered(c) ==
    Notify([c EXCEPT !.subOp = "None", !.bound = "none", !.connected = ~c.closed, !.exception = TRUE])

(* ... or has its filters. *)
Filtered(c) == SetupCompleted([c EXCEPT !.subOp = "None"])

(* An operation fails or times out: onError() of the stub it is for. *)
Fail(c) == IF c.bound = "sub" THEN Unfiltered(Close(c)) ELSE OnError(c, "local")

-----------------------------------------------------------------------------
(* What has not been read of a connection, and was sent on it, goes with it. *)
Becomes(c, sent, received) ==
    /\ client' = c
    /\ IF c.closed \/ {"dns", "connect"} \intersect c.live # {}
         THEN wire' = <<>> /\ inbox' = <<>> /\ gone' = FALSE
         ELSE wire' = received /\ inbox' = sent /\ UNCHANGED gone
    /\ UNCHANGED <<closes, pings>>

Handles(c) == Becomes(c, inbox, wire)

(* Mutant: what was posted with the operation may still run. *)
CompletedOthersStay(op) == [client EXCEPT !.live = @ \ {op}]

(* OverlappedAmi::onCompletion() and onTimerExpired() let one handler in. *)
Completed(op) == [client EXCEPT !.live = {}]

(* The user: a call ... *)
Call ==
    /\ ~client.callback /\ client.call < MaxCalls
    /\ \E kind \in {"twoway", "oneway"} :
           LET c == [client EXCEPT !.call = @ + 1, !.kind = kind, !.callback = TRUE, !.exception = FALSE,
                                   !.inProgress = TRUE, !.tries = 0, !.cancelled = FALSE]
           IN  \E d \in BeginCall(c) : Handles(d)

(* ... connectAsync(), which is of use while not connected; its callback   *)
(* is not run if filters are asked for ...                                 *)
ConnectAsync ==
    /\ ~client.callback /\ client.call < MaxCalls /\ ~client.connected /\ ~client.protocol
    /\ LET c == [client EXCEPT !.call = @ + 1, !.kind = "connect", !.callback = TRUE, !.exception = FALSE,
                              !.cancelled = FALSE]
       IN  \E d \in Connect(c) : Handles(d)

(* ... wait() ... *)
Wait ==
    /\ ~client.callback /\ client.call < MaxCalls
    /\ Handles([client EXCEPT !.call = @ + 1, !.kind = "wait", !.callback = TRUE, !.exception = FALSE,
                              !.cancelled = FALSE, !.op = "Wait", !.bound = "main", !.live = {"timer"}])

(* ... and cancel(), also of a call that has ended.  A client without its  *)
(* transport ignores it; once the transport is closed it calls onError()   *)
(* of a null pointer, which is not followed.                               *)
Cancel ==
    /\ client.bound = "main"
    /\ Handles(OnError([client EXCEPT !.live = {}, !.cancelled = TRUE], "local"))

-----------------------------------------------------------------------------
(* Handlers *)

DnsLookupCompleted ==
    /\ "dns" \in client.live
    /\ LET c == [client EXCEPT !.live = @ \ {"dns"}]
       IN  Handles(Post(c, "connect")) \/ Handles(OnError(c, "local"))

OnConnectCompleted ==
    /\ "connect" \in client.live
    /\ \/ Becomes(ConnectCompleted(Completed("connect")), <<>>, <<>>)
       \/ Handles(Fail(Completed("connect")))

(* onSendCompleted(): a oneway call ends, and the server, if its servant   *)
(* throws nothing but std::exceptions, does not answer it; others wait for *)
(* the answer.                                                             *)
OnSendCompleted ==
    /\ "write" \in client.live
    /\ LET c == Completed("write")
           sent == Append(inbox, IF c.bound = "sub" THEN 0 ELSE c.encoded)
       IN  \/ /\ c.bound = "sub"
              /\ Becomes(Receive([c EXCEPT !.subOp = "Read"], "sub"), sent, wire)
           \/ /\ c.bound = "main" /\ c.kind # "oneway"
              /\ Becomes(BeginReceive([c EXCEPT !.encoded = 0]), sent, wire)
           \/ /\ c.bound = "main" /\ c.kind = "oneway"
              /\ Handles(Notify([c EXCEPT !.encoded = 0, !.op = "None"]))
           \/ /\ gone /\ Handles(Fail(c))

(* onReceiveCompleted() of the sub client: it is notified, and gives the   *)
(* transport back.                                                         *)
OnFiltersReceived(c, message) ==
    IF message.type = "result" THEN {Filtered(c)} ELSE {Unfiltered(c)}

(* onReceiveCompleted(): the answer, whichever call it answers, is read    *)
(* into the parameters of this one.  A client that is too new tries once   *)
(* more with the version of the server.                                    *)
OnReceiveCompleted(c, message) ==
    CASE message.type = "result"    -> {Notify([c EXCEPT !.answer = message.of])}
      [] message.type = "exception" -> {OnError(c, "remote")}
      [] message.type = "fatal"     -> {OnError(c, "local")}
      [] message.type = "ping"      -> {BeginReceive(c)}
      [] message.type = "mismatch"  ->
            IF c.tries = 0 THEN BeginCall([c EXCEPT !.tries = 1]) ELSE {OnError(c, "remote")}

(* onTimedRecvCompleted(): the length, and then the message; an operation  *)
(* that finds the connection closed fails.                                 *)
OnTimedRecvCompleted ==
    /\ "read" \in client.live
    /\ LET c == [Completed("read") EXCEPT !.op = "None"]
       IN  \/ /\ client.position = 0 /\ wire # <<>>
              /\ Handles([Post(Completed("read"), "read") EXCEPT !.position = 1])
           \/ /\ client.position = 1
              /\ \E d \in IF c.bound = "sub" THEN OnFiltersReceived(c, Head(wire)) ELSE OnReceiveCompleted(c, Head(wire)) :
                     Becomes(d, inbox, Tail(wire))
           \/ /\ gone /\ Handles(Fail(Completed("read")))

(* onTimerExpired(), of the transport and of the stub *)
OnTimerExpired ==
    /\ "timer" \in client.live
    /\ LET c == Completed("timer")
       IN  Handles(IF c.bound = "main" /\ c.op = "Wait" THEN Notify([c EXCEPT !.op = "None"]) ELSE Fail(c))

-----------------------------------------------------------------------------
(* The server answers a request, or does not ...                           *)
Answer ==
    /\ inbox # <<>> /\ ~gone
    /\ inbox' = Tail(inbox)
    /\ \/ \E type \in {"result", "exception", "fatal", "mismatch"} :
              wire' = Append(wire, [type |-> type, of |-> Head(inbox)])
       \/ UNCHANGED wire
    /\ UNCHANGED <<client, gone, closes, pings>>

(* ... sends a ping meanwhile ... *)
Ping ==
    /\ inbox # <<>> /\ ~gone /\ Head(inbox) # 0 /\ pings < MaxPings
    /\ wire' = Append(wire, [type |-> "ping", of |-> Head(inbox)])
    /\ pings' = pings + 1
    /\ UNCHANGED <<client, inbox, gone, closes>>

(* ... and may close the connection at any time. *)
PeerCloses ==
    /\ ~client.closed /\ {"dns", "connect"} \intersect client.live = {} /\ ~gone /\ closes < MaxChanges
    /\ gone' = TRUE /\ closes' = closes + 1
    /\ UNCHANGED <<client, wire, inbox, pings>>

-----------------------------------------------------------------------------
Init ==
    /\ client \in [
           call       : {0},           \* the calls made
           kind       : {"wait"},      \* what the last one is
           callback   : {FALSE},       \* mAsyncCallback
           notified   : {0},           \* how many have been run
           inProgress : {FALSE},       \* mCallInProgress
           exception  : {FALSE},       \* mAsyncException
           answer     : {0},           \* the call whose answer the parameters have
           encoded    : {0},           \* the call whose request is in mEncodedByteBuffers
           tries      : {0},           \* mTries
           cancelled  : {FALSE},       \* history: cancel() was called since the call was made
           op         : {"None"},      \* mAsyncOpType
           subOp      : {"None"},      \* and that of the sub client
           connected  : {FALSE},       \* mConnected
           protocol   : BOOLEAN,       \* a transport protocol is set
           \* the transport
           closed     : {TRUE},        \* mClosed
           bound      : {"none"},      \* mpClientStub
           position   : {0},           \* mReadBufferPos
           live       : {{}}]          \* handlers to run that have the current mIndex
    /\ wire = <<>> /\ inbox = <<>> /\ gone = FALSE /\ closes = 0 /\ pings = 0

Handler ==
    DnsLookupCompleted \/ OnConnectCompleted \/ OnSendCompleted \/ OnTimedRecvCompleted \/ OnTimerExpired

Next == Call \/ ConnectAsync \/ Wait \/ Cancel \/ Handler \/ Answer \/ Ping \/ PeerCloses

Spec == Init /\ [][Next]_vars

(* Handlers run, and timers expire; nothing is asked of the server.        *)
FairSpec == Spec /\ WF_vars(Handler)

-----------------------------------------------------------------------------
(* Properties *)

(* A call that was not refused has its own answer, and not a late one of a *)
(* call that timed out or was cancelled (ClientStub.cpp:511-561).          *)
AnswerIsOwn ==
    client.kind = "twoway" /\ ~client.callback /\ ~client.exception => client.answer = client.call

(* Once the callback has run the outcome stands: of completion, timeout    *)
(* and cancellation one counts (AmiThreadPool.cpp:222-343).  Only the user *)
(* changes it: a cancel() that comes after it makes the call one that      *)
(* failed (ConnectedClientTransport.cpp:676), and leaves its answer.       *)
OutcomeIsFinal ==
    [][~client.callback /\ client'.call = client.call =>
           /\ client'.answer = client.answer
           /\ client'.exception # client.exception => client'.exception /\ client'.cancelled]_vars

(* Every call ends, and its callback is run, whatever the server does.     *)
EveryCallEnds == client.callback ~> (client.notified = client.call)
=============================================================================
