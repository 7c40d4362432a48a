------------------------------ MODULE Publisher ------------------------------
(***************************************************************************)
(* A publisher: PublishingService, which makes a transport of the session  *)
(* of each subscriber, and MulticastClientTransport, which sends a message *)
(* on all of them.  The sends of a message are asynchronous, and waited    *)
(* for; those that take too long are cancelled, by a thread that looks at  *)
(* a handler before it cancels.  A timer pings and drops subscribers that  *)
(* are gone or silent.  mClientTransportsMutex is locked by whoever sends. *)
(***************************************************************************)
EXTENDS Naturals, FiniteSets

CONSTANTS
    Subscribers,
    Limit,          \* getSimultaneousPublishLimit(), 0 for none
    MaxMessages,    \* bound: messages published
    MaxPings        \* bound: pings sent

PublisherAssumption == Limit \in Nat /\ MaxMessages \in Nat /\ MaxPings \in Nat

VARIABLES
    session,        \* of a subscriber: "none", "responding", "open", "gone"
    silent,         \* subscribers that have sent no ping for a while
    open,           \* the publisher is one of mPublishers
    mAddedClientTransports, mClientTransports,
    send,           \* MulticastClientTransport::send(); the fields are given with Init
    handler,        \* what became of the send on a transport
    pings,
    published,      \* messages published
    due,            \* how many had been when the subscriber was brought in
    received        \* how many the subscriber was sent

vars == <<session, silent, open, mAddedClientTransports, mClientTransports, send, handler, pings,
          published, due, received>>

messages == <<pings, published, due, received>>

-----------------------------------------------------------------------------
(* Subscribers.  One that is allowed is added when the answer to its       *)
(* request has been written.                                               *)

RequestSubscription(s) ==
    /\ session[s] = "none" /\ open
    /\ session' = [session EXCEPT ![s] = "responding"]
    /\ UNCHANGED <<silent, open, mAddedClientTransports, mClientTransports, send, handler, messages>>

AddSubscriberTransport(s) ==
    /\ session[s] = "responding"
    /\ session' = [session EXCEPT ![s] = "open"]
    /\ mAddedClientTransports' = IF open THEN mAddedClientTransports \union {s} ELSE mAddedClientTransports
    /\ UNCHANGED <<silent, open, mClientTransports, send, handler, messages>>

SubscriberGoes(s) ==
    /\ session[s] \in {"responding", "open"}
    /\ session' = [session EXCEPT ![s] = "gone"]
    /\ UNCHANGED <<silent, open, mAddedClientTransports, mClientTransports, send, handler, messages>>

SubscriberIsSilent(s) ==
    /\ session[s] = "open" /\ s \notin silent
    /\ silent' = silent \union {s}
    /\ UNCHANGED <<session, open, mAddedClientTransports, mClientTransports, send, handler, messages>>

-----------------------------------------------------------------------------
(* Sends.  Every one begins with bringInNewTransports().                   *)

Unlocked == send.pc = "idle"

BringInNewTransports ==
    /\ due' = [s \in Subscribers |-> IF s \in mAddedClientTransports THEN published ELSE due[s]]
    /\ received' = [s \in Subscribers |-> IF s \in mAddedClientTransports THEN 0 ELSE received[s]]
    /\ mAddedClientTransports' = {}

All == mClientTransports \union mAddedClientTransports

Publish ==
    /\ Unlocked /\ open /\ published < MaxMessages
    /\ BringInNewTransports
    /\ published' = published + 1
    /\ mClientTransports' = {}
    /\ send' = [send EXCEPT !.pc = "next", !.what = "message", !.list = All, !.kept = {}]
    /\ UNCHANGED <<session, silent, open, handler, pings>>

(* pingAllTransports(): a copy of the list is sent on, and left alone after *)
PingAllTransports ==
    /\ Unlocked /\ open /\ pings < MaxPings
    /\ BringInNewTransports
    /\ pings' = pings + 1
    /\ mClientTransports' = All
    /\ send' = [send EXCEPT !.pc = "next", !.what = "ping", !.kept = {},
                            !.list = {s \in All : session[s] # "gone"}]
    /\ UNCHANGED <<session, silent, open, handler, published>>

(* doSendOnTransports(): as many as the limit allows at a time, of which   *)
(* some may throw.                                                         *)
SendOnTransports ==
    /\ send.pc = "next" /\ send.list # {}
    /\ \E batch \in SUBSET send.list : \E failing \in SUBSET {s \in batch : session[s] = "gone"} :
           /\ Cardinality(batch) =
                  IF Limit = 0 \/ Cardinality(send.list) < Limit THEN Cardinality(send.list) ELSE Limit
           /\ send' = [send EXCEPT !.pc = "sending", !.list = @ \ batch, !.batch = batch, !.todo = batch,
                                   !.count = Cardinality(failing)]
           /\ handler' = [s \in Subscribers |->
                  IF s \in failing THEN "failed" ELSE IF s \in batch THEN "pending" ELSE "none"]
    /\ UNCHANGED <<session, silent, open, mAddedClientTransports, mClientTransports, messages>>

(* The handler of the operation; one that was cancelled is not run. *)
SendCompleted(s) ==
    /\ handler[s] = "pending"
    /\ \/ /\ handler' = [handler EXCEPT ![s] = "ok"]
          /\ received' = [received EXCEPT ![s] = IF send.what = "message" THEN @ + 1 ELSE @]
       \/ /\ session[s] = "gone"
          /\ handler' = [handler EXCEPT ![s] = "failed"]
          /\ UNCHANGED received
    /\ send' = [send EXCEPT !.count = @ + 1]
    /\ UNCHANGED <<session, silent, open, mAddedClientTransports, mClientTransports, pings, published, due>>

(* All have completed, or it took too long. *)
WaitEnds ==
    /\ send.pc = "sending"
    /\ send' = [send EXCEPT !.pc = "cancel"]
    /\ UNCHANGED <<session, silent, open, mAddedClientTransports, mClientTransports, handler, messages>>

CancelLooks(s) ==
    /\ send.pc = "cancel" /\ s \in send.todo
    /\ send' = [send EXCEPT !.todo = @ \ {s}, !.pc = IF handler[s] = "pending" THEN "cancelling" ELSE "cancel",
                            !.target = {s}]
    /\ UNCHANGED <<session, silent, open, mAddedClientTransports, mClientTransports, handler, messages>>

(* ConnectedClientTransport::cancel() *)
Cancel(s) ==
    /\ send.pc = "cancelling" /\ s \in send.target
    /\ send' = [send EXCEPT !.pc = "cancel", !.count = @ + 1]
    /\ handler' = [handler EXCEPT ![s] = "failed"]
    /\ UNCHANGED <<session, silent, open, mAddedClientTransports, mClientTransports, messages>>

(* Mutant: transports with errors stay. *)
KeepsAll(s) == handler[s] # "none"

Keeps(s) == handler[s] = "ok"

(* "Close and remove any subscriber transports with errors" *)
BatchEnds ==
    /\ send.pc = "cancel" /\ send.todo = {}
    /\ send' = [send EXCEPT !.pc = "next", !.kept = @ \union {s \in send.batch : Keeps(s)}, !.batch = {},
                            !.count = 0, !.target = {}]
    /\ handler' = [s \in Subscribers |-> "none"]
    /\ UNCHANGED <<session, silent, open, mAddedClientTransports, mClientTransports, messages>>

SendEnds ==
    /\ send.pc = "next" /\ send.list = {}
    /\ send' = [send EXCEPT !.pc = "idle", !.kept = {}]
    /\ mClientTransports' = IF send.what = "message" THEN send.kept ELSE mClientTransports
    /\ UNCHANGED <<session, silent, open, mAddedClientTransports, handler, messages>>

-----------------------------------------------------------------------------
DropIdleTransports ==
    /\ Unlocked /\ open
    /\ BringInNewTransports
    /\ \E late \in SUBSET silent :
           mClientTransports' = {s \in All : session[s] # "gone" /\ s \notin late}
    /\ UNCHANGED <<session, silent, open, send, handler, pings, published>>

(* PublisherBase::close() *)
Close ==
    /\ Unlocked /\ open
    /\ open' = FALSE /\ mClientTransports' = {} /\ mAddedClientTransports' = {}
    /\ UNCHANGED <<session, silent, send, handler, messages>>

-----------------------------------------------------------------------------
Init ==
    /\ session = [s \in Subscribers |-> "none"] /\ silent = {} /\ open = TRUE
    /\ mAddedClientTransports = {} /\ mClientTransports = {}
    /\ send = [pc |-> "idle", what |-> "message",
               list |-> {},             \* transports to send on yet
               batch |-> {},            \* mClientTransportsSending
               todo |-> {}, target |-> {},  \* handlers to look at, and the one to cancel
               count |-> 0,             \* mCompletedCount and mFailedCount
               kept |-> {}]             \* mClientTransportsTemp
    /\ handler = [s \in Subscribers |-> "none"]
    /\ pings = 0 /\ published = 0
    /\ due = [s \in Subscribers |-> 0] /\ received = [s \in Subscribers |-> 0]

Sending ==
    \/ SendOnTransports \/ WaitEnds \/ BatchEnds \/ SendEnds
    \/ \E s \in Subscribers : CancelLooks(s) \/ Cancel(s)

Next ==
    \/ \E s \in Subscribers :
           \/ RequestSubscription(s) \/ AddSubscriberTransport(s) \/ SubscriberGoes(s)
           \/ SubscriberIsSilent(s) \/ SendCompleted(s)
    \/ Publish \/ PingAllTransports \/ Sending \/ DropIdleTransports \/ Close

Spec == Init /\ [][Next]_vars

-----------------------------------------------------------------------------
(* Properties *)

(* A subscriber that is kept has been sent every message published since   *)
(* it was brought in: it is dropped with the first one that it misses,     *)
(* also by a send that is cancelled while it completes.                    *)
KeptGotAll ==
    Unlocked => \A s \in mClientTransports : received[s] = published - due[s]

(* MulticastClientTransport.cpp:77, an assertion: no more completions are  *)
(* counted than there are handlers.                                        *)
NotifiedOnce == send.count <= Cardinality(send.batch)
=============================================================================
