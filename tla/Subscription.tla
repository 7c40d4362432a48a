---------------------------- MODULE Subscription ----------------------------
(***************************************************************************)
(* Subscriptions: SubscriptionService, and the sessions that run the calls *)
(* a publisher sends.  A subscription is closed by its user, when its      *)
(* connection ends, when the server stops, by its own servant, or by       *)
(* whoever gives up the last pointer to it; a timer drops those whose      *)
(* publisher is silent.  They meet in three kinds of mutexes: one of the   *)
(* service, and of each subscription its own and that of its session's     *)
(* call.                                                                   *)
(***************************************************************************)
EXTENDS Naturals, Sequences

CONSTANT Subs       \* subscriptions, each made by a thread of its own

User(s) == <<"user", s>>
Io(s) == <<"io", s>>            \* the thread that runs the session's handlers
Timer == <<"timer">>
Stopper == <<"stopper">>        \* the thread that stops the server
Threads == {User(s) : s \in Subs} \union {Io(s) : s \in Subs} \union {Timer, Stopper}
Free == <<>>

VARIABLES
    sub,            \* a subscription and its session; the fields are given with Init
    mSubscriptions,
    owner,          \* of mSubscriptionsMutex
    thread,         \* where a thread is, with which subscription, and where it goes on after close()
    todo,           \* what the timer and the stopper have yet to look at
    dropped         \* subsToDrop

vars == <<sub, mSubscriptions, owner, thread, todo, dropped>>

Goto(t, pc) == thread' = [thread EXCEPT ![t].pc = pc]
Closing(t, s, then) == thread' = [thread EXCEPT ![t] = [pc |-> "close", sub |-> s, then |-> then]]

HasSession(s) == sub[s].session \in {"open", "held", "ending"}

(* A thread gives up a pointer; the last one closes what is still open, in *)
(* the destructor.                                                         *)
Release(t, s, then) ==
    /\ sub' = [sub EXCEPT ![s].ptrs = @ \ {t}]
    /\ IF sub[s].ptrs = {t} THEN Closing(t, s, then) ELSE Goto(t, then)

-----------------------------------------------------------------------------
(* Subscription::close() *)

CloseBegins(t) ==
    LET s == thread[t].sub
    IN  /\ thread[t].pc = "close" /\ sub[s].mutex = Free
        /\ IF sub[s].closed THEN Goto(t, thread[t].then) /\ UNCHANGED sub
           ELSE Goto(t, "stop calls") /\ sub' = [sub EXCEPT ![s].mutex = t]
        /\ UNCHANGED <<mSubscriptions, owner, todo, dropped>>

(* Mutant: a call in progress is not waited for. *)
CallsStoppedAtOnce(s) == TRUE


CallsStopped(s) == HasSession(s) => sub[s].calling = Free

(* No call is in progress, and none will be. *)
CallsStop(t) ==
    LET s == thread[t].sub
    IN  /\ thread[t].pc = "stop calls" /\ CallsStopped(s)
        /\ sub' = [sub EXCEPT ![s].stop = HasSession(s), ![s].callback = @ /\ ~HasSession(s),
                              ![s].lost = TRUE, ![s].closed = TRUE, ![s].mutex = Free]
        /\ Goto(t, "erase")
        /\ UNCHANGED <<mSubscriptions, owner, todo, dropped>>

(* closeSubscription() *)
CloseEnds(t) ==
    /\ thread[t].pc = "erase" /\ owner = Free
    /\ mSubscriptions' = mSubscriptions \ {thread[t].sub}
    /\ Goto(t, thread[t].then)
    /\ UNCHANGED <<sub, owner, todo, dropped>>

Close(t) == CloseBegins(t) \/ CallsStop(t) \/ CloseEnds(t)

-----------------------------------------------------------------------------
(* A user subscribes: the session is there, and takes calls, before the    *)
(* subscription is, and that before it is known to the service.            *)

CreateSession(s) ==
    /\ thread[User(s)].pc = "new" /\ thread[Stopper].pc = "running"
    /\ sub' = [sub EXCEPT ![s].session = "open"]
    /\ Goto(User(s), "create")
    /\ UNCHANGED <<mSubscriptions, owner, todo, dropped>>

CreateSubscription(s) ==
    /\ thread[User(s)].pc = "create"
    /\ sub' = [sub EXCEPT ![s].callback = TRUE, ![s].ptrs = {User(s)}]
    /\ Goto(User(s), "insert")
    /\ UNCHANGED <<mSubscriptions, owner, todo, dropped>>

(* A session whose connection ended before ends now. *)
Insert(s) ==
    /\ thread[User(s)].pc = "insert" /\ owner = Free
    /\ mSubscriptions' = mSubscriptions \union {s}
    /\ IF sub[s].session = "held" /\ sub[s].callback THEN Closing(User(s), s, "report")
       ELSE Goto(User(s), "using")
    /\ sub' = [sub EXCEPT ![s].session = IF @ = "held" THEN "ending" ELSE @]
    /\ UNCHANGED <<owner, todo, dropped>>

UserCloses(s) ==
    /\ thread[User(s)].pc = "using" /\ ~sub[s].closed
    /\ Closing(User(s), s, "using")
    /\ UNCHANGED <<sub, mSubscriptions, owner, todo, dropped>>

(* The user has no use for the subscription any more, closed or not. *)
UserDrops(s) ==
    /\ thread[User(s)].pc = "using"
    /\ Release(User(s), s, "gone")
    /\ UNCHANGED <<mSubscriptions, owner, todo, dropped>>

-----------------------------------------------------------------------------
(* The session: a call is run with mStopCallInProgressMutex locked. *)

CallBegins(s) ==
    /\ sub[s].session = "open" /\ ~sub[s].lost /\ thread[Io(s)].pc = "reading" /\ sub[s].calling = Free
    /\ sub' = [sub EXCEPT ![s].calling = IF sub[s].stop THEN Free ELSE Io(s), ![s].lost = sub[s].stop]
    /\ IF sub[s].stop THEN UNCHANGED thread ELSE Goto(Io(s), "in call")
    /\ UNCHANGED <<mSubscriptions, owner, todo, dropped>>

CallEnds(s) ==
    /\ thread[Io(s)].pc = "in call"
    /\ sub' = [sub EXCEPT ![s].calling = Free]
    /\ Goto(Io(s), "reading")
    /\ UNCHANGED <<mSubscriptions, owner, todo, dropped>>

(* The servant closes the subscription it is called by, once there is a    *)
(* pointer to it.                                                          *)
ServantCloses(s) ==
    /\ thread[Io(s)].pc = "in call" /\ sub[s].ptrs # {}
    /\ thread[User(s)].pc \notin {"new", "create", "insert"}
    /\ Closing(Io(s), s, "in call")
    /\ UNCHANGED <<sub, mSubscriptions, owner, todo, dropped>>

(* The publisher closes the connection, the network does, or a ping that   *)
(* fails.                                                                  *)
ConnectionLost(s) ==
    /\ sub[s].session = "open" /\ ~sub[s].lost
    /\ sub' = [sub EXCEPT ![s].lost = TRUE]
    /\ UNCHANGED <<mSubscriptions, owner, thread, todo, dropped>>

(* Mutant: a subscription the service does not know yet is not told. *)
IsToldKnown(s) == sub[s].callback /\ s \in mSubscriptions

IsTold(s) == sub[s].callback /\ sub[s].ptrs # {}

(* The session is destroyed, and Subscription::onDisconnect() called, if   *)
(* the subscription is still there.                                        *)
SessionEnds(s) ==
    /\ sub[s].session = "open" /\ sub[s].lost /\ thread[Io(s)].pc = "reading"
    /\ IF thread[User(s)].pc = "create"
         THEN sub' = [sub EXCEPT ![s].session = "held"] /\ UNCHANGED thread
       ELSE IF IsTold(s)
         THEN /\ sub' = [sub EXCEPT ![s].session = "ending", ![s].ptrs = @ \union {Io(s)}]
              /\ Closing(Io(s), s, "report")
       ELSE sub' = [sub EXCEPT ![s].session = "gone"] /\ UNCHANGED thread
    /\ UNCHANGED <<mSubscriptions, owner, todo, dropped>>

(* The subscription is closed; its user is told. *)
Report(s) ==
    \E t \in {Io(s), User(s)} :
        /\ thread[t].pc = "report"
        /\ sub' = [sub EXCEPT ![s].session = "gone", ![s].reported = TRUE,
                              ![s].ptrs = IF t = Io(s) THEN @ \ {t} ELSE @]
        /\ Goto(t, IF t = Io(s) THEN "reading" ELSE "using")
        /\ UNCHANGED <<mSubscriptions, owner, todo, dropped>>

-----------------------------------------------------------------------------
(* The timer *)

PingBegins ==
    /\ thread[Timer].pc = "idle" /\ thread[Stopper].pc = "running"
    /\ \E s \in mSubscriptions :
           /\ sub[s].ptrs # {}
           /\ sub' = [sub EXCEPT ![s].ptrs = @ \union {Timer}]
           /\ thread' = [thread EXCEPT ![Timer].pc = "ping", ![Timer].sub = s]
    /\ UNCHANGED <<mSubscriptions, owner, todo, dropped>>

PingEnds ==
    LET s == thread[Timer].sub
    IN  /\ thread[Timer].pc = "ping" /\ sub[s].mutex = Free
        /\ Release(Timer, s, "idle")
        /\ UNCHANGED <<mSubscriptions, owner, todo, dropped>>

HarvestBegins ==
    /\ thread[Timer].pc = "idle" /\ thread[Stopper].pc = "running"
    /\ owner = Free /\ mSubscriptions # {}
    /\ owner' = Timer /\ todo' = mSubscriptions
    /\ Goto(Timer, "harvest")
    /\ UNCHANGED <<sub, mSubscriptions, dropped>>

HarvestNext ==
    /\ thread[Timer].pc = "harvest"
    /\ \E s \in todo :
           /\ todo' = todo \ {s}
           /\ IF sub[s].ptrs = {} THEN UNCHANGED <<sub, thread>>
              ELSE /\ sub' = [sub EXCEPT ![s].ptrs = @ \union {Timer}]
                   /\ thread' = [thread EXCEPT ![Timer].pc = "look", ![Timer].sub = s]
    /\ UNCHANGED <<mSubscriptions, owner, dropped>>

(* A subscription is dropped if it has no session, or no ping has come for *)
(* a while.                                                                *)
HarvestLook ==
    LET s == thread[Timer].sub
    IN  /\ thread[Timer].pc = "look" /\ sub[s].mutex = Free
        /\ \/ dropped' = dropped \union {s} /\ Goto(Timer, "harvest") /\ UNCHANGED sub
           \/ HasSession(s) /\ Release(Timer, s, "harvest") /\ UNCHANGED dropped
        /\ UNCHANGED <<mSubscriptions, owner, todo>>

HarvestEnds ==
    /\ thread[Timer].pc = "harvest" /\ todo = {}
    /\ mSubscriptions' = mSubscriptions \ dropped
    /\ owner' = Free
    /\ Goto(Timer, "drop")
    /\ UNCHANGED <<sub, todo, dropped>>

(* subsToDrop.clear() *)
Drop ==
    /\ thread[Timer].pc = "drop"
    /\ IF dropped = {} THEN Goto(Timer, "idle") /\ UNCHANGED <<sub, dropped>>
       ELSE \E s \in dropped : dropped' = dropped \ {s} /\ Release(Timer, s, "drop")
    /\ UNCHANGED <<mSubscriptions, owner, todo>>

Harvest == PingEnds \/ HarvestNext \/ HarvestLook \/ HarvestEnds \/ Drop

-----------------------------------------------------------------------------
(* onServerStop(): the timer is waited for, and every subscription closed. *)

StopBegins ==
    /\ thread[Stopper].pc = "running" /\ thread[Timer].pc = "idle" /\ owner = Free
    /\ todo' = mSubscriptions
    /\ Goto(Stopper, "next")
    /\ UNCHANGED <<sub, mSubscriptions, owner, dropped>>

StopNext ==
    /\ thread[Stopper].pc = "next"
    /\ \E s \in todo :
           /\ todo' = todo \ {s}
           /\ IF sub[s].ptrs = {} THEN UNCHANGED <<sub, thread>>
              ELSE /\ sub' = [sub EXCEPT ![s].ptrs = @ \union {Stopper}]
                   /\ Closing(Stopper, s, "release")
    /\ UNCHANGED <<mSubscriptions, owner, dropped>>

StopRelease ==
    /\ thread[Stopper].pc = "release"
    /\ Release(Stopper, thread[Stopper].sub, "next")
    /\ UNCHANGED <<mSubscriptions, owner, todo, dropped>>

StopEnds ==
    /\ thread[Stopper].pc = "next" /\ todo = {} /\ owner = Free
    /\ mSubscriptions' = {}
    /\ Goto(Stopper, "stopped")
    /\ UNCHANGED <<sub, owner, todo, dropped>>

Stop == StopNext \/ StopRelease \/ StopEnds

-----------------------------------------------------------------------------
Init ==
    /\ sub = [s \in Subs |->
          [session |-> "none", lost |-> FALSE,
           stop |-> FALSE, callback |-> FALSE,  \* mStopCallInProgress, mOnDestroyCallback
           calling |-> Free,                    \* who has mStopCallInProgressMutex
           mutex |-> Free,                      \* who has mMutex of the subscription
           closed |-> FALSE, reported |-> FALSE,
           ptrs |-> {}]]                        \* the threads that have a SubscriptionPtr
    /\ mSubscriptions = {} /\ owner = Free /\ todo = {} /\ dropped = {}
    /\ thread = [t \in Threads |->
          [pc |-> IF t = Timer THEN "idle" ELSE IF t = Stopper THEN "running"
                  ELSE IF t[1] = "io" THEN "reading" ELSE "new",
           sub |-> IF Len(t) = 2 THEN t[2] ELSE CHOOSE s \in Subs : TRUE, then |-> ""]]

Create(s) == CreateSubscription(s) \/ Insert(s)
Session(s) == CallEnds(s) \/ SessionEnds(s) \/ Report(s)

Next ==
    \/ \E t \in Threads : Close(t)
    \/ \E s \in Subs :
           \/ CreateSession(s) \/ Create(s) \/ UserCloses(s) \/ UserDrops(s)
           \/ CallBegins(s) \/ ServantCloses(s) \/ ConnectionLost(s) \/ Session(s)
    \/ PingBegins \/ HarvestBegins \/ Harvest \/ StopBegins \/ Stop

Spec == Init /\ [][Next]_vars

(* A thread goes on with what it has begun, and a servant returns. *)
FairSpec ==
    /\ Spec
    /\ \A t \in Threads : SF_vars(Close(t))
    /\ \A s \in Subs : SF_vars(Create(s)) /\ WF_vars(Session(s))
    /\ SF_vars(Harvest) /\ SF_vars(Stop)

-----------------------------------------------------------------------------
(* Properties *)

(* SubscriptionService.cpp:128: who has closed a subscription may delete   *)
(* what it refers to, as no call is in progress and none will begin.       *)
NoCallAfterClose == \A s \in Subs : sub[s].closed => sub[s].calling = Free

(* A subscription does not outlive its connection: it is closed before the *)
(* session is gone, whoever else closes, drops or harvests it meanwhile.   *)
GoneIsClosed == \A s \in Subs : sub[s].session = "gone" /\ sub[s].ptrs # {} => sub[s].closed

(* The harvest has let go of the last pointer to a subscription, with      *)
(* mSubscriptionsMutex locked, which the destructor's close() locks too.   *)
HarvestLocksItself == thread[Timer].pc = "erase" /\ owner = Timer

(* A servant closes the subscription it is called by: close() waits for    *)
(* the call in progress, its own.                                          *)
ServantWaitsForItself == \E s \in Subs : thread[Io(s)].then = "in call"


(* SubscriptionService.cpp:583, an assertion of onServerStop() *)
StopLeavesNone == [][StopEnds => mSubscriptions = {}]_vars

(* SubscriptionService.cpp:660: "Kill off subscriptions that haven't       *)
(* received any recent pings"                                              *)
HarvestKills == \A s \in Subs : s \in dropped ~> sub[s].closed
=============================================================================
