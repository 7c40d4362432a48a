-------------------------- MODULE RcfClient_proofs --------------------------
(***************************************************************************)
(* Proofs about the parts of an RCF client, for any number of              *)
(* subscriptions, calls, callers and files: Subscription, ClientCall,      *)
(* RetryingClient, FileUpload and FileDownload, as RcfClientMC puts them   *)
(* together.                                                               *)
(***************************************************************************)
EXTENDS RcfClientMC, Sequences, SequenceTheorems, TLAPS

-----------------------------------------------------------------------------
(* A subscription                                                          *)
-----------------------------------------------------------------------------
(* Where a thread may be, and where it goes on after close() *)
CloseLabels == {"close", "stop calls", "erase"}
GoOnLabels == {"report", "using", "gone", "in call", "idle", "harvest", "drop", "release", "next"}
Labels ==
    CloseLabels \union GoOnLabels \union
    {"new", "create", "insert", "reading", "ping", "look", "running", "stopped"}

(* What a subscription, and the types of the variables, may be             *)
SubState ==
    [session : {"none", "open", "held", "ending", "gone"}, lost : BOOLEAN, stop : BOOLEAN,
     callback : BOOLEAN, calling : Threads \union {Free}, mutex : Threads \union {Free},
     closed : BOOLEAN, reported : BOOLEAN, ptrs : SUBSET Threads]
SubNames ==
    {"session", "lost", "stop", "callback", "calling", "mutex", "closed", "reported", "ptrs"}

(* The types of the variables                                              *)
SubTypes ==
    /\ sub \in [Subs -> SubState]
    /\ mSubscriptions \subseteq Subs /\ todo \subseteq Subs /\ dropped \subseteq Subs
    /\ DOMAIN thread = Threads

(* A call is in progress, though its servant may be in close(). *)
Within(t) == thread[t].pc \in CloseLabels /\ thread[t].then = "in call"
Calls(s) == thread[Io(s)].pc = "in call" \/ Within(Io(s))

(* A thread that is busy with a subscription has one; those of a           *)
(* subscription stay with it.  Who has seen close() to its end, or has     *)
(* found it done, has a closed subscription.                               *)
ThreadOK(t) ==
    /\ thread[t] \in [pc : Labels, sub : {thread[t].sub}, then : GoOnLabels \union {""}]
    /\ thread[t].pc \in CloseLabels => thread[t].then \in GoOnLabels
    /\ Within(t) => t = Io(thread[t].sub)
    /\ thread[t].pc \in CloseLabels \union {"ping", "look", "release", "report"} =>
       thread[t].sub \in Subs
    /\ \A s \in Subs : t \in {User(s), Io(s)} => thread[t].sub = s
    /\ thread[t].pc \in {"erase", "report"} => sub[thread[t].sub].closed

(* A subscription, its session and the call in progress *)
SubOK(s) ==
    /\ sub[s].closed => sub[s].lost
    /\ sub[s].calling \in {Free, Io(s)} /\ (sub[s].calling = Io(s) <=> Calls(s))
    /\ Calls(s) => sub[s].session = "open" /\ ~sub[s].closed
    /\ sub[s].ptrs # {} => sub[s].callback \/ sub[s].closed
    /\ sub[s].session = "gone" /\ sub[s].ptrs # {} => sub[s].closed

(* Nobody knows a subscription before it is made. *)
FreshOK(s) ==
    /\ thread[User(s)].pc = "new" => sub[s].session = "none"
    /\ thread[User(s)].pc = "create" => sub[s].session \in {"open", "held"}
    /\ thread[User(s)].pc \in {"new", "create"} => thread[Io(s)].pc \in {"reading", "in call"}

(* The inductive invariant of subscriptions                                *)
SubscriptionInv ==
    /\ SubTypes
    /\ \A t \in Threads : ThreadOK(t)
    /\ \A s \in Subs : SubOK(s) /\ FreshOK(s)

-----------------------------------------------------------------------------
(* The fields of a subscription *)
LEMMA SubFields == \A x \in SubState : DOMAIN x = SubNames
  BY DEF SubState, SubNames

(* The threads are different. *)
LEMMA Distinct ==
    /\ \A s, r \in Subs : User(s) # Io(r) /\ (User(s) = User(r) => s = r) /\ (Io(s) = Io(r) =>
       s = r)
    /\ \A s \in Subs : {User(s), Io(s)} \intersect {Timer, Stopper, Free} = {}
    /\ Timer # Stopper /\ Timer # Free /\ Stopper # Free
    /\ \A s \in Subs : User(s) \in Threads /\ Io(s) \in Threads
    /\ Timer \in Threads /\ Stopper \in Threads
  BY DEF User, Io, Timer, Stopper, Free, Threads

(* A step of thread t with subscription s leaves the others as they are.   *)
LEMMA OneStep ==
    ASSUME SubscriptionInv, SubTypes', NEW t \in Threads, NEW s \in Subs,
           \A u \in Threads \ {t} : thread'[u] = thread[u],
           \A r \in Subs \ {s} : sub'[r] = sub[r] /\ t # User(r) /\ t # Io(r),
           sub[s].closed => sub'[s].closed,
           ThreadOK(t)', SubOK(s)', FreshOK(s)'
    PROVE  SubscriptionInv'
<1>1. ASSUME NEW u \in Threads, u # t PROVE ThreadOK(u)'
  <2>1. ThreadOK(u) /\ thread'[u] = thread[u]
    BY <1>1 DEF SubscriptionInv
  <2>2. thread[u].pc \in {"erase", "report"} => thread[u].sub \in Subs /\ sub'[thread[u].sub].closed
    BY <2>1 DEF ThreadOK, Within, CloseLabels
  <2> QED
    BY <2>1, <2>2 DEF ThreadOK, Within
<1>2. ASSUME NEW r \in Subs, r # s PROVE SubOK(r)' /\ FreshOK(r)'
  <2>1. thread'[Io(r)] = thread[Io(r)] /\ thread'[User(r)] = thread[User(r)] /\ sub'[r] = sub[r]
    BY <1>2, Distinct
  <2>2. SubOK(r) /\ FreshOK(r)
    BY DEF SubscriptionInv
  <2>3. SubOK(r)'
    BY <2>1, <2>2 DEF SubOK, Calls, Within
  <2>4. FreshOK(r)'
    BY <2>1, <2>2 DEF FreshOK
  <2> QED
    BY <2>3, <2>4
<1> QED
  BY <1>1, <1>2 DEF SubscriptionInv

(* A step of the timer or the stopper that changes no subscription *)
LEMMA QuietStep ==
    ASSUME SubscriptionInv, SubTypes', NEW t \in {Timer, Stopper}, sub' = sub,
           \A u \in Threads \ {t} : thread'[u] = thread[u], ThreadOK(t)'
    PROVE  SubscriptionInv'
<1>1. ASSUME NEW u \in Threads, u # t PROVE ThreadOK(u)'
  BY <1>1 DEF ThreadOK, SubscriptionInv, Within, CloseLabels
<1>2. ASSUME NEW r \in Subs PROVE SubOK(r)' /\ FreshOK(r)'
  <2>1. thread'[Io(r)] = thread[Io(r)] /\ thread'[User(r)] = thread[User(r)]
    BY Distinct
  <2> QED
    BY <2>1 DEF SubOK, Calls, Within, FreshOK, SubscriptionInv
<1> QED
  BY <1>1, <1>2 DEF SubscriptionInv

(* A thread that is no user before it has subscribed, and no session that  *)
(* reads or is in a call, moves, and not to there; it begins no close()    *)
(* within a call.                                                          *)
LEMMA Moved ==
    ASSUME NEW t \in Threads, NEW s \in Subs, FreshOK(s),
           \A u \in Threads \ {t} : thread'[u] = thread[u],
           thread[t].pc \notin {"new", "create", "reading", "in call"},
           thread'[t].pc \notin {"new", "create", "reading", "in call"},
           Within(t)' <=> Within(t)
    PROVE  /\ Calls(s)' <=> Calls(s)
           /\ sub'[s].session = sub[s].session => FreshOK(s)'
<1>1. Io(s) \in Threads /\ User(s) \in Threads
  BY Distinct
<1>2. Calls(s)' <=> Calls(s)
  <2>1. Within(Io(s))' <=> Within(Io(s))
    BY <1>1 DEF Within
  <2>2. thread'[Io(s)].pc = "in call" <=> thread[Io(s)].pc = "in call"
    BY <1>1
  <2> QED
    BY <2>1, <2>2 DEF Calls
<1>3. thread'[User(s)].pc \in {"new", "create"} =>
          /\ thread[User(s)].pc = thread'[User(s)].pc
          /\ thread'[Io(s)] = thread[Io(s)]
  BY <1>1 DEF FreshOK
<1>4. sub'[s].session = sub[s].session => FreshOK(s)'
  BY <1>3 DEF FreshOK
<1> QED
  BY <1>2, <1>4

-----------------------------------------------------------------------------
(* close() *)

(* close() marks the subscription closed, stops the calls that run, and    *)
(* drops the session.                                                      *)
LEMMA CloseStep ==
    ASSUME SubscriptionInv, NEW t \in Threads, NEW s \in Subs, s = thread[t].sub, Close(t)
    PROVE  SubscriptionInv'
<1>1. /\ ThreadOK(t) /\ thread[t].pc \in CloseLabels /\ thread[t].then \in GoOnLabels
      /\ \A r \in Subs \ {s} : t # User(r) /\ t # Io(r)
      /\ SubOK(s) /\ FreshOK(s) /\ sub[s] \in SubState
  BY DEF Close, CloseBegins, CallsStop, CloseEnds, SubscriptionInv, ThreadOK, Within, CloseLabels,
     SubTypes
<1>2. UNCHANGED <<todo, dropped>> /\ mSubscriptions' \subseteq Subs
  BY DEF Close, CloseBegins, CallsStop, CloseEnds, SubscriptionInv, SubTypes
<1>3. ASSUME NEW pc \in Labels, Goto(t, pc)
      PROVE  /\ DOMAIN thread' = Threads /\ thread'[t].pc = pc
             /\ thread'[t] \in [pc : Labels, sub : {s}, then : GoOnLabels]
             /\ thread'[t].sub = s /\ thread'[t].then = thread[t].then
             /\ \A u \in Threads \ {t} : thread'[u] = thread[u]
  BY <1>1, <1>3 DEF Goto, SubscriptionInv, SubTypes, ThreadOK
<1>4. /\ thread[t].pc \notin {"new", "create", "reading", "in call"}
      /\ sub[s].closed => thread[t].then # "in call"
  <2>1. thread[t].then = "in call" => Calls(s)
    BY <1>1 DEF ThreadOK, Calls, Within
  <2>2. Calls(s) /\ sub[s].closed => FALSE
    BY <1>1, Distinct DEF SubOK
  <2> QED
    BY <1>1, <2>1, <2>2 DEF CloseLabels
<1>5. CASE CloseBegins(t)
  <2>1. CASE sub[s].closed
    <3>1. Goto(t, thread[t].then) /\ sub' = sub /\ thread[t].then \in Labels
      BY <1>1, <1>5, <2>1 DEF CloseBegins, Labels
    <3>2. thread'[t].pc \notin CloseLabels \union {"new", "create", "in call", "ping", "look"}
            /\ thread'[t].pc = thread[t].then
      BY <1>1, <1>3, <1>4, <2>1, <3>1 DEF GoOnLabels, CloseLabels
    <3>3. ThreadOK(t)'
      BY <1>1, <1>3, <2>1, <3>1, <3>2 DEF ThreadOK, Within, CloseLabels
    <3>4. SubOK(s)' /\ FreshOK(s)'
      <4>1. Within(t)' <=> Within(t)
        BY <1>4, <2>1, <3>2 DEF Within
      <4>2. thread'[t].pc \notin {"new", "create", "reading", "in call"}
        BY <1>1, <1>4, <2>1, <3>2 DEF GoOnLabels
      <4>3. FreshOK(s)' /\ (Calls(s)' <=> Calls(s))
        BY <1>1, <1>3, <1>4, <3>1, <4>1, <4>2, Moved
      <4> QED
        BY <1>1, <3>1, <4>3 DEF SubOK
    <3>5. SubTypes'
      BY <1>2, <1>3, <3>1 DEF SubTypes, SubscriptionInv
    <3> QED
      BY <1>1, <1>3, <3>1, <3>3, <3>4, <3>5, OneStep
  <2>2. CASE ~sub[s].closed
    <3>1. Goto(t, "stop calls") /\ sub' = [sub EXCEPT ![s].mutex = t]
      BY <1>5, <2>2 DEF CloseBegins
    <3>2. "stop calls" \in Labels
      BY DEF Labels, CloseLabels
    <3>3. thread'[t].pc = "stop calls"
      BY <1>3, <3>1, <3>2
    <3>4. /\ sub' \in [Subs -> SubState] /\ \A r \in Subs \ {s} : sub'[r] = sub[r]
          /\ sub'[s].closed = sub[s].closed /\ sub'[s].lost = sub[s].lost
          /\ sub'[s].session = sub[s].session /\ sub'[s].calling = sub[s].calling
          /\ sub'[s].callback = sub[s].callback /\ sub'[s].ptrs = sub[s].ptrs
      BY <1>1, <3>1 DEF SubTypes, SubscriptionInv, SubState
    <3>5. ThreadOK(t)'
      BY <1>1, <1>3, <3>1, <3>2, <3>3 DEF ThreadOK, Within, CloseLabels
    <3>6. SubOK(s)' /\ FreshOK(s)'
      <4>0. Within(t)' <=> Within(t)
        BY <1>1, <1>3, <3>1, <3>2, <3>3 DEF Within, CloseLabels
      <4>1. FreshOK(s)' /\ (Calls(s)' <=> Calls(s))
        BY <1>1, <1>3, <1>4, <3>1, <3>2, <3>3, <3>4, <4>0, Moved
      <4> QED
        BY <1>1, <3>4, <4>1 DEF SubOK
    <3>7. SubTypes'
      BY <1>2, <1>3, <3>1, <3>2, <3>4 DEF SubTypes, SubscriptionInv
    <3> QED
      <4>1. \A u \in Threads \ {t} : thread'[u] = thread[u]
        BY <1>3, <3>1, <3>2
      <4> QED
        BY <1>1, <3>4, <3>5, <3>6, <3>7, <4>1, OneStep
  <2> QED
    BY <2>1, <2>2
<1>6. CASE CallsStop(t)
  <2>1. /\ Goto(t, "erase") /\ (HasSession(s) => sub[s].calling = Free)
        /\ sub' = [sub EXCEPT ![s].stop = HasSession(s), ![s].callback = @ /\ ~HasSession(s),
                              ![s].lost = TRUE, ![s].closed = TRUE, ![s].mutex = Free]
    BY <1>6 DEF CallsStop, CallsStopped
  <2>2. "erase" \in Labels
    BY DEF Labels, CloseLabels
  <2>3. thread'[t].pc = "erase"
    BY <1>3, <2>1, <2>2
  <2>4. /\ \A u \in Threads \ {t} : thread'[u] = thread[u]
        /\ DOMAIN thread' = Threads
    BY <1>3, <2>1, <2>2
  <2>5. /\ sub' \in [Subs -> SubState] /\ \A r \in Subs \ {s} : sub'[r] = sub[r]
        /\ sub'[s].closed /\ sub'[s].lost
        /\ sub'[s].session = sub[s].session /\ sub'[s].calling = sub[s].calling
        /\ sub'[s].ptrs = sub[s].ptrs
    <3>1. HasSession(s) \in BOOLEAN /\ (sub[s].callback /\ ~HasSession(s)) \in BOOLEAN
      BY DEF HasSession
    <3>2. PICK h \in BOOLEAN, c \in BOOLEAN :
              sub' = [sub EXCEPT ![s].stop = h, ![s].callback = c,
                                 ![s].lost = TRUE, ![s].closed = TRUE, ![s].mutex = Free]
      BY <2>1, <3>1
    <3>3. sub \in [Subs -> SubState] /\ Free \in Threads \union {Free}
      BY DEF SubTypes, SubscriptionInv
    <3>4. sub' = [r \in Subs |-> IF r = s THEN [sub[s] EXCEPT !.stop = h, !.callback = c,
            !.lost = TRUE,
                                                  !.closed = TRUE, !.mutex = Free] ELSE sub[r]]
      BY <3>2, <3>3
    <3>5. [sub[s] EXCEPT !.stop = h, !.callback = c, !.lost = TRUE, !.closed = TRUE,
            !.mutex = Free] \in SubState
      <4>1. PICK x \in SubState, f \in Threads \union {Free} : x = sub[s] /\ f = Free
        BY <1>1
      <4>2. PICK y \in SubState : y = [x EXCEPT !.stop = h, !.callback = c]
        BY DEF SubState
      <4>3. [y EXCEPT !.lost = TRUE, !.closed = TRUE, !.mutex = f] \in SubState
        BY DEF SubState
      <4> QED
        BY <4>1, <4>2, <4>3
    <3>6. DOMAIN sub[s] = SubNames
      BY <1>1, SubFields
    <3>7. sub' \in [Subs -> SubState] /\ \A r \in Subs \ {s} : sub'[r] = sub[r]
      BY <3>3, <3>4, <3>5
    <3>8. sub'[s] = [sub[s] EXCEPT !.stop = h, !.callback = c, !.lost = TRUE, !.closed = TRUE,
                                   !.mutex = Free]
      BY <3>4
    <3> QED
      BY <3>6, <3>7, <3>8 DEF SubNames
  <2>6. sub[s].calling = Free /\ ~Calls(s)
    <3>1. sub[s].calling = Free
      BY <1>1, <2>1 DEF SubOK, HasSession
    <3> QED
      BY <1>1, <3>1, Distinct DEF SubOK
  <2>7. FreshOK(s)' /\ ~Calls(s)'
    <3>1. thread'[t].then = thread[t].then
      BY <1>3, <2>1, <2>2
    <3>2. Within(t)' <=> Within(t)
      BY <1>1, <2>3, <3>1 DEF Within, CloseLabels
    <3>3. FreshOK(s)' /\ (Calls(s)' <=> Calls(s))
      BY <1>1, <1>4, <2>3, <2>4, <2>5, <3>2, Moved
    <3> QED
      BY <2>6, <3>3
  <2>8. SubOK(s)'
    BY <2>5, <2>6, <2>7, Distinct DEF SubOK
  <2>9. ThreadOK(t)'
    BY <1>1, <1>3, <2>1, <2>2, <2>3, <2>5 DEF ThreadOK, Within, CloseLabels
  <2>10. SubTypes'
    BY <1>2, <2>4, <2>5 DEF SubTypes, SubscriptionInv
  <2> QED
    BY <1>1, <2>4, <2>5, <2>7, <2>8, <2>9, <2>10, OneStep
<1>7. CASE CloseEnds(t)
  <2>1. Goto(t, thread[t].then) /\ sub' = sub /\ thread[t].then \in Labels /\ sub[s].closed
    BY <1>1, <1>7 DEF CloseEnds, Labels, ThreadOK
  <2>2. thread'[t].pc \notin CloseLabels \union {"new", "create", "in call", "ping", "look",
          "reading"}
    BY <1>1, <1>3, <1>4, <1>7, <2>1 DEF GoOnLabels, CloseLabels
  <2>3. ThreadOK(t)'
    BY <1>1, <1>3, <2>1, <2>2 DEF ThreadOK, Within, CloseLabels
  <2>4. FreshOK(s)' /\ (Calls(s)' <=> Calls(s))
    <3>1. Within(t)' <=> Within(t)
      BY <1>4, <2>1, <2>2 DEF Within
    <3>2. thread'[t].pc \notin {"new", "create", "reading", "in call"}
      BY <2>2
    <3> QED
      BY <1>1, <1>3, <1>4, <2>1, <3>1, <3>2, Moved
  <2>5. SubOK(s)'
    BY <1>1, <2>1, <2>4 DEF SubOK
  <2>6. SubTypes'
    BY <1>2, <1>3, <2>1 DEF SubTypes, SubscriptionInv
  <2> QED
    BY <1>1, <1>3, <2>1, <2>3, <2>4, <2>5, <2>6, OneStep
<1> QED
  BY <1>5, <1>6, <1>7 DEF Close

(* What goto and closing do to a thread *)
LEMMA GotoDoes ==
    ASSUME SubscriptionInv, NEW t \in Threads, NEW pc \in Labels, Goto(t, pc)
    PROVE  /\ DOMAIN thread' = Threads /\ thread'[t].pc = pc
           /\ thread'[t] \in [pc : Labels, sub : {thread[t].sub}, then : GoOnLabels \union {""}]
           /\ thread'[t].sub = thread[t].sub /\ thread'[t].then = thread[t].then
           /\ \A u \in Threads \ {t} : thread'[u] = thread[u]
<1>1. ThreadOK(t) /\ DOMAIN thread = Threads
  BY DEF SubscriptionInv, SubTypes
<1>2. thread[t] \in [pc : Labels, sub : {thread[t].sub}, then : GoOnLabels \union {""}]
  BY <1>1 DEF ThreadOK, Within
<1> QED
  BY <1>1, <1>2 DEF Goto

(* A thread begins close(), and knows where it goes on after it.           *)
LEMMA ClosingDoes ==
    ASSUME SubscriptionInv, NEW t \in Threads, NEW s \in Subs, NEW goOn \in GoOnLabels,
           goOn # "in call" \/ t = Io(s),
           Closing(t, s, goOn), \A r \in Subs \ {s} : t # User(r) /\ t # Io(r)
    PROVE  /\ DOMAIN thread' = Threads /\ thread'[t].pc = "close" /\ ThreadOK(t)'
           /\ thread'[t].then = goOn
           /\ \A u \in Threads \ {t} : thread'[u] = thread[u]
<1>1. DOMAIN thread = Threads
  BY DEF SubscriptionInv, SubTypes
<1>2. /\ DOMAIN thread' = Threads /\ thread'[t] = [pc |-> "close", sub |-> s, then |-> goOn]
      /\ \A u \in Threads \ {t} : thread'[u] = thread[u]
  BY <1>1 DEF Closing
<1>3. thread'[t] \in [pc : Labels, sub : {s}, then : GoOnLabels \union {""}]
  <2>1. "close" \in Labels
    BY DEF Labels, CloseLabels
  <2>2. goOn \in GoOnLabels \union {""} /\ s \in {s}
    OBVIOUS
  <2>3. [pc |-> "close", sub |-> s, then |-> goOn] \in
         [pc : Labels, sub : {s}, then : GoOnLabels \union {""}]
    BY <2>1, <2>2
  <2> QED
    BY <1>2, <2>3
<1>4. thread'[t].pc = "close" /\ thread'[t].sub = s /\ thread'[t].then = goOn
  <2>1. PICK r : r = [pc |-> "close", sub |-> s, then |-> goOn]
    OBVIOUS
  <2>2. r.pc = "close" /\ r.sub = s /\ r.then = goOn
    BY <2>1
  <2>3. thread'[t] = r
    BY <1>2, <2>1
  <2> QED
    BY <2>2, <2>3
<1>5. ThreadOK(t)'
  <2>1. Within(t)' => t = Io(thread'[t].sub)
    BY <1>4 DEF Within
  <2>2. thread'[t].pc \in CloseLabels => thread'[t].then \in GoOnLabels
    BY <1>4
  <2>3. \A r \in Subs : t \in {User(r), Io(r)} => thread'[t].sub = r
    BY <1>4
  <2> QED
    BY <1>3, <1>4, <2>1, <2>2, <2>3 DEF ThreadOK
<1> QED
  BY <1>2, <1>4, <1>5

(* A pointer is given up by a thread that is not the session's. *)
LEMMA ReleaseStep ==
    ASSUME SubscriptionInv, NEW t \in Threads, NEW s \in Subs,
           NEW then \in {"gone", "idle", "harvest", "drop", "next"}, Release(t, s, then),
           \A r \in Subs \ {s} : t # User(r) /\ t # Io(r),
           thread[t].pc \in {"using", "ping", "look", "drop", "release"},
           mSubscriptions' \subseteq Subs, todo' \subseteq Subs, dropped' \subseteq Subs
    PROVE  SubscriptionInv'
<1>1. SubOK(s) /\ FreshOK(s) /\ ThreadOK(t) /\ SubTypes
  BY DEF SubscriptionInv
<1>2. then \in Labels /\ then \in GoOnLabels
  BY DEF Labels, GoOnLabels
<1>3. /\ sub' \in [Subs -> SubState] /\ \A r \in Subs \ {s} : sub'[r] = sub[r]
      /\ sub'[s].closed = sub[s].closed /\ sub'[s].lost = sub[s].lost
      /\ sub'[s].session = sub[s].session /\ sub'[s].calling = sub[s].calling
      /\ sub'[s].callback = sub[s].callback /\ sub'[s].ptrs = sub[s].ptrs \ {t}
  <2>1. sub' = [sub EXCEPT ![s].ptrs = @ \ {t}] /\ sub[s] \in SubState /\ sub \in [Subs -> SubState]
    BY <1>1 DEF Release, SubTypes
  <2>2. PICK left \in SUBSET Threads : left = sub[s].ptrs \ {t}
    BY <2>1 DEF SubState
  <2>3. sub' = [sub EXCEPT ![s].ptrs = left]
    BY <2>1, <2>2
  <2>4. [sub[s] EXCEPT !.ptrs = left] \in SubState
    BY <2>1, <2>2 DEF SubState
  <2>5. sub' = [r \in Subs |-> IF r = s THEN [sub[s] EXCEPT !.ptrs = left] ELSE sub[r]]
    BY <2>1, <2>3
  <2>6. sub' \in [Subs -> SubState] /\ \A r \in Subs \ {s} : sub'[r] = sub[r]
    BY <2>1, <2>4, <2>5
  <2>7. sub'[s] = [sub[s] EXCEPT !.ptrs = left]
    BY <2>5
  <2>8. DOMAIN sub[s] = SubNames
    BY <2>1, SubFields
  <2> QED
    BY <2>2, <2>6, <2>7, <2>8 DEF SubNames
<1>4. /\ DOMAIN thread' = Threads /\ thread'[t].pc \in {"close", then} /\ ThreadOK(t)'
      /\ thread'[t].pc = "close" => thread'[t].then = then
      /\ \A u \in Threads \ {t} : thread'[u] = thread[u]
  <2>1. CASE Closing(t, s, then)
    BY <1>2, <2>1, ClosingDoes
  <2>2. CASE Goto(t, then)
    <3>1. /\ DOMAIN thread' = Threads /\ thread'[t].pc = then
          /\ thread'[t] \in [pc : Labels, sub : {thread[t].sub}, then : GoOnLabels \union {""}]
          /\ thread'[t].sub = thread[t].sub /\ thread'[t].then = thread[t].then
          /\ \A u \in Threads \ {t} : thread'[u] = thread[u]
      BY <1>2, <2>2, GotoDoes
    <3> QED
      BY <1>1, <3>1 DEF ThreadOK, Within, CloseLabels
  <2> QED
    BY <2>1, <2>2 DEF Release
<1>5. FreshOK(s)' /\ (Calls(s)' <=> Calls(s))
  <2>1. Within(t)' <=> Within(t)
    BY <1>4 DEF Within, CloseLabels
  <2>2. thread'[t].pc \notin {"new", "create", "reading", "in call"}
    BY <1>4
  <2> QED
    BY <1>1, <1>3, <1>4, <2>1, <2>2, Moved
<1>6. SubOK(s)'
  BY <1>1, <1>3, <1>5 DEF SubOK
<1>7. SubTypes'
  BY <1>3, <1>4 DEF SubTypes
<1> QED
  BY <1>1, <1>3, <1>4, <1>5, <1>6, <1>7, OneStep

-----------------------------------------------------------------------------
(* The user *)

(* The session of a new subscription is made.                              *)
LEMMA CreateSessionStep ==
    ASSUME SubscriptionInv, NEW s \in Subs, CreateSession(s)
    PROVE  SubscriptionInv'
<1>1. /\ SubOK(s) /\ FreshOK(s) /\ ThreadOK(User(s)) /\ SubTypes /\ User(s) \in Threads
      /\ Io(s) \in Threads
      /\ User(s) # Io(s) /\ \A r \in Subs \ {s} : User(s) # User(r) /\ User(s) # Io(r)
  BY Distinct DEF SubscriptionInv
<1>2. /\ thread[User(s)].pc = "new" /\ sub' = [sub EXCEPT ![s].session = "open"]
      /\ Goto(User(s), "create") /\ UNCHANGED <<mSubscriptions, todo, dropped>>
  BY DEF CreateSession
<1>3. /\ sub' \in [Subs -> SubState] /\ \A r \in Subs \ {s} : sub'[r] = sub[r]
      /\ sub'[s].closed = sub[s].closed /\ sub'[s].lost = sub[s].lost
      /\ sub'[s].session = "open" /\ sub'[s].calling = sub[s].calling
      /\ sub'[s].callback = sub[s].callback /\ sub'[s].ptrs = sub[s].ptrs
  <2>1. sub \in [Subs -> SubState] /\ sub[s] \in SubState
    BY <1>1 DEF SubTypes
  <2>2. [sub[s] EXCEPT !.session = "open"] \in SubState
    BY <2>1 DEF SubState
  <2>3. sub' = [sub EXCEPT ![s] = [sub[s] EXCEPT !.session = "open"]]
    BY <1>2
  <2>4. /\ sub' \in [Subs -> SubState] /\ sub'[s] = [sub[s] EXCEPT !.session = "open"]
        /\ \A r \in Subs \ {s} : sub'[r] = sub[r]
    BY <2>1, <2>2, <2>3
  <2> QED
    BY <2>1, <2>4 DEF SubState
<1>4. /\ DOMAIN thread' = Threads /\ thread'[User(s)].pc = "create"
      /\ thread'[User(s)] \in
             [pc : Labels, sub : {thread[User(s)].sub}, then : GoOnLabels \union {""}]
      /\ thread'[User(s)].sub = thread[User(s)].sub
      /\ \A u \in Threads \ {User(s)} : thread'[u] = thread[u]
  <2>1. "create" \in Labels
    BY DEF Labels, GoOnLabels
  <2> QED
    BY <1>1, <1>2, <2>1, GotoDoes
<1>5. thread'[Io(s)] = thread[Io(s)]
  BY <1>1, <1>4
<1>6. SubOK(s)' /\ FreshOK(s)'
  BY <1>1, <1>2, <1>3, <1>4, <1>5 DEF SubOK, Calls, Within, FreshOK
<1>7. ThreadOK(User(s))'
  BY <1>1, <1>4 DEF ThreadOK, Within, CloseLabels
<1>8. SubTypes'
  BY <1>1, <1>2, <1>3, <1>4 DEF SubTypes
<1> QED
  BY <1>1, <1>3, <1>4, <1>6, <1>7, <1>8, OneStep

(* The subscription is made of the session, or the session is lost.        *)
LEMMA CreateSubscriptionStep ==
    ASSUME SubscriptionInv, NEW s \in Subs, CreateSubscription(s)
    PROVE  SubscriptionInv'
<1>1. /\ SubOK(s) /\ FreshOK(s) /\ ThreadOK(User(s)) /\ SubTypes /\ User(s) \in Threads
      /\ Io(s) \in Threads
      /\ User(s) # Io(s) /\ \A r \in Subs \ {s} : User(s) # User(r) /\ User(s) # Io(r)
  BY Distinct DEF SubscriptionInv
<1>2. /\ thread[User(s)].pc = "create"
      /\ sub' = [sub EXCEPT ![s].callback = TRUE, ![s].ptrs = {User(s)}]
      /\ Goto(User(s), "insert") /\ UNCHANGED <<mSubscriptions, todo, dropped>>
  BY DEF CreateSubscription
<1>3. /\ sub' \in [Subs -> SubState] /\ \A r \in Subs \ {s} : sub'[r] = sub[r]
      /\ sub'[s].closed = sub[s].closed /\ sub'[s].lost = sub[s].lost
      /\ sub'[s].session = sub[s].session /\ sub'[s].calling = sub[s].calling
      /\ sub'[s].callback
  <2>1. PICK one \in SUBSET Threads : sub' = [sub EXCEPT ![s].callback = TRUE, ![s].ptrs = one]
    BY <1>1, <1>2
  <2>2. sub[s] \in SubState /\ sub \in [Subs -> SubState]
    BY <1>1 DEF SubTypes
  <2>3. [sub[s] EXCEPT !.callback = TRUE, !.ptrs = one] \in SubState
    BY <2>2 DEF SubState
  <2>4. sub' = [r \in Subs |-> IF r = s THEN [sub[s] EXCEPT !.callback = TRUE,
          !.ptrs = one] ELSE sub[r]]
    BY <2>1, <2>2
  <2> QED
    <3>1. DOMAIN sub[s] = SubNames
      BY <2>2, SubFields
    <3>2. sub' \in [Subs -> SubState] /\ \A r \in Subs \ {s} : sub'[r] = sub[r]
      BY <2>2, <2>3, <2>4
    <3>3. sub'[s] = [sub[s] EXCEPT !.callback = TRUE, !.ptrs = one]
      BY <2>4
    <3> QED
      BY <3>1, <3>2, <3>3 DEF SubNames
<1>4. /\ DOMAIN thread' = Threads /\ thread'[User(s)].pc = "insert"
      /\ thread'[User(s)] \in
             [pc : Labels, sub : {thread[User(s)].sub}, then : GoOnLabels \union {""}]
      /\ thread'[User(s)].sub = thread[User(s)].sub
      /\ \A u \in Threads \ {User(s)} : thread'[u] = thread[u]
  <2>1. "insert" \in Labels
    BY DEF Labels, GoOnLabels
  <2> QED
    BY <1>1, <1>2, <2>1, GotoDoes
<1>5. thread'[Io(s)] = thread[Io(s)]
  BY <1>1, <1>4
<1>6. SubOK(s)' /\ FreshOK(s)'
  BY <1>1, <1>2, <1>3, <1>4, <1>5 DEF SubOK, Calls, Within, FreshOK
<1>7. ThreadOK(User(s))'
  BY <1>1, <1>4 DEF ThreadOK, Within, CloseLabels
<1>8. SubTypes'
  BY <1>1, <1>2, <1>3, <1>4 DEF SubTypes
<1> QED
  BY <1>1, <1>3, <1>4, <1>6, <1>7, <1>8, OneStep

(* The subscription is put into the list that the timer looks at.          *)
LEMMA InsertStep ==
    ASSUME SubscriptionInv, NEW s \in Subs, Insert(s)
    PROVE  SubscriptionInv'
<1>1. /\ SubOK(s) /\ FreshOK(s) /\ ThreadOK(User(s)) /\ SubTypes /\ User(s) \in Threads
      /\ Io(s) \in Threads
      /\ User(s) # Io(s) /\ \A r \in Subs \ {s} : User(s) # User(r) /\ User(s) # Io(r)
  BY Distinct DEF SubscriptionInv
<1>2. /\ thread[User(s)].pc = "insert" /\ UNCHANGED <<todo, dropped>>
      /\ mSubscriptions' = mSubscriptions \union {s}
      /\ sub' = [sub EXCEPT ![s].session = IF @ = "held" THEN "ending" ELSE @]
      /\ Closing(User(s), s, "report") \/ Goto(User(s), "using")
  BY DEF Insert
<1>3. /\ sub' \in [Subs -> SubState] /\ \A r \in Subs \ {s} : sub'[r] = sub[r]
      /\ sub'[s].closed = sub[s].closed /\ sub'[s].lost = sub[s].lost
      /\ sub'[s].session = (IF sub[s].session = "held" THEN "ending" ELSE sub[s].session)
      /\ sub'[s].calling = sub[s].calling
      /\ sub'[s].callback = sub[s].callback /\ sub'[s].ptrs = sub[s].ptrs
  BY <1>1, <1>2 DEF SubTypes, SubState
<1>4. /\ DOMAIN thread' = Threads /\ thread'[User(s)].pc \in {"using", "close"}
      /\ ThreadOK(User(s))'
      /\ \A u \in Threads \ {User(s)} : thread'[u] = thread[u]
  <2>1. CASE Closing(User(s), s, "report")
    BY <1>1, <2>1, ClosingDoes DEF GoOnLabels
  <2>2. CASE Goto(User(s), "using")
    <3>1. "using" \in Labels
      BY DEF Labels, GoOnLabels
    <3>2. /\ DOMAIN thread' = Threads /\ thread'[User(s)].pc = "using"
          /\ thread'[User(s)] \in
                 [pc : Labels, sub : {thread[User(s)].sub}, then : GoOnLabels \union {""}]
          /\ thread'[User(s)].sub = thread[User(s)].sub
          /\ \A u \in Threads \ {User(s)} : thread'[u] = thread[u]
      BY <1>1, <2>2, <3>1, GotoDoes
    <3> QED
      BY <1>1, <3>2 DEF ThreadOK, Within, CloseLabels
  <2> QED
    BY <1>2, <2>1, <2>2
<1>5. thread'[Io(s)] = thread[Io(s)]
  BY <1>1, <1>4
<1>6. SubOK(s)' /\ FreshOK(s)'
  <2>1. SubOK(s)'
    BY <1>1, <1>3, <1>5 DEF SubOK, Calls, Within
  <2>2. FreshOK(s)'
    BY <1>4 DEF FreshOK
  <2> QED
    BY <2>1, <2>2
<1>7. SubTypes'
  BY <1>1, <1>2, <1>3, <1>4 DEF SubTypes
<1> QED
  BY <1>1, <1>3, <1>4, <1>6, <1>7, OneStep

(* The steps of who subscribes                                             *)
LEMMA UserStep ==
    ASSUME SubscriptionInv, NEW s \in Subs, UserCloses(s) \/ UserDrops(s)
    PROVE  SubscriptionInv'
<1>1. /\ SubOK(s) /\ FreshOK(s) /\ SubTypes /\ User(s) \in Threads /\ thread[User(s)].pc = "using"
      /\ \A r \in Subs \ {s} : User(s) # User(r) /\ User(s) # Io(r)
  BY Distinct DEF SubscriptionInv, UserCloses, UserDrops
<1>2. UNCHANGED <<mSubscriptions, todo, dropped>>
  BY DEF UserCloses, UserDrops
<1>3. CASE UserCloses(s)
  <2>1. sub' = sub /\ Closing(User(s), s, "using") /\ "using" \in GoOnLabels
    BY <1>3 DEF UserCloses, GoOnLabels
  <2>2. /\ DOMAIN thread' = Threads /\ thread'[User(s)].pc = "close" /\ ThreadOK(User(s))'
        /\ \A u \in Threads \ {User(s)} : thread'[u] = thread[u]
    BY <1>1, <2>1, ClosingDoes
  <2>3. FreshOK(s)' /\ (Calls(s)' <=> Calls(s))
    <3>1. thread'[User(s)].then = "using"
      BY <1>1, <2>1, ClosingDoes
    <3>2. Within(User(s))' <=> Within(User(s))
      BY <1>1, <2>2, <3>1 DEF Within, CloseLabels
    <3> QED
      BY <1>1, <2>1, <2>2, <3>2, Moved
  <2>4. SubOK(s)' /\ SubTypes'
    BY <1>1, <1>2, <2>1, <2>2, <2>3 DEF SubOK, SubTypes
  <2> QED
    BY <1>1, <2>1, <2>2, <2>3, <2>4, OneStep
<1>4. CASE UserDrops(s)
  <2>1. Release(User(s), s, "gone")
    BY <1>4 DEF UserDrops
  <2> QED
    BY <1>1, <1>2, <2>1, ReleaseStep DEF SubTypes
<1> QED
  BY <1>3, <1>4

-----------------------------------------------------------------------------
(* The session *)

(* A call of the publisher is let in only if the subscription is open.     *)
LEMMA CallBeginsStep ==
    ASSUME SubscriptionInv, NEW s \in Subs, CallBegins(s)
    PROVE  SubscriptionInv'
<1>1. /\ SubOK(s) /\ FreshOK(s) /\ ThreadOK(Io(s)) /\ SubTypes /\ User(s) \in Threads
      /\ Io(s) \in Threads
      /\ User(s) # Io(s) /\ \A r \in Subs \ {s} : Io(s) # User(r) /\ Io(s) # Io(r)
  BY Distinct DEF SubscriptionInv
<1>2. /\ sub[s].session = "open" /\ ~sub[s].lost /\ thread[Io(s)].pc = "reading"
      /\ sub[s].calling = Free
      /\ sub' = [sub EXCEPT ![s].calling = IF sub[s].stop THEN Free ELSE Io(s),
         ![s].lost = sub[s].stop]
      /\ IF sub[s].stop THEN UNCHANGED thread ELSE Goto(Io(s), "in call")
      /\ UNCHANGED <<mSubscriptions, todo, dropped>>
  BY DEF CallBegins
<1>3. sub[s] \in SubState /\ sub \in [Subs -> SubState] /\ sub[s].stop \in BOOLEAN /\ ~sub[s].closed
  BY <1>1, <1>2 DEF SubTypes, SubState, SubOK
<1>4. CASE sub[s].stop
  <2>1. sub' = [sub EXCEPT ![s].calling = Free, ![s].lost = sub[s].stop] /\ thread' = thread
    BY <1>2, <1>4
  <2>2. /\ sub' \in [Subs -> SubState] /\ \A r \in Subs \ {s} : sub'[r] = sub[r]
        /\ sub'[s].closed = sub[s].closed
        /\ sub'[s].session = sub[s].session
        /\ sub'[s].callback = sub[s].callback /\ sub'[s].ptrs = sub[s].ptrs
    BY <1>3, <2>1 DEF SubState
  <2>3. SubOK(s)'
    <3>1. sub'[s].calling = Free /\ (Calls(s)' <=> Calls(s))
      BY <1>1, <1>3, <2>1 DEF Calls, Within, SubTypes, SubState
    <3>2. ~Calls(s)
      BY <1>2 DEF Calls, Within, CloseLabels
    <3> QED
      BY <1>1, <1>2, <1>3, <2>1, <2>2, <3>1, <3>2 DEF SubOK
  <2>4. FreshOK(s)' /\ ThreadOK(Io(s))' /\ SubTypes'
    BY <1>1, <1>2, <2>1, <2>2 DEF FreshOK, ThreadOK, SubTypes, Within, CloseLabels
  <2> QED
    BY <1>1, <2>1, <2>2, <2>3, <2>4, OneStep
<1>5. CASE ~sub[s].stop
  <2>1. sub' = [sub EXCEPT ![s].calling = Io(s), ![s].lost = sub[s].stop] /\ Goto(Io(s), "in call")
    BY <1>2, <1>5
  <2>2. [sub[s] EXCEPT !.calling = Io(s), !.lost = sub[s].stop] \in SubState
    BY <1>1, <1>3 DEF SubState
  <2>3. sub' = [r \in Subs |-> IF r = s THEN [sub[s] EXCEPT !.calling = Io(s),
          !.lost = sub[s].stop] ELSE sub[r]]
    BY <1>3, <2>1
  <2>4. /\ sub' \in [Subs -> SubState] /\ \A r \in Subs \ {s} : sub'[r] = sub[r]
        /\ sub'[s] = [sub[s] EXCEPT !.calling = Io(s), !.lost = sub[s].stop]
    BY <1>3, <2>2, <2>3
  <2>5. /\ sub'[s].closed = sub[s].closed
        /\ sub'[s].session = sub[s].session /\ sub'[s].calling = Io(s)
        /\ sub'[s].callback = sub[s].callback /\ sub'[s].ptrs = sub[s].ptrs
    BY <1>3, <2>4 DEF SubState
  <2>6. "in call" \in Labels
    BY DEF Labels, GoOnLabels
  <2>7. /\ DOMAIN thread' = Threads /\ thread'[Io(s)].pc = "in call"
        /\ thread'[Io(s)] \in
               [pc : Labels, sub : {thread[Io(s)].sub}, then : GoOnLabels \union {""}]
        /\ thread'[Io(s)].sub = thread[Io(s)].sub
        /\ \A u \in Threads \ {Io(s)} : thread'[u] = thread[u]
    BY <1>1, <2>1, <2>6, GotoDoes
  <2>8. thread'[User(s)] = thread[User(s)]
    BY <1>1, <2>7
  <2>9. SubOK(s)'
    BY <1>1, <1>2, <1>3, <2>5, <2>7 DEF SubOK, Calls
  <2>10. FreshOK(s)'
    BY <1>1, <2>5, <2>7, <2>8 DEF FreshOK
  <2>11. ThreadOK(Io(s))' /\ SubTypes'
    BY <1>1, <1>2, <2>4, <2>7 DEF ThreadOK, SubTypes, Within, CloseLabels
  <2> QED
    BY <1>1, <2>4, <2>5, <2>7, <2>9, <2>10, <2>11, OneStep
<1> QED
  BY <1>3, <1>4, <1>5

LEMMA ServantClosesStep ==
    ASSUME SubscriptionInv, NEW s \in Subs, ServantCloses(s)
    PROVE  SubscriptionInv'
<1>1. /\ SubOK(s) /\ FreshOK(s) /\ SubTypes /\ User(s) \in Threads /\ Io(s) \in Threads
      /\ User(s) # Io(s) /\ \A r \in Subs \ {s} : Io(s) # User(r) /\ Io(s) # Io(r)
  BY Distinct DEF SubscriptionInv
<1>2. /\ thread[Io(s)].pc = "in call" /\ thread[User(s)].pc \notin {"new", "create"}
      /\ Closing(Io(s), s, "in call") /\ UNCHANGED <<sub, mSubscriptions, todo, dropped>>
  BY DEF ServantCloses
<1>3. /\ DOMAIN thread' = Threads /\ thread'[Io(s)].pc = "close" /\ ThreadOK(Io(s))'
      /\ \A u \in Threads \ {Io(s)} : thread'[u] = thread[u]
  <2>1. "in call" \in GoOnLabels
    BY DEF GoOnLabels
  <2> QED
    BY <1>1, <1>2, <2>1, ClosingDoes
<1>4. Calls(s)
  BY <1>2 DEF Calls
<1>5. SubOK(s)'
  <2>1. thread'[Io(s)].then = "in call"
    BY <1>1, <1>2, ClosingDoes DEF GoOnLabels
  <2>2. Calls(s)'
    BY <1>3, <2>1 DEF Calls, Within, CloseLabels
  <2> QED
    BY <1>1, <1>2, <1>4, <2>2 DEF SubOK
<1>6. FreshOK(s)' /\ SubTypes'
  <2>1. thread'[User(s)] = thread[User(s)]
    BY <1>1, <1>3
  <2> QED
    BY <1>1, <1>2, <1>3, <2>1 DEF FreshOK, SubTypes
<1> QED
  BY <1>1, <1>2, <1>3, <1>5, <1>6, OneStep

(* A call that ends leaves no one in.                                      *)
LEMMA CallEndsStep ==
    ASSUME SubscriptionInv, NEW s \in Subs, CallEnds(s)
    PROVE  SubscriptionInv'
<1>1. /\ SubOK(s) /\ FreshOK(s) /\ ThreadOK(Io(s)) /\ SubTypes /\ User(s) \in Threads
      /\ Io(s) \in Threads
      /\ User(s) # Io(s) /\ \A r \in Subs \ {s} : Io(s) # User(r) /\ Io(s) # Io(r)
  BY Distinct DEF SubscriptionInv
<1>2. /\ thread[Io(s)].pc = "in call" /\ sub' = [sub EXCEPT ![s].calling = Free]
      /\ Goto(Io(s), "reading") /\ UNCHANGED <<mSubscriptions, todo, dropped>>
  BY DEF CallEnds
<1>3. /\ sub' \in [Subs -> SubState] /\ \A r \in Subs \ {s} : sub'[r] = sub[r]
      /\ sub'[s].closed = sub[s].closed /\ sub'[s].lost = sub[s].lost
      /\ sub'[s].session = sub[s].session
      /\ sub'[s].callback = sub[s].callback /\ sub'[s].ptrs = sub[s].ptrs /\ sub'[s].calling = Free
  <2>1. sub[s] \in SubState /\ sub \in [Subs -> SubState] /\ sub' = [sub EXCEPT ![s].calling = Free]
    BY <1>1, <1>2 DEF SubTypes
  <2>2. [sub[s] EXCEPT !.calling = Free] \in SubState
    BY <2>1 DEF SubState
  <2>3. /\ sub' \in [Subs -> SubState] /\ \A r \in Subs \ {s} : sub'[r] = sub[r]
        /\ sub'[s] = [sub[s] EXCEPT !.calling = Free]
    BY <2>1, <2>2
  <2> QED
    BY <2>1, <2>3 DEF SubState
<1>4. /\ DOMAIN thread' = Threads /\ thread'[Io(s)].pc = "reading"
      /\ thread'[Io(s)] \in [pc : Labels, sub : {thread[Io(s)].sub}, then : GoOnLabels \union {""}]
      /\ thread'[Io(s)].sub = thread[Io(s)].sub
      /\ \A u \in Threads \ {Io(s)} : thread'[u] = thread[u]
  <2>1. "reading" \in Labels
    BY DEF Labels, GoOnLabels
  <2> QED
    BY <1>1, <1>2, <2>1, GotoDoes
<1>5. thread'[User(s)] = thread[User(s)]
  BY <1>1, <1>4
<1>6. SubOK(s)'
  <2>1. ~Calls(s)'
    BY <1>4 DEF Calls, Within, CloseLabels
  <2> QED
    BY <1>1, <1>3, <2>1, Distinct DEF SubOK
<1>7. FreshOK(s)'
  BY <1>1, <1>3, <1>4, <1>5 DEF FreshOK
<1>8. ThreadOK(Io(s))' /\ SubTypes'
  BY <1>1, <1>2, <1>3, <1>4 DEF ThreadOK, SubTypes, Within, CloseLabels
<1> QED
  BY <1>1, <1>3, <1>4, <1>6, <1>7, <1>8, OneStep

(* A connection that is lost *)
LEMMA LostStep ==
    ASSUME SubscriptionInv, NEW s \in Subs, sub' = [sub EXCEPT ![s].lost = TRUE],
           UNCHANGED <<mSubscriptions, thread, todo, dropped>>
    PROVE  SubscriptionInv'
<1>1. /\ SubOK(s) /\ FreshOK(s) /\ ThreadOK(Io(s)) /\ SubTypes /\ Io(s) \in Threads
      /\ \A r \in Subs \ {s} : Io(s) # User(r) /\ Io(s) # Io(r)
  BY Distinct DEF SubscriptionInv
<1>2. /\ sub' \in [Subs -> SubState] /\ \A r \in Subs \ {s} : sub'[r] = sub[r]
      /\ sub'[s].closed = sub[s].closed /\ sub'[s].lost /\ sub'[s].session = sub[s].session
      /\ sub'[s].calling = sub[s].calling
      /\ sub'[s].callback = sub[s].callback /\ sub'[s].ptrs = sub[s].ptrs
  <2>1. sub[s] \in SubState /\ sub \in [Subs -> SubState]
    BY <1>1 DEF SubTypes
  <2>2. [sub[s] EXCEPT !.lost = TRUE] \in SubState
    BY <2>1 DEF SubState
  <2>3. /\ sub' \in [Subs -> SubState] /\ \A r \in Subs \ {s} : sub'[r] = sub[r]
        /\ sub'[s] = [sub[s] EXCEPT !.lost = TRUE]
    BY <2>1, <2>2
  <2> QED
    BY <2>1, <2>3 DEF SubState
<1>3. SubOK(s)'
  BY <1>1, <1>2 DEF SubOK, Calls, Within
<1>4. FreshOK(s)' /\ SubTypes'
  BY <1>1, <1>2 DEF FreshOK, SubTypes
<1>5. ThreadOK(Io(s))'
  BY <1>1, <1>2 DEF ThreadOK, Within
<1> QED
  BY <1>1, <1>2, <1>3, <1>4, <1>5, OneStep

(* A session that ends takes the pointers to it along.                     *)
LEMMA SessionEndsStep ==
    ASSUME SubscriptionInv, NEW s \in Subs, SessionEnds(s)
    PROVE  SubscriptionInv'
<1>1. /\ SubOK(s) /\ FreshOK(s) /\ ThreadOK(Io(s)) /\ SubTypes /\ User(s) \in Threads
      /\ Io(s) \in Threads
      /\ User(s) # Io(s) /\ \A r \in Subs \ {s} : Io(s) # User(r) /\ Io(s) # Io(r)
  BY Distinct DEF SubscriptionInv
<1>2. /\ sub[s].session = "open" /\ thread[Io(s)].pc = "reading"
        /\ UNCHANGED <<mSubscriptions, todo, dropped>>
  BY DEF SessionEnds
<1>3. sub[s] \in SubState /\ sub \in [Subs -> SubState] /\ ~Calls(s) /\ sub[s].calling = Free
  BY <1>1, <1>2 DEF SubTypes, SubOK, Calls, Within, CloseLabels
<1>4. CASE thread[User(s)].pc = "create"
  <2>1. sub' = [sub EXCEPT ![s].session = "held"] /\ thread' = thread
    BY <1>4 DEF SessionEnds
  <2>2. /\ sub' \in [Subs -> SubState] /\ \A r \in Subs \ {s} : sub'[r] = sub[r]
        /\ sub'[s].closed = sub[s].closed /\ sub'[s].lost = sub[s].lost /\ sub'[s].session = "held"
        /\ sub'[s].callback = sub[s].callback /\ sub'[s].ptrs = sub[s].ptrs
        /\ sub'[s].calling = Free
    BY <1>3, <2>1 DEF SubState
  <2>3. SubOK(s)'
    <3>1. ~Calls(s)'
      BY <1>3, <2>1 DEF Calls, Within
    <3> QED
      BY <1>1, <1>2, <2>1, <2>2, <3>1, Distinct DEF SubOK
  <2>4. FreshOK(s)'
    BY <1>1, <1>4, <2>1, <2>2 DEF FreshOK
  <2>5. ThreadOK(Io(s))' /\ SubTypes'
    BY <1>1, <1>2, <2>1, <2>2 DEF ThreadOK, SubTypes, Within, CloseLabels
  <2> QED
    BY <1>1, <2>1, <2>2, <2>3, <2>4, <2>5, OneStep
<1>5. CASE thread[User(s)].pc # "create" /\ IsTold(s)
  <2>1. /\ sub' = [sub EXCEPT ![s].session = "ending", ![s].ptrs = @ \union {Io(s)}]
        /\ Closing(Io(s), s, "report") /\ sub[s].callback
    BY <1>5 DEF SessionEnds, IsTold
  <2>2. PICK more \in SUBSET Threads : more = sub[s].ptrs \union {Io(s)}
    BY <1>1, <1>3 DEF SubState
  <2>3. [sub[s] EXCEPT !.session = "ending", !.ptrs = more] \in SubState
    BY <1>3, <2>2 DEF SubState
  <2>4. sub' = [r \in Subs |-> IF r = s THEN [sub[s] EXCEPT !.session = "ending",
          !.ptrs = more] ELSE sub[r]]
    BY <1>3, <2>1, <2>2
  <2>5. /\ sub' \in [Subs -> SubState] /\ \A r \in Subs \ {s} : sub'[r] = sub[r]
        /\ sub'[s] = [sub[s] EXCEPT !.session = "ending", !.ptrs = more]
    BY <1>3, <2>3, <2>4
  <2>6. /\ sub'[s].closed = sub[s].closed /\ sub'[s].lost = sub[s].lost
        /\ sub'[s].session = "ending"
        /\ sub'[s].callback = sub[s].callback /\ sub'[s].calling = Free
    BY <1>3, <2>5 DEF SubState
  <2>7. /\ DOMAIN thread' = Threads /\ thread'[Io(s)].pc = "close" /\ ThreadOK(Io(s))'
        /\ \A u \in Threads \ {Io(s)} : thread'[u] = thread[u]
    BY <1>1, <2>1, ClosingDoes DEF GoOnLabels
  <2>8. SubOK(s)'
    <3>1. thread'[Io(s)].then = "report"
      BY <1>1, <2>1, ClosingDoes DEF GoOnLabels
    <3>2. ~Calls(s)'
      BY <2>7, <3>1 DEF Calls, Within, CloseLabels
    <3> QED
      BY <1>1, <1>2, <2>1, <2>6, <3>2, Distinct DEF SubOK
  <2>9. thread'[User(s)] = thread[User(s)] /\ thread[User(s)].pc \notin {"new", "create"}
    BY <1>1, <1>2, <1>5, <2>7 DEF FreshOK
  <2>10. FreshOK(s)' /\ SubTypes'
    BY <1>1, <1>2, <2>5, <2>7, <2>9 DEF FreshOK, SubTypes
  <2> QED
    BY <1>1, <2>5, <2>6, <2>7, <2>8, <2>10, OneStep
<1>6. CASE thread[User(s)].pc # "create" /\ ~IsTold(s)
  <2>1. sub' = [sub EXCEPT ![s].session = "gone"] /\ thread' = thread /\ ~(sub[s].callback
          /\ sub[s].ptrs # {})
    BY <1>6 DEF SessionEnds, IsTold
  <2>2. /\ sub' \in [Subs -> SubState] /\ \A r \in Subs \ {s} : sub'[r] = sub[r]
        /\ sub'[s].closed = sub[s].closed /\ sub'[s].lost = sub[s].lost
        /\ sub'[s].callback = sub[s].callback /\ sub'[s].ptrs = sub[s].ptrs
        /\ sub'[s].calling = Free
    BY <1>3, <2>1 DEF SubState
  <2>3. SubOK(s)'
    <3>1. ~Calls(s)'
      BY <1>3, <2>1 DEF Calls, Within
    <3> QED
      BY <1>1, <1>2, <2>1, <2>2, <3>1, Distinct DEF SubOK
  <2>4. FreshOK(s)'
    BY <1>1, <1>2, <1>6, <2>1, <2>2 DEF FreshOK
  <2>5. ThreadOK(Io(s))' /\ SubTypes'
    BY <1>1, <1>2, <2>1, <2>2 DEF ThreadOK, SubTypes, Within, CloseLabels
  <2> QED
    BY <1>1, <2>1, <2>2, <2>3, <2>4, <2>5, OneStep
<1> QED
  BY <1>4, <1>5, <1>6

(* The user is told by who has closed the subscription. *)
LEMMA ReportStep ==
    ASSUME SubscriptionInv, NEW s \in Subs, Report(s)
    PROVE  SubscriptionInv'
<1>1. /\ SubOK(s) /\ FreshOK(s) /\ SubTypes /\ User(s) \in Threads /\ Io(s) \in Threads
      /\ User(s) # Io(s)
  BY Distinct DEF SubscriptionInv
<1>2. PICK t \in {Io(s), User(s)} :
        /\ thread[t].pc = "report"
        /\ sub' = [sub EXCEPT ![s].session = "gone", ![s].reported = TRUE,
                              ![s].ptrs = IF t = Io(s) THEN @ \ {t} ELSE @]
        /\ Goto(t, IF t = Io(s) THEN "reading" ELSE "using")
        /\ UNCHANGED <<mSubscriptions, todo, dropped>>
  BY DEF Report
<1>3. /\ t \in Threads /\ ThreadOK(t) /\ \A r \in Subs \ {s} : t # User(r) /\ t # Io(r)
  BY <1>1, Distinct DEF SubscriptionInv
<1>4. sub[s].closed /\ sub[s] \in SubState /\ sub \in [Subs -> SubState]
  BY <1>1, <1>2, <1>3 DEF ThreadOK, Within, SubTypes
<1>5. PICK left \in SUBSET Threads : left = IF t = Io(s) THEN sub[s].ptrs \ {t} ELSE sub[s].ptrs
  BY <1>4 DEF SubState
<1>6. [sub[s] EXCEPT !.session = "gone", !.reported = TRUE, !.ptrs = left] \in SubState
  BY <1>4 DEF SubState
<1>7. sub' = [r \in Subs |-> IF r = s THEN [sub[s] EXCEPT !.session = "gone", !.reported = TRUE,
        !.ptrs = left]
                             ELSE sub[r]]
  BY <1>2, <1>4, <1>5
<1>8. /\ sub' \in [Subs -> SubState] /\ \A r \in Subs \ {s} : sub'[r] = sub[r]
      /\ sub'[s] = [sub[s] EXCEPT !.session = "gone", !.reported = TRUE, !.ptrs = left]
  BY <1>4, <1>6, <1>7
<1>9. sub'[s].closed = sub[s].closed /\ sub'[s].lost = sub[s].lost
  <2>1. DOMAIN sub[s] = SubNames
    BY <1>4, SubFields
  <2> QED
    BY <1>8, <2>1 DEF SubNames
<1>10. PICK pc \in {"reading", "using"} : Goto(t, pc) /\ pc \in Labels
  BY <1>2 DEF Labels, GoOnLabels
<1>11. /\ DOMAIN thread' = Threads /\ thread'[t].pc \in {"reading", "using"}
       /\ thread'[t] \in [pc : Labels, sub : {thread[t].sub}, then : GoOnLabels \union {""}]
       /\ thread'[t].sub = thread[t].sub
       /\ \A u \in Threads \ {t} : thread'[u] = thread[u]
  BY <1>3, <1>10, GotoDoes
<1>12. thread[User(s)].pc \notin {"new", "create"} /\ sub[s].calling = Free /\ ~Calls(s)
  BY <1>1, <1>2, <1>4, Distinct DEF FreshOK, SubOK
<1>13. thread'[User(s)].pc \notin {"new", "create"} /\ ~Calls(s)' /\ sub'[s].calling = Free
  <2>1. ~Calls(s)'
    BY <1>1, <1>11, <1>12 DEF Calls, Within, CloseLabels
  <2>2. sub'[s].calling = Free
    BY <1>8, <1>12 DEF SubState
  <2> QED
    BY <1>1, <1>11, <1>12, <2>1, <2>2
<1>14. SubOK(s)'
  BY <1>1, <1>4, <1>9, <1>13, Distinct DEF SubOK
<1>15. FreshOK(s)'
  BY <1>13 DEF FreshOK
<1>16. ThreadOK(t)' /\ SubTypes'
  BY <1>1, <1>2, <1>3, <1>8, <1>11 DEF ThreadOK, SubTypes, Within, CloseLabels
<1> QED
  BY <1>3, <1>4, <1>8, <1>9, <1>11, <1>14, <1>15, <1>16, OneStep

-----------------------------------------------------------------------------
(* The timer and the stopper *)

(* One of them goes on, and nothing else. *)
LEMMA GoesOn ==
    ASSUME SubscriptionInv, NEW t \in {Timer, Stopper},
           NEW pc \in Labels \ (CloseLabels \union {"ping", "look", "release", "report"}), Goto(t,
               pc), sub' = sub,
           mSubscriptions' \subseteq Subs, todo' \subseteq Subs, dropped' \subseteq Subs
    PROVE  SubscriptionInv'
<1>1. /\ t \in Threads /\ ThreadOK(t) /\ SubTypes
      /\ \A r \in Subs : t # User(r) /\ t # Io(r)
  BY Distinct DEF SubscriptionInv
<1>2. /\ DOMAIN thread' = Threads /\ thread'[t].pc = pc
      /\ thread'[t] \in [pc : Labels, sub : {thread[t].sub}, then : GoOnLabels \union {""}]
      /\ thread'[t].sub = thread[t].sub
      /\ \A u \in Threads \ {t} : thread'[u] = thread[u]
  BY <1>1, GotoDoes
<1>3. ThreadOK(t)'
  <2>1. thread'[t].pc \notin CloseLabels \union {"ping", "look", "release", "report", "erase"}
    BY <1>2 DEF CloseLabels
  <2> QED
    BY <1>1, <1>2, <2>1 DEF ThreadOK, Within
<1>4. SubTypes'
  BY <1>1, <1>2 DEF SubTypes
<1> QED
  BY <1>2, <1>3, <1>4, QuietStep

(* One of them takes a pointer to a subscription that somebody has. *)
LEMMA TakesPointer ==
    ASSUME SubscriptionInv, NEW t \in {Timer, Stopper}, NEW s \in Subs,
           sub[s].ptrs # {}, sub' = [sub EXCEPT ![s].ptrs = @ \union {t}],
           DOMAIN thread' = Threads, ThreadOK(t)', \A u \in Threads \ {t} : thread'[u] = thread[u],
           mSubscriptions' \subseteq Subs, todo' \subseteq Subs, dropped' \subseteq Subs
    PROVE  SubscriptionInv'
<1>1. /\ t \in Threads /\ SubOK(s) /\ FreshOK(s) /\ SubTypes
      /\ \A r \in Subs : t # User(r) /\ t # Io(r)
      /\ Io(s) \in Threads /\ User(s) \in Threads
  BY Distinct DEF SubscriptionInv
<1>2. sub[s] \in SubState /\ sub \in [Subs -> SubState]
  BY <1>1 DEF SubTypes
<1>3. PICK more \in SUBSET Threads : more = sub[s].ptrs \union {t}
  BY <1>1, <1>2 DEF SubState
<1>4. [sub[s] EXCEPT !.ptrs = more] \in SubState
  BY <1>2 DEF SubState
<1>5. sub' = [r \in Subs |-> IF r = s THEN [sub[s] EXCEPT !.ptrs = more] ELSE sub[r]]
  BY <1>2, <1>3
<1>6. /\ sub' \in [Subs -> SubState] /\ \A r \in Subs \ {s} : sub'[r] = sub[r]
      /\ sub'[s] = [sub[s] EXCEPT !.ptrs = more]
  BY <1>2, <1>4, <1>5
<1>7. /\ sub'[s].closed = sub[s].closed /\ sub'[s].lost = sub[s].lost
      /\ sub'[s].session = sub[s].session /\ sub'[s].calling = sub[s].calling
      /\ sub'[s].callback = sub[s].callback
  BY <1>2, <1>6 DEF SubState
<1>8. thread'[Io(s)] = thread[Io(s)] /\ thread'[User(s)] = thread[User(s)]
  BY <1>1
<1>9. SubOK(s)'
  BY <1>1, <1>7, <1>8 DEF SubOK, Calls, Within
<1>10. FreshOK(s)' /\ SubTypes'
  BY <1>1, <1>6, <1>7, <1>8 DEF FreshOK, SubTypes
<1> QED
  BY <1>1, <1>6, <1>7, <1>9, <1>10, OneStep

(* The timer harvests what is lost, and drops it.                          *)
LEMMA TimerStep ==
    ASSUME SubscriptionInv, PingBegins \/ HarvestBegins \/ Harvest
    PROVE  SubscriptionInv'
<1>1. /\ Timer \in Threads /\ Timer \in {Timer, Stopper} /\ ThreadOK(Timer) /\ SubTypes
      /\ mSubscriptions \subseteq Subs /\ todo \subseteq Subs /\ dropped \subseteq Subs
      /\ \A r \in Subs : Timer # User(r) /\ Timer # Io(r)
  BY Distinct DEF SubscriptionInv, SubTypes
<1>2. {"harvest", "drop", "idle", "look", "ping"} \subseteq Labels
        /\ {"harvest", "drop", "idle"} \intersect CloseLabels = {}
  BY DEF Labels, GoOnLabels, CloseLabels
<1>3. CASE HarvestBegins
  BY <1>1, <1>2, <1>3, GoesOn DEF HarvestBegins
<1>4. CASE HarvestNext
  <2>1. PICK s \in todo :
           /\ todo' = todo \ {s}
           /\ IF sub[s].ptrs = {} THEN UNCHANGED <<sub, thread>>
              ELSE /\ sub' = [sub EXCEPT ![s].ptrs = @ \union {Timer}]
                   /\ thread' = [thread EXCEPT ![Timer].pc = "look", ![Timer].sub = s]
    BY <1>4 DEF HarvestNext
  <2>2. UNCHANGED <<mSubscriptions, dropped>> /\ todo' \subseteq Subs /\ s \in Subs
    BY <1>1, <1>4, <2>1 DEF HarvestNext
  <2>3. CASE sub[s].ptrs = {}
    <3>1. SubTypes' /\ sub' = sub /\ thread' = thread /\ ThreadOK(Timer)'
      BY <1>1, <2>1, <2>2, <2>3 DEF SubTypes, ThreadOK, Within
    <3> QED
      BY <1>1, <3>1, QuietStep
  <2>4. CASE sub[s].ptrs # {}
    <3>1. thread' = [thread EXCEPT ![Timer].pc = "look", ![Timer].sub = s]
            /\ DOMAIN thread = Threads
      BY <1>1, <2>1, <2>4 DEF SubTypes
    <3>2. thread[Timer] \in [pc : Labels, sub : {thread[Timer].sub}, then : GoOnLabels \union {""}]
      BY <1>1 DEF ThreadOK, Within
    <3>3. /\ DOMAIN thread' = Threads /\ \A u \in Threads \ {Timer} : thread'[u] = thread[u]
          /\ thread'[Timer] \in [pc : Labels, sub : {s}, then : GoOnLabels \union {""}]
          /\ thread'[Timer].pc = "look" /\ thread'[Timer].sub = s
      BY <1>1, <1>2, <3>1, <3>2
    <3>4. ThreadOK(Timer)'
      BY <1>1, <2>2, <3>3 DEF ThreadOK, Within, CloseLabels
    <3> QED
      BY <1>1, <2>1, <2>2, <2>4, <3>3, <3>4, TakesPointer
  <2> QED
    BY <2>3, <2>4
<1>5. CASE HarvestLook
  <2>1. /\ thread[Timer].pc = "look" /\ thread[Timer].sub \in Subs
        /\ UNCHANGED <<mSubscriptions, todo>>
    BY <1>1, <1>5 DEF HarvestLook, ThreadOK
  <2>2. CASE dropped' = dropped \union {thread[Timer].sub} /\ Goto(Timer, "harvest")
          /\ UNCHANGED sub
    BY <1>1, <1>2, <2>1, <2>2, GoesOn
  <2>3. CASE Release(Timer, thread[Timer].sub, "harvest") /\ UNCHANGED dropped
    BY <1>1, <2>1, <2>3, ReleaseStep
  <2> QED
    BY <1>5, <2>2, <2>3 DEF HarvestLook
<1>6. CASE HarvestEnds
  BY <1>1, <1>2, <1>6, GoesOn DEF HarvestEnds
<1>7. CASE Drop
  <2>1. thread[Timer].pc = "drop" /\ UNCHANGED <<mSubscriptions, todo>>
    BY <1>7 DEF Drop
  <2>2. CASE dropped = {}
    BY <1>1, <1>2, <1>7, <2>1, <2>2, GoesOn DEF Drop
  <2>3. CASE dropped # {}
    BY <1>1, <1>7, <2>1, <2>3, ReleaseStep DEF Drop
  <2> QED
    BY <2>2, <2>3
<1>8. CASE PingBegins
  <2>1. PICK s \in mSubscriptions :
           /\ sub[s].ptrs # {}
           /\ sub' = [sub EXCEPT ![s].ptrs = @ \union {Timer}]
           /\ thread' = [thread EXCEPT ![Timer].pc = "ping", ![Timer].sub = s]
    BY <1>8 DEF PingBegins
  <2>2. UNCHANGED <<mSubscriptions, todo, dropped>> /\ s \in Subs
    BY <1>1, <1>8 DEF PingBegins
  <2>3. DOMAIN thread = Threads
    BY <1>1 DEF SubTypes
  <2>4. thread[Timer] \in [pc : Labels, sub : {thread[Timer].sub}, then : GoOnLabels \union {""}]
    BY <1>1 DEF ThreadOK, Within
  <2>5. /\ DOMAIN thread' = Threads /\ \A u \in Threads \ {Timer} : thread'[u] = thread[u]
        /\ thread'[Timer] \in [pc : Labels, sub : {s}, then : GoOnLabels \union {""}]
        /\ thread'[Timer].pc = "ping" /\ thread'[Timer].sub = s
    BY <1>1, <1>2, <2>1, <2>3, <2>4
  <2>6. ThreadOK(Timer)'
    BY <1>1, <2>2, <2>5 DEF ThreadOK, Within, CloseLabels
  <2> QED
    BY <1>1, <2>1, <2>2, <2>5, <2>6, TakesPointer
<1>9. CASE PingEnds
  <2>1. /\ thread[Timer].pc = "ping" /\ thread[Timer].sub \in Subs
        /\ Release(Timer, thread[Timer].sub, "idle")
        /\ UNCHANGED <<mSubscriptions, todo, dropped>>
    BY <1>1, <1>9 DEF PingEnds, ThreadOK
  <2> QED
    BY <1>1, <2>1, ReleaseStep
<1> QED
  BY <1>3, <1>4, <1>5, <1>6, <1>7, <1>8, <1>9 DEF Harvest

(* The server stops, and closes what is left.                              *)
LEMMA StopperStep ==
    ASSUME SubscriptionInv, StopBegins \/ Stop
    PROVE  SubscriptionInv'
<1>1. /\ Stopper \in Threads /\ Stopper \in {Timer, Stopper} /\ ThreadOK(Stopper) /\ SubTypes
      /\ mSubscriptions \subseteq Subs /\ todo \subseteq Subs /\ dropped \subseteq Subs
      /\ \A r \in Subs : Stopper # User(r) /\ Stopper # Io(r)
  BY Distinct DEF SubscriptionInv, SubTypes
<1>2. {"next", "stopped"} \subseteq Labels \ (CloseLabels \union {"ping", "look", "release",
        "report"})
  BY DEF Labels, GoOnLabels, CloseLabels
<1>3. CASE StopBegins
  BY <1>1, <1>2, <1>3, GoesOn DEF StopBegins
<1>4. CASE StopNext
  <2>1. PICK s \in todo :
           /\ todo' = todo \ {s}
           /\ IF sub[s].ptrs = {} THEN UNCHANGED <<sub, thread>>
              ELSE /\ sub' = [sub EXCEPT ![s].ptrs = @ \union {Stopper}]
                   /\ Closing(Stopper, s, "release")
    BY <1>4 DEF StopNext
  <2>2. UNCHANGED <<mSubscriptions, dropped>> /\ todo' \subseteq Subs /\ s \in Subs
    BY <1>1, <1>4, <2>1 DEF StopNext
  <2>3. CASE sub[s].ptrs = {}
    <3>1. SubTypes' /\ sub' = sub /\ thread' = thread /\ ThreadOK(Stopper)'
      BY <1>1, <2>1, <2>2, <2>3 DEF SubTypes, ThreadOK, Within
    <3> QED
      BY <1>1, <3>1, QuietStep
  <2>4. CASE sub[s].ptrs # {}
    <3>1. "release" \in GoOnLabels
      BY DEF GoOnLabels
    <3>2. /\ DOMAIN thread' = Threads /\ ThreadOK(Stopper)'
          /\ \A u \in Threads \ {Stopper} : thread'[u] = thread[u]
      BY <1>1, <2>1, <2>2, <2>4, <3>1, ClosingDoes
    <3> QED
      BY <1>1, <2>1, <2>2, <2>4, <3>2, TakesPointer
  <2> QED
    BY <2>3, <2>4
<1>5. CASE StopRelease
  <2>1. thread[Stopper].pc = "release" /\ thread[Stopper].sub \in Subs
    BY <1>1, <1>5 DEF StopRelease, ThreadOK
  <2> QED
    BY <1>1, <1>5, <2>1, ReleaseStep DEF StopRelease
<1>6. CASE StopEnds
  BY <1>1, <1>2, <1>6, GoesOn DEF StopEnds
<1> QED
  BY <1>3, <1>4, <1>5, <1>6 DEF Stop

-----------------------------------------------------------------------------
(* Nobody is subscribed yet.                                               *)
LEMMA SubscriptionStarts == Init => SubscriptionInv
<1> SUFFICES ASSUME Init PROVE SubscriptionInv
  OBVIOUS
<1>1. SubTypes
  BY DEF Init, SubTypes, SubState
<1>2. ASSUME NEW s \in Subs
      PROVE  /\ thread[User(s)].pc = "new" /\ thread[User(s)].sub = s
             /\ thread[Io(s)].pc = "reading" /\ thread[Io(s)].sub = s
  BY DEF Init, User, Io, Timer, Stopper, Threads
<1>3. ASSUME NEW t \in Threads PROVE ThreadOK(t)
  <2>1. /\ thread[t] \in [pc : Labels, sub : {thread[t].sub}, then : GoOnLabels \union {""}]
        /\ thread[t].pc \in {"idle", "running", "reading", "new"}
    BY DEF Init, Labels, GoOnLabels
  <2> QED
    BY <1>2, <2>1 DEF ThreadOK, Within, CloseLabels
<1>4. ASSUME NEW s \in Subs PROVE SubOK(s) /\ FreshOK(s)
  BY <1>2, Distinct DEF Init, SubOK, Calls, Within, CloseLabels, FreshOK
<1> QED
  BY <1>1, <1>3, <1>4 DEF SubscriptionInv

(* Every step keeps the invariant.                                         *)
LEMMA SubscriptionStep == SubscriptionInv /\ [Next]_vars => SubscriptionInv'
<1> SUFFICES ASSUME SubscriptionInv, [Next]_vars PROVE SubscriptionInv'
  OBVIOUS
<1>1. ASSUME NEW t \in Threads, Close(t) PROVE SubscriptionInv'
  <2>1. thread[t].sub \in Subs
    BY <1>1 DEF SubscriptionInv, ThreadOK, Close, CloseBegins, CallsStop, CloseEnds, Within,
       CloseLabels
  <2> QED
    BY <1>1, <2>1, CloseStep
<1>2. ASSUME NEW s \in Subs,
             \/ CreateSession(s) \/ Create(s) \/ UserCloses(s) \/ UserDrops(s)
             \/ CallBegins(s) \/ ServantCloses(s) \/ ConnectionLost(s) \/ Session(s)
      PROVE  SubscriptionInv'
  BY <1>2, CreateSessionStep, CreateSubscriptionStep, InsertStep, UserStep, CallBeginsStep,
     ServantClosesStep, CallEndsStep,
     LostStep, SessionEndsStep, ReportStep DEF Create, Session, ConnectionLost
<1>3. CASE UNCHANGED vars
  <2>1. SubTypes' /\ sub' = sub /\ thread' = thread
    BY <1>3 DEF vars, SubscriptionInv, SubTypes
  <2>2. /\ \A t \in Threads : ThreadOK(t)' <=> ThreadOK(t)
        /\ \A s \in Subs : (SubOK(s)' <=> SubOK(s)) /\ (FreshOK(s)' <=> FreshOK(s))
    BY <2>1 DEF ThreadOK, SubOK, Calls, Within, FreshOK
  <2> QED
    BY <2>1, <2>2 DEF SubscriptionInv
<1> QED
  BY <1>1, <1>2, <1>3, TimerStep, StopperStep DEF Next

(* The invariant holds in every state.                                     *)
LEMMA SubscriptionInvariant == Spec => []SubscriptionInv
  BY SubscriptionStarts, SubscriptionStep, PTL DEF Spec

(* Once close() has returned no call of the publisher runs in the          *)
(* subscription (SubscriptionService.cpp), whoever has called it: the user,*)
(* the timer, the session or the server that stops.                        *)
THEOREM ClosedIsQuiet == Spec => []NoCallAfterClose
<1>1. SubscriptionInv => NoCallAfterClose
  BY DEF SubscriptionInv, SubOK, NoCallAfterClose
<1> QED
  BY <1>1, SubscriptionInvariant, PTL

(* A subscription whose session is gone has been closed, for whoever still *)
(* holds it.                                                               *)
THEOREM EndedIsClosed == Spec => []GoneIsClosed
<1>1. SubscriptionInv => GoneIsClosed
  BY DEF SubscriptionInv, SubOK, GoneIsClosed
<1> QED
  BY <1>1, SubscriptionInvariant, PTL

-----------------------------------------------------------------------------
(* A call                                                                  *)
-----------------------------------------------------------------------------
(* The types of the stub, and of what the server sends                     *)
StubState ==
    [call : Nat, kind : C!Kinds, callback : BOOLEAN, notified : Nat, inProgress : BOOLEAN,
     exception : BOOLEAN, answer : Nat, encoded : Nat, tries : {0, 1}, cancelled : BOOLEAN,
     op : {"None", "Connect", "Write", "Read", "Wait"}, subOp : {"None", "Write", "Read"},
     connected : BOOLEAN, protocol : BOOLEAN, closed : BOOLEAN, bound : {"none", "main", "sub"},
     position : {0, 1}, live : SUBSET {"dns", "connect", "write", "read", "timer"}]

StubNames ==
    {"call", "kind", "callback", "notified", "inProgress", "exception", "answer", "encoded",
     "tries", "op", "subOp", "connected", "protocol", "closed", "bound", "position", "live",
     "cancelled"}

(* What the server sends, and of which request                             *)
Messages == [type : {"result", "exception", "fatal", "mismatch", "ping"}, of : Nat]

(* Nothing is on its way. *)
Silent == wire = <<>> /\ requests = <<>>

(* The one request, n, or what answers it; nothing follows the answer.     *)
Outstanding(n) ==
    /\ requests \in {<<>>, <<n>>}
    /\ \A i \in DOMAIN wire :
           /\ wire[i].of = n
           /\ wire[i].type = "ping" => n # 0
           /\ wire[i].type # "ping" => i = Len(wire) /\ requests = <<>>

(* What the client c does, with the handlers that are to run *)
Idle(c) == c.live = {} /\ ~c.callback /\ (c.connected => ~c.closed) /\ (~c.protocol =>
    c.encoded = 0)

(* An address is looked up, or connected to.                               *)
Connecting(c) ==
    /\ c.live \in {{"dns"}, {"connect", "timer"}}
    /\ c.callback /\ c.bound = "main" /\ c.op = "Connect" /\ ~c.closed
    /\ IF c.kind = "connect" THEN c.encoded = 0 /\ ~c.protocol
       ELSE c.kind \in {"twoway", "oneway"} /\ c.encoded = c.call

(* The request is sent, or the one for filters.                            *)
Writing(c) ==
    /\ c.live = {"write", "timer"}
    /\ c.callback /\ ~c.closed /\ c.kind \in {"twoway", "oneway"} /\ c.encoded = c.call
    /\ \/ c.bound = "main" /\ c.op = "Write"
       \/ c.bound = "sub" /\ c.protocol

(* The answer is read, or the filters are.                                 *)
Reading(c) ==
    /\ c.live = {"read", "timer"}
    /\ c.callback /\ ~c.closed
    /\ \/ c.bound = "main" /\ c.op = "Read" /\ c.kind = "twoway" /\ c.encoded = 0
       \/ c.bound = "sub" /\ c.protocol /\ c.kind \in {"twoway", "oneway"} /\ c.encoded = c.call

(* wait() is under way.                                                    *)
Waiting(c) == c.live = {"timer"} /\ c.callback /\ c.bound = "main" /\ c.op = "Wait"
    /\ c.kind = "wait" /\ (~c.protocol => c.encoded = 0) /\ (c.connected => ~c.closed)

(* The inductive invariant of calls: a client without a callback has no    *)
(* handlers, and nothing of an earlier call is on its connection.          *)
CallInv ==
    /\ stub \in StubState /\ wire \in Seq(Messages) /\ requests \in Seq(Nat) /\ gone \in BOOLEAN
    /\ stub.callback => stub.call > 0
    /\ AnswerIsOwn
    /\ \/ Idle(stub) /\ Silent
       \/ Connecting(stub) /\ Silent
       \/ Writing(stub) /\ Silent
       \/ Reading(stub) /\ Outstanding(IF stub.bound = "sub" THEN 0 ELSE stub.call)
          /\ (stub.position = 1 => wire # <<>>)
       \/ Waiting(stub) /\ Silent

-----------------------------------------------------------------------------
(* The answer of a call that was not refused is its own. *)
HasOwn(c) == c.kind = "twoway" /\ ~c.callback /\ ~c.exception => c.answer = c.call

(* What is asked of a client that becomes c, with what it has been sent    *)
(* and has sent                                                            *)
Becoming(c, sent, received) ==
    /\ c \in StubState /\ sent \in Seq(Nat) /\ received \in Seq(Messages)
    /\ c.callback => c.call > 0
    /\ HasOwn(c)
    /\ \/ (Idle(c) \/ Waiting(c)) /\ (c.closed \/ (sent = <<>> /\ received = <<>>))
       \/ Connecting(c)
       \/ Writing(c) /\ sent = <<>> /\ received = <<>>

(* A step that leaves the client as Becoming asks keeps the invariant.     *)
LEMMA BecomesOK ==
    ASSUME CallInv, NEW c, NEW sent, NEW received,
           Becoming(c, sent, received), C!Becomes(c, sent, received)
    PROVE  CallInv'
<1>1. stub' = c /\ gone' \in BOOLEAN /\ wire' \in Seq(Messages) /\ requests' \in Seq(Nat)
  <2>1. <<>> \in Seq(Nat) /\ <<>> \in Seq(Messages)
    OBVIOUS
  <2> QED
    BY <2>1 DEF C!Becomes, Becoming, CallInv
<1>2. (c.closed \/ {"dns", "connect"} \intersect c.live # {}) => Silent'
  BY DEF C!Becomes, Silent
<1>3. sent = <<>> /\ received = <<>> => Silent'
  BY DEF C!Becomes, Silent
<1>4. Connecting(c) => {"dns", "connect"} \intersect c.live # {}
  BY DEF Connecting
<1>5. AnswerIsOwn' /\ stub' \in StubState /\ (stub'.callback => stub'.call > 0)
  BY <1>1 DEF AnswerIsOwn, C!AnswerIsOwn, HasOwn, Becoming
<1>6. CASE Idle(c)
  BY <1>1, <1>2, <1>3, <1>5, <1>6 DEF CallInv, Becoming, Idle, Connecting, Writing, Waiting
<1>7. CASE Waiting(c)
  BY <1>1, <1>2, <1>3, <1>5, <1>7 DEF CallInv, Becoming, Idle, Connecting, Writing, Waiting
<1>8. CASE Connecting(c)
  BY <1>1, <1>2, <1>4, <1>5, <1>8 DEF CallInv
<1>9. CASE Writing(c) /\ sent = <<>> /\ received = <<>>
  BY <1>1, <1>3, <1>5, <1>9 DEF CallInv
<1> QED
  BY <1>6, <1>7, <1>8, <1>9 DEF Becoming

-----------------------------------------------------------------------------
(* What the helpers do to a client *)

(* The fields of a stub *)
LEMMA StubFields == \A c \in StubState : DOMAIN c = StubNames
  BY DEF StubState, StubNames

(* The callback is run, and nothing else changes.                          *)
LEMMA NotifyDoes ==
    ASSUME NEW c \in StubState
    PROVE  /\ C!Notify(c) \in StubState /\ ~C!Notify(c).callback
           /\ C!Notify(c).call = c.call /\ C!Notify(c).kind = c.kind
           /\ C!Notify(c).exception = c.exception
           /\ C!Notify(c).answer = c.answer /\ C!Notify(c).encoded = c.encoded
           /\ C!Notify(c).connected = c.connected /\ C!Notify(c).protocol = c.protocol
           /\ C!Notify(c).closed = c.closed /\ C!Notify(c).bound = c.bound
           /\ C!Notify(c).live = c.live
           /\ C!Notify(c).cancelled = c.cancelled
<1>1. PICK n \in Nat : n = c.notified + IF c.callback THEN 1 ELSE 0
  BY DEF StubState
<1>2. C!Notify(c) = [c EXCEPT !.inProgress = FALSE, !.callback = FALSE, !.notified = n]
  BY <1>1 DEF C!Notify
<1>3. C!Notify(c) \in StubState
  <2>1. [c EXCEPT !.inProgress = FALSE, !.callback = FALSE, !.notified = n] \in StubState
    BY DEF StubState
  <2> QED
    BY <1>2, <2>1
<1> QED
  BY <1>2, <1>3, StubFields DEF StubNames

(* Nothing is posted on a closed connection.                               *)
LEMMA CloseDoes ==
    ASSUME NEW c \in StubState
    PROVE  /\ C!Close(c) \in StubState /\ C!Close(c).live = {} /\ C!Close(c).closed
           /\ C!Close(c).call = c.call /\ C!Close(c).kind = c.kind
           /\ C!Close(c).callback = c.callback /\ C!Close(c).encoded = c.encoded
           /\ C!Close(c).exception = c.exception /\ C!Close(c).protocol = c.protocol
<1>1. PICK b \in {"none", "main", "sub"} : b = IF c.closed THEN c.bound ELSE "none"
  BY DEF StubState
<1>2. C!Close(c) = [c EXCEPT !.live = {}, !.closed = TRUE, !.bound = b]
  BY <1>1 DEF C!Close
<1>3. C!Close(c) \in StubState
  <2>1. [c EXCEPT !.live = {}, !.closed = TRUE, !.bound = b] \in StubState
    BY DEF StubState
  <2> QED
    BY <1>2, <2>1
<1> QED
  BY <1>2, <1>3, StubFields DEF StubNames

(* ... and a client that connects takes another connection.                *)
LEMMA ReconnectDoes ==
    ASSUME NEW c \in StubState, NEW b,
           b = [C!Close(c) EXCEPT !.op = "Connect", !.closed = FALSE, !.bound = "main"]
    PROVE  /\ b \in StubState /\ b.live = {} /\ b.callback = c.callback /\ ~b.closed
           /\ b.kind = c.kind /\ b.encoded = c.encoded /\ b.call = c.call
           /\ b.op = "Connect" /\ b.protocol = c.protocol /\ b.bound = "main"
<1>1. PICK e \in StubState :
          /\ e = C!Close(c) /\ e.live = {} /\ e.callback = c.callback /\ e.kind = c.kind
          /\ e.encoded = c.encoded /\ e.call = c.call /\ e.protocol = c.protocol
  BY CloseDoes
<1>2. [e EXCEPT !.op = "Connect", !.closed = FALSE, !.bound = "main"] \in StubState
  BY DEF StubState
<1>3. b = [e EXCEPT !.op = "Connect", !.closed = FALSE, !.bound = "main"]
  BY <1>1
<1>4. b \in StubState /\ DOMAIN e = StubNames
  BY <1>2, <1>3, StubFields
<1> QED
  BY <1>1, <1>3, <1>4 DEF StubNames

LEMMA DisconnectDoes ==
    ASSUME NEW c \in StubState
    PROVE  /\ C!Disconnect(c) \in StubState /\ C!Disconnect(c).live = {}
           /\ C!Disconnect(c).closed /\ ~C!Disconnect(c).callback /\ ~C!Disconnect(c).connected
           /\ C!Disconnect(c).call = c.call /\ C!Disconnect(c).encoded = c.encoded
           /\ C!Disconnect(c).exception = c.exception
<1>1. PICK d \in StubState :
          /\ d = C!Close(c) /\ d.live = {} /\ d.closed /\ d.call = c.call
          /\ d.encoded = c.encoded /\ d.exception = c.exception
  BY CloseDoes
<1>2. C!Disconnect(c) = [d EXCEPT !.connected = FALSE, !.callback = FALSE]
  BY <1>1 DEF C!Disconnect
<1>3. C!Disconnect(c) \in StubState
  BY <1>2 DEF StubState
<1> QED
  BY <1>1, <1>2, <1>3, StubFields DEF StubNames

(* What the caller of a failed call finds *)
LEMMA OnErrorDoes ==
    ASSUME NEW c \in StubState
    PROVE  /\ C!OnError(c, "local") \in StubState /\ Idle(C!OnError(c, "local"))
           /\ C!OnError(c, "local").closed
           /\ HasOwn(C!OnError(c, "local"))
           /\ c.live = {} /\ ~c.closed =>
                C!OnError(c, "remote") \in StubState /\ Idle(C!OnError(c, "remote"))
                    /\ HasOwn(C!OnError(c, "remote"))
<1> DEFINE n == [C!Notify(c) EXCEPT !.op = "None", !.encoded = 0, !.exception = TRUE]
<1>1. /\ n \in StubState /\ n.live = c.live /\ n.closed = c.closed /\ ~n.callback /\ n.encoded = 0
      /\ n.exception
  <2>1. /\ C!Notify(c) \in StubState /\ ~C!Notify(c).callback /\ C!Notify(c).live = c.live
        /\ C!Notify(c).closed = c.closed
    BY NotifyDoes
  <2> QED
    BY <2>1 DEF StubState
<1> HIDE DEF n
<1>2. /\ C!Disconnect(n) \in StubState /\ C!Disconnect(n).live = {} /\ C!Disconnect(n).closed
      /\ ~C!Disconnect(n).callback
      /\ C!Disconnect(n).encoded = 0 /\ C!Disconnect(n).exception /\ ~C!Disconnect(n).connected
  BY <1>1, DisconnectDoes
<1>3. C!OnError(c, "local") = C!Disconnect(n) /\ C!OnError(c, "remote") = n
  BY DEF C!OnError, n
<1> QED
  BY <1>1, <1>2, <1>3 DEF Idle, HasOwn

(* An operation is posted with its timer.                                  *)
LEMMA PostDoes ==
    ASSUME NEW c \in StubState, NEW op \in {"connect", "write", "read"}
    PROVE  /\ C!Post(c, op) \in StubState
           /\ C!Post(c, op) = [c EXCEPT !.live = @ \union {op, "timer"}]
           /\ C!Post(c, op).live = c.live \union {op, "timer"}
           /\ C!Post(c, op).callback = c.callback
           /\ C!Post(c, op).call = c.call /\ C!Post(c, op).kind = c.kind
           /\ C!Post(c, op).exception = c.exception
           /\ C!Post(c, op).answer = c.answer /\ C!Post(c, op).encoded = c.encoded
           /\ C!Post(c, op).op = c.op
           /\ C!Post(c, op).connected = c.connected /\ C!Post(c, op).protocol = c.protocol
           /\ C!Post(c, op).closed = c.closed /\ C!Post(c, op).bound = c.bound
           /\ C!Post(c, op).position = c.position
<1>1. PICK more \in SUBSET {"dns", "connect", "write", "read", "timer"} : more = c.live \union {op,
        "timer"}
  BY DEF StubState
<1>2. C!Post(c, op) = [c EXCEPT !.live = more]
  BY <1>1 DEF C!Post
<1> QED
  BY <1>1, <1>2 DEF StubState, C!Post

(* A client that has something to send sends it.                           *)
LEMMA SendDoes ==
    ASSUME NEW c \in StubState, NEW who \in {"main", "sub"}, c.live = {}, c.callback, ~c.closed,
           c.kind \in {"twoway", "oneway"}, c.encoded = c.call,
           (who = "main" /\ c.op = "Write") \/ (who = "sub" /\ c.protocol)
    PROVE  C!Send(c, who) \in StubState /\ Writing(C!Send(c, who)) /\ C!Send(c, who).call = c.call
           /\ C!Send(c, who).callback
<1> DEFINE b == [c EXCEPT !.bound = who]
<1>1. /\ b \in StubState /\ b.live = {} /\ b.callback /\ ~b.closed /\ b.kind = c.kind
      /\ b.encoded = c.encoded
      /\ b.call = c.call /\ b.op = c.op /\ b.protocol = c.protocol /\ b.bound = who
  BY DEF StubState
<1>2. C!Send(c, who) = C!Post(b, "write")
  BY DEF C!Send
<1> HIDE DEF b
<1>3. /\ C!Post(b, "write") \in StubState
      /\ C!Post(b, "write").live = b.live \union {"write", "timer"}
      /\ C!Post(b, "write").callback = b.callback /\ C!Post(b, "write").closed = b.closed
      /\ C!Post(b, "write").kind = b.kind /\ C!Post(b, "write").encoded = b.encoded
      /\ C!Post(b, "write").call = b.call /\ C!Post(b, "write").op = b.op
      /\ C!Post(b, "write").protocol = b.protocol /\ C!Post(b, "write").bound = b.bound
  BY <1>1, PostDoes
<1> QED
  <2>1. PICK d \in StubState : d = C!Send(c, who)
    BY <1>2, <1>3
  <2>2. /\ d.live = {"write", "timer"} /\ d.callback /\ ~d.closed /\ d.kind = c.kind
        /\ d.encoded = c.encoded /\ d.call = c.call /\ d.op = c.op /\ d.bound = who
        /\ d.protocol = c.protocol
    BY <1>1, <1>2, <1>3, <2>1
  <2>3. Writing(d)
    BY <2>2 DEF Writing
  <2> QED
    BY <2>1, <2>2, <2>3

(* A call that fails here is over, and nothing of it is left. *)
LEMMA OnErrorBecomes ==
    ASSUME NEW c \in StubState, NEW sent \in Seq(Nat), NEW received \in Seq(Messages)
    PROVE  Becoming(C!OnError(c, "local"), sent, received)
<1>1. /\ C!OnError(c, "local") \in StubState /\ Idle(C!OnError(c, "local"))
      /\ C!OnError(c, "local").closed
      /\ HasOwn(C!OnError(c, "local"))
  BY OnErrorDoes
<1> QED
  BY <1>1 DEF Becoming, Idle

(* What is encoded fits what the user has asked for. *)
Encoded(c) ==
    IF c.kind = "connect" THEN c.encoded = 0 /\ ~c.protocol
    ELSE c.kind \in {"twoway", "oneway"} /\ c.encoded = c.call

(* A client that connects is connecting, or has failed.                    *)
LEMMA ConnectBecomes ==
    ASSUME NEW c \in StubState, c.callback, c.call > 0, Encoded(c), NEW d \in C!Connect(c),
           NEW sent \in Seq(Nat), NEW received \in Seq(Messages)
    PROVE  Becoming(d, sent, received)
<1> DEFINE b == [C!Close(c) EXCEPT !.op = "Connect", !.closed = FALSE, !.bound = "main"]
<1>1. /\ b \in StubState /\ b.live = {} /\ b.callback /\ ~b.closed /\ b.kind = c.kind
      /\ b.encoded = c.encoded
      /\ b.call = c.call /\ b.op = "Connect" /\ b.protocol = c.protocol /\ b.bound = "main"
  <2>1. PICK e : e = b
    OBVIOUS
  <2>2. e = [C!Close(c) EXCEPT !.op = "Connect", !.closed = FALSE, !.bound = "main"]
    BY <2>1
  <2>3. /\ e \in StubState /\ e.live = {} /\ e.callback = c.callback /\ ~e.closed
        /\ e.kind = c.kind /\ e.encoded = c.encoded /\ e.call = c.call
        /\ e.op = "Connect" /\ e.protocol = c.protocol /\ e.bound = "main"
    BY <2>2, ReconnectDoes
  <2> HIDE DEF b
  <2> QED
    BY <2>1, <2>3
<1>2. d \in {[b EXCEPT !.live = {"dns"}], C!Post(b, "connect"), C!OnError(b, "local")}
  BY DEF C!Connect
<1> HIDE DEF b
<1>3. CASE d = C!OnError(b, "local")
  BY <1>1, <1>3, OnErrorBecomes
<1>4. CASE d = C!Post(b, "connect")
  <2>1. /\ d \in StubState /\ d.live = b.live \union {"connect", "timer"}
        /\ d.callback = b.callback /\ d.closed = b.closed
        /\ d.kind = b.kind /\ d.encoded = b.encoded
        /\ d.call = b.call /\ d.op = b.op
        /\ d.protocol = b.protocol /\ d.bound = b.bound
    BY <1>1, <1>4, PostDoes
  <2>2. Connecting(d)
    BY <1>1, <2>1 DEF Connecting, Encoded
  <2> QED
    BY <1>1, <2>1, <2>2 DEF Becoming, HasOwn
<1>5. CASE d = [b EXCEPT !.live = {"dns"}]
  <2>1. /\ d \in StubState /\ d.live = {"dns"}
        /\ d.callback = b.callback /\ d.closed = b.closed
        /\ d.kind = b.kind /\ d.encoded = b.encoded
        /\ d.call = b.call /\ d.op = b.op
        /\ d.protocol = b.protocol /\ d.bound = b.bound
    BY <1>1, <1>5 DEF StubState
  <2>2. Connecting(d)
    BY <1>1, <2>1 DEF Connecting, Encoded
  <2> QED
    BY <1>1, <2>1, <2>2 DEF Becoming, HasOwn
<1> QED
  BY <1>2, <1>3, <1>4, <1>5

(* A connected client sends its request.                                   *)
LEMMA BeginSendBecomes ==
    ASSUME NEW c \in StubState, c.live = {}, c.callback, c.call > 0, ~c.closed,
           c.kind \in {"twoway", "oneway"}, c.encoded = c.call
    PROVE  Becoming(C!BeginSend(c), <<>>, <<>>)
<1> DEFINE b == [c EXCEPT !.op = "Write"]
<1>1. /\ b \in StubState /\ b.live = {} /\ b.callback /\ ~b.closed /\ b.kind = c.kind
      /\ b.encoded = c.encoded
      /\ b.call = c.call /\ b.op = "Write"
  BY DEF StubState
<1>2. C!BeginSend(c) = C!Send(b, "main")
  BY DEF C!BeginSend
<1> HIDE DEF b
<1>3. /\ C!Send(b, "main") \in StubState /\ Writing(C!Send(b, "main"))
      /\ C!Send(b, "main").call = b.call
      /\ C!Send(b, "main").callback
  BY <1>1, SendDoes
<1> QED
  BY <1>1, <1>2, <1>3 DEF Becoming, HasOwn

(* A call sends its request, or connects first.                            *)
LEMMA BeginCallBecomes ==
    ASSUME NEW c \in StubState, c.live = {}, c.callback, c.call > 0, c.connected => ~c.closed,
           c.kind \in {"twoway", "oneway"}, NEW d \in C!BeginCall(c)
    PROVE  Becoming(d, <<>>, <<>>)
<1> DEFINE e == [c EXCEPT !.encoded = c.call]
<1>1. /\ e \in StubState /\ e.live = {} /\ e.callback /\ e.closed = c.closed /\ e.kind = c.kind
      /\ e.encoded = e.call /\ e.call = c.call /\ e.connected = c.connected
  BY DEF StubState
<1>2. d \in IF e.connected /\ ~(gone /\ c.kind = "twoway") THEN {C!BeginSend(e)} ELSE C!Connect(e)
  BY DEF C!BeginCall
<1> HIDE DEF e
<1>3. CASE e.connected /\ ~(gone /\ c.kind = "twoway")
  BY <1>1, <1>2, <1>3, BeginSendBecomes
<1>4. CASE ~(e.connected /\ ~(gone /\ c.kind = "twoway"))
  <2>1. Encoded(e) /\ e.call > 0 /\ d \in C!Connect(e)
    BY <1>1, <1>2, <1>4 DEF Encoded
  <2> QED
    <3>1. <<>> \in Seq(Nat) /\ <<>> \in Seq(Messages)
      OBVIOUS
    <3> QED
      BY <1>1, <2>1, <3>1, ConnectBecomes
<1> QED
  BY <1>3, <1>4

(* The connection is set up: what is encoded is sent, or the callback is   *)
(* run.                                                                    *)
LEMMA SetupBecomes ==
    ASSUME NEW c \in StubState, c.live = {}, c.callback, c.call > 0, ~c.closed, Encoded(c)
    PROVE  Becoming(C!SetupCompleted(c), <<>>, <<>>)
<1> DEFINE d == [c EXCEPT !.connected = TRUE]
<1>1. /\ d \in StubState /\ d.live = {} /\ d.callback /\ ~d.closed /\ d.kind = c.kind
      /\ d.encoded = c.encoded
      /\ d.call = c.call /\ d.protocol = c.protocol
  BY DEF StubState
<1>2. C!SetupCompleted(c) = IF d.encoded # 0 THEN C!BeginSend(d) ELSE C!Notify(d)
  BY DEF C!SetupCompleted
<1> HIDE DEF d
<1>3. c.kind = "connect" <=> c.encoded = 0
  BY DEF Encoded, StubState
<1>4. CASE d.encoded # 0
  <2>1. d.kind \in {"twoway", "oneway"} /\ d.encoded = d.call /\ d.call > 0
    BY <1>1, <1>3, <1>4 DEF Encoded
  <2> QED
    BY <1>1, <1>2, <1>4, <2>1, BeginSendBecomes
<1>5. CASE d.encoded = 0
  <2>1. /\ C!Notify(d) \in StubState /\ ~C!Notify(d).callback /\ C!Notify(d).kind = d.kind
        /\ C!Notify(d).encoded = d.encoded /\ C!Notify(d).closed = d.closed
        /\ C!Notify(d).live = d.live
    BY <1>1, NotifyDoes
  <2> QED
    BY <1>1, <1>2, <1>3, <1>5, <2>1 DEF Becoming, Idle, HasOwn
<1> QED
  BY <1>4, <1>5

(* Without filters the call is over.                                       *)
LEMMA UnfilteredBecomes ==
    ASSUME NEW c \in StubState, c.live = {}, c.protocol, NEW sent \in Seq(Nat),
        NEW received \in Seq(Messages),
           c.closed \/ (sent = <<>> /\ received = <<>>)
    PROVE  Becoming(C!Unfiltered(c), sent, received)
<1> DEFINE b == [c EXCEPT !.subOp = "None", !.bound = "none", !.connected = ~c.closed,
        !.exception = TRUE]
<1>1. PICK f \in BOOLEAN : f <=> ~c.closed
  BY DEF StubState
<1>2. /\ b \in StubState /\ b.live = {} /\ b.protocol /\ b.closed = c.closed /\ b.exception
      /\ (b.connected => ~b.closed)
  <2>1. (~c.closed) \in BOOLEAN
    OBVIOUS
  <2> QED
    <3>1. b \in StubState
      BY <2>1 DEF StubState
    <3> QED
      BY <2>1, <3>1, StubFields DEF StubNames
<1>3. C!Unfiltered(c) = C!Notify(b)
  BY DEF C!Unfiltered
<1> HIDE DEF b
<1>4. /\ C!Notify(b) \in StubState /\ ~C!Notify(b).callback /\ C!Notify(b).live = b.live
      /\ C!Notify(b).exception = b.exception /\ C!Notify(b).closed = b.closed
      /\ C!Notify(b).connected = b.connected /\ C!Notify(b).protocol = b.protocol
  BY <1>2, NotifyDoes
<1> QED
  BY <1>2, <1>3, <1>4 DEF Becoming, Idle, HasOwn

(* An operation fails, or times out. *)
LEMMA FailBecomes ==
    ASSUME NEW c \in StubState, c.live = {}, c.bound = "sub" => c.protocol,
           NEW sent \in Seq(Nat), NEW received \in Seq(Messages)
    PROVE  Becoming(C!Fail(c), sent, received)
<1>1. CASE c.bound = "sub"
  <2>1. C!Close(c) \in StubState /\ C!Close(c).live = {} /\ C!Close(c).closed
          /\ C!Close(c).protocol = c.protocol
    BY DEF C!Close, StubState
  <2> QED
    BY <1>1, <2>1, UnfilteredBecomes DEF C!Fail
<1>2. CASE c.bound # "sub"
  BY <1>2, OnErrorBecomes DEF C!Fail
<1> QED
  BY <1>1, <1>2

-----------------------------------------------------------------------------
(* The steps *)

(* Nothing sent, and nothing received                                      *)
LEMMA EmptyLists == <<>> \in Seq(Nat) /\ <<>> \in Seq(Messages)
  OBVIOUS

(* Who has no callback has no handlers, and nothing on its way. *)
LEMMA AtRest ==
    ASSUME CallInv, ~stub.callback
    PROVE  Idle(stub) /\ Silent
  BY DEF CallInv, Idle, Connecting, Writing, Reading, Waiting

(* The user makes a call ...                                               *)
LEMMA CallStep ==
    ASSUME CallInv, C!Call
    PROVE  CallInv'
<1>1. Idle(stub) /\ Silent /\ stub \in StubState
  BY AtRest DEF C!Call, CallInv
<1>2. PICK kind \in {"twoway", "oneway"} :
          LET c == [stub EXCEPT !.call = @ + 1, !.kind = kind, !.callback = TRUE,
              !.exception = FALSE,
                                !.inProgress = TRUE, !.tries = 0, !.cancelled = FALSE]
          IN  \E d \in C!BeginCall(c) : C!Handles(d)
  BY DEF C!Call
<1>0. PICK n \in Nat \ {0} : n = stub.call + 1
  BY DEF CallInv, StubState
<1> DEFINE c == [stub EXCEPT !.call = n, !.kind = kind, !.callback = TRUE, !.exception = FALSE,
                             !.inProgress = TRUE, !.tries = 0, !.cancelled = FALSE]
<1>3. /\ c \in StubState /\ c.live = {} /\ c.callback /\ c.call > 0 /\ (c.connected => ~c.closed)
      /\ c.kind \in {"twoway", "oneway"}
  <2>1. kind \in C!Kinds /\ n \in Nat /\ n > 0
    BY DEF C!Kinds
  <2>2. c \in StubState
    BY <1>1, <2>1 DEF StubState
  <2>3. /\ c.live = stub.live /\ c.callback /\ c.call = n /\ c.connected = stub.connected
        /\ c.closed = stub.closed /\ c.kind = kind
    BY <1>1 DEF StubState
  <2> HIDE DEF c
  <2> QED
    BY <1>1, <2>1, <2>2, <2>3 DEF Idle
<1>4. PICK d \in C!BeginCall(c) : C!Handles(d)
  BY <1>0, <1>2
<1> HIDE DEF c
<1>5. Becoming(d, <<>>, <<>>) /\ C!Becomes(d, <<>>, <<>>)
  BY <1>1, <1>3, <1>4, BeginCallBecomes DEF C!Handles, Silent
<1> QED
  BY <1>5, BecomesOK

(* ... connects ...                                                        *)
LEMMA ConnectAsyncStep ==
    ASSUME CallInv, C!ConnectAsync
    PROVE  CallInv'
<1>1. Idle(stub) /\ Silent /\ stub \in StubState /\ ~stub.protocol
  BY AtRest DEF C!ConnectAsync, CallInv
<1>0. PICK n \in Nat \ {0} : n = stub.call + 1
  BY DEF CallInv, StubState
<1> DEFINE c == [stub EXCEPT !.call = n, !.kind = "connect", !.callback = TRUE, !.exception = FALSE,
                             !.cancelled = FALSE]
<1>2. PICK d \in C!Connect(c) : C!Handles(d)
  BY <1>0 DEF C!ConnectAsync
<1>3. c \in StubState /\ c.callback /\ c.call > 0 /\ Encoded(c)
  <2>1. "connect" \in C!Kinds /\ n \in Nat /\ n > 0
    BY DEF C!Kinds
  <2>2. c \in StubState
    BY <1>1, <2>1 DEF StubState
  <2>3. /\ c.callback /\ c.call = n /\ c.kind = "connect" /\ c.encoded = stub.encoded
        /\ c.protocol = stub.protocol
    BY <1>1 DEF StubState
  <2> HIDE DEF c
  <2> QED
    BY <1>1, <2>1, <2>2, <2>3 DEF Idle, Encoded
<1> HIDE DEF c
<1>4. Becoming(d, <<>>, <<>>) /\ C!Becomes(d, <<>>, <<>>)
  BY <1>1, <1>2, <1>3, ConnectBecomes, EmptyLists DEF C!Handles, Silent
<1> QED
  BY <1>4, BecomesOK

(* ... waits ...                                                           *)
LEMMA WaitStep ==
    ASSUME CallInv, C!Wait
    PROVE  CallInv'
<1>1. Idle(stub) /\ Silent /\ stub \in StubState
  BY AtRest DEF C!Wait, CallInv
<1>0. PICK n \in Nat \ {0} : n = stub.call + 1
  BY DEF CallInv, StubState
<1> DEFINE c == [stub EXCEPT !.call = n, !.kind = "wait", !.callback = TRUE, !.exception = FALSE,
                             !.cancelled = FALSE, !.op = "Wait", !.bound = "main",
                                 !.live = {"timer"}]
<1>2. c \in StubState /\ c.callback /\ c.call > 0 /\ Waiting(c) /\ c.kind = "wait"
  <2>1. "wait" \in C!Kinds /\ n \in Nat /\ n > 0
    BY DEF C!Kinds
  <2>2. c \in StubState
    BY <1>1, <2>1 DEF StubState
  <2>3. /\ c.callback /\ c.call = n /\ c.kind = "wait" /\ c.op = "Wait" /\ c.bound = "main"
        /\ c.live = {"timer"} /\ c.encoded = stub.encoded /\ c.protocol = stub.protocol
        /\ c.connected = stub.connected /\ c.closed = stub.closed
    BY <1>1 DEF StubState
  <2> HIDE DEF c
  <2> QED
    BY <1>1, <2>1, <2>2, <2>3 DEF Idle, Waiting
<1>3. C!Handles(c)
  BY <1>0 DEF C!Wait
<1> HIDE DEF c
<1>4. Becoming(c, <<>>, <<>>) /\ C!Becomes(c, <<>>, <<>>)
  BY <1>1, <1>2, <1>3, EmptyLists DEF C!Handles, Silent, Becoming, HasOwn
<1> QED
  BY <1>4, BecomesOK

(* ... or cancels what is under way.                                       *)
LEMMA CancelStep ==
    ASSUME CallInv, C!Cancel
    PROVE  CallInv'
<1> DEFINE c == [stub EXCEPT !.live = {}, !.cancelled = TRUE]
<1>1. c \in StubState /\ requests \in Seq(Nat) /\ wire \in Seq(Messages)
  BY DEF CallInv, StubState
<1>2. C!Handles(C!OnError(c, "local"))
  BY DEF C!Cancel
<1> HIDE DEF c
<1> QED
  BY <1>1, <1>2, OnErrorBecomes, BecomesOK DEF C!Handles

(* The address has been looked up.                                         *)
LEMMA DnsStep ==
    ASSUME CallInv, C!DnsLookupCompleted
    PROVE  CallInv'
<1>1. Connecting(stub) /\ Silent /\ stub \in StubState /\ stub.call > 0 /\ stub.live = {"dns"}
  BY DEF C!DnsLookupCompleted, CallInv, Idle, Connecting, Writing, Reading, Waiting
<1> DEFINE c == [stub EXCEPT !.live = @ \ {"dns"}]
<1>2. /\ c \in StubState /\ c.live = {} /\ c.callback /\ ~c.closed /\ c.kind = stub.kind
      /\ c.encoded = stub.encoded /\ c.call = stub.call /\ c.op = "Connect"
      /\ c.protocol = stub.protocol /\ c.bound = "main"
  BY <1>1 DEF StubState, Connecting
<1>3. C!Handles(C!Post(c, "connect")) \/ C!Handles(C!OnError(c, "local"))
  BY DEF C!DnsLookupCompleted
<1> HIDE DEF c
<1>4. CASE C!Handles(C!OnError(c, "local"))
  BY <1>1, <1>2, <1>4, OnErrorBecomes, EmptyLists, BecomesOK DEF C!Handles, Silent
<1>5. CASE C!Handles(C!Post(c, "connect"))
  <2> DEFINE d == C!Post(c, "connect")
  <2>1. /\ d \in StubState /\ d.live = c.live \union {"connect", "timer"}
        /\ d.callback = c.callback /\ d.closed = c.closed
        /\ d.kind = c.kind /\ d.encoded = c.encoded
        /\ d.call = c.call /\ d.op = c.op
        /\ d.protocol = c.protocol /\ d.bound = c.bound
    BY <1>2, PostDoes
  <2> HIDE DEF d
  <2>2. Connecting(d)
    BY <1>1, <1>2, <2>1 DEF Connecting
  <2>3. Becoming(d, <<>>, <<>>)
    BY <1>1, <1>2, <2>1, <2>2, EmptyLists DEF Becoming, HasOwn
  <2>4. C!Becomes(d, <<>>, <<>>)
    BY <1>1, <1>5 DEF C!Handles, Silent, d
  <2> QED
    BY <2>3, <2>4, BecomesOK
<1> QED
  BY <1>3, <1>4, <1>5

(* Filters are asked for, if there is a protocol. *)
LEMMA ConnectedStep ==
    ASSUME CallInv, C!OnConnectCompleted
    PROVE  CallInv'
<1>1. Connecting(stub) /\ Silent /\ stub \in StubState /\ stub.call > 0
  BY DEF C!OnConnectCompleted, CallInv, Idle, Connecting, Writing, Reading, Waiting
<1> DEFINE c == [stub EXCEPT !.live = {}]
<1>2. /\ c \in StubState /\ c.live = {} /\ c.callback /\ ~c.closed /\ c.kind = stub.kind
      /\ c.encoded = stub.encoded /\ c.call = stub.call
      /\ c.protocol = stub.protocol /\ c.bound = "main"
  BY <1>1 DEF StubState, Connecting
<1>3. C!Becomes(C!ConnectCompleted(c), <<>>, <<>>) \/ C!Handles(C!Fail(c))
  BY DEF C!OnConnectCompleted, C!Completed
<1> HIDE DEF c
<1>4. CASE C!Handles(C!Fail(c))
  BY <1>1, <1>2, <1>4, FailBecomes, EmptyLists, BecomesOK DEF C!Handles, Silent
<1>5. CASE C!Becomes(C!ConnectCompleted(c), <<>>, <<>>)
  <2> DEFINE d == [c EXCEPT !.op = "None"]
             e == [d EXCEPT !.subOp = "Write"]
  <2>1. /\ d \in StubState /\ d.live = {} /\ d.callback /\ ~d.closed /\ Encoded(d) /\ d.call > 0
        /\ e \in StubState /\ e.live = {} /\ e.callback /\ ~e.closed /\ e.kind = c.kind
        /\ e.encoded = c.encoded
        /\ e.call = c.call /\ e.protocol = c.protocol
    <3>1. d \in StubState /\ e \in StubState
      <4>1. c \in StubState
        BY <1>2
      <4>2. d \in StubState
        BY <4>1 DEF StubState
      <4> HIDE DEF d
      <4> QED
        BY <4>2 DEF StubState
    <3>2. DOMAIN c = StubNames /\ DOMAIN d = StubNames
      BY <1>1, <3>1, StubFields
    <3>3. /\ d.live = c.live /\ d.callback = c.callback /\ d.closed = c.closed
          /\ d.encoded = c.encoded /\ d.call = c.call /\ d.kind = c.kind
          /\ e.live = d.live /\ e.callback = d.callback /\ e.closed = d.closed
          /\ e.encoded = d.encoded /\ e.call = d.call /\ e.kind = d.kind
          /\ e.protocol = c.protocol
      BY <3>2 DEF StubNames
    <3> QED
      BY <1>1, <1>2, <3>1, <3>3 DEF Encoded, Connecting
  <2>2. C!ConnectCompleted(c) = IF c.protocol THEN C!Send(e, "sub") ELSE C!SetupCompleted(d)
    BY DEF C!ConnectCompleted
  <2> HIDE DEF d, e
  <2>3. CASE c.protocol
    <3>1. e.kind \in {"twoway", "oneway"} /\ e.encoded = e.call
      BY <1>1, <1>2, <2>1, <2>3 DEF Connecting
    <3>2. C!Send(e, "sub") \in StubState /\ Writing(C!Send(e, "sub"))
            /\ C!Send(e, "sub").call = e.call /\ C!Send(e, "sub").callback
      BY <1>2, <2>1, <2>3, <3>1, SendDoes
    <3>3. Becoming(C!Send(e, "sub"), <<>>, <<>>)
      BY <1>1, <1>2, <2>1, <3>2, EmptyLists DEF Becoming, HasOwn
    <3> QED
      BY <1>5, <2>2, <2>3, <3>3, BecomesOK
  <2>4. CASE ~c.protocol
    BY <1>5, <2>1, <2>2, <2>4, SetupBecomes, BecomesOK
  <2> QED
    BY <2>3, <2>4
<1> QED
  BY <1>3, <1>4, <1>5

(* An operation of the client that reads follows one that has nothing else *)
(* on its way, or what is on its way is what it reads.                     *)
LEMMA ReadingOK ==
    ASSUME CallInv, NEW c \in StubState, NEW sent \in Seq(Nat), NEW received \in Seq(Messages),
           C!Becomes(c, sent, received), Reading(c), c.call > 0,
           NEW n, n = IF c.bound = "sub" THEN 0 ELSE c.call, sent \in {<<>>, <<n>>},
           \A i \in DOMAIN received :
               /\ received[i].of = n
               /\ received[i].type = "ping" => n # 0
               /\ received[i].type # "ping" => i = Len(received) /\ sent = <<>>,
           c.position = 1 => received # <<>>
    PROVE  CallInv'
<1>1. stub' = c /\ requests' = sent /\ wire' = received /\ gone' = gone
  BY DEF C!Becomes, Reading
<1>2. AnswerIsOwn' /\ stub' \in StubState /\ (stub'.callback => stub'.call > 0)
  BY <1>1 DEF AnswerIsOwn, C!AnswerIsOwn, Reading
<1>3. Reading(stub') /\ (stub'.position = 1 => wire' # <<>>)
  BY <1>1
<1>4. Outstanding(IF stub.bound = "sub" THEN 0 ELSE stub.call)'
  BY <1>1 DEF Outstanding
<1> QED
  BY <1>1, <1>2, <1>3, <1>4 DEF CallInv

(* The request is on its way, and nothing that answers it. *)
LEMMA FirstRead ==
    ASSUME CallInv, NEW c \in StubState, NEW n \in Nat, C!Becomes(c, <<n>>, <<>>), Reading(c),
        c.call > 0,
           n = IF c.bound = "sub" THEN 0 ELSE c.call, c.position = 0
    PROVE  CallInv'
<1>1. <<n>> \in Seq(Nat) /\ <<n>> \in {<<>>, <<n>>}
  OBVIOUS
<1>2. c.position = 1 => FALSE
  OBVIOUS
<1>3. <<>> \in Seq(Messages)
  BY EmptyLists
<1>4. \A i \in DOMAIN <<>> : FALSE
  OBVIOUS
<1> DEFINE received == <<>>
<1> HIDE DEF received
<1>5. /\ received \in Seq(Messages) /\ C!Becomes(c, <<n>>, received)
      /\ \A i \in DOMAIN received : FALSE
  BY <1>3, <1>4 DEF received
<1> QED
  BY <1>1, <1>2, <1>5, ReadingOK

(* A client that has sent its request reads.                               *)
LEMMA ReceiveDoes ==
    ASSUME NEW c \in StubState, NEW who \in {"main", "sub"}, c.live = {}
    PROVE  /\ C!Receive(c, who) \in StubState /\ C!Receive(c, who).live = {"read", "timer"}
           /\ C!Receive(c, who).position = 0 /\ C!Receive(c, who).bound = who
           /\ C!Receive(c, who).callback = c.callback /\ C!Receive(c, who).closed = c.closed
           /\ C!Receive(c, who).op = c.op /\ C!Receive(c, who).kind = c.kind
           /\ C!Receive(c, who).call = c.call
           /\ C!Receive(c, who).encoded = c.encoded /\ C!Receive(c, who).protocol = c.protocol
<1> DEFINE b == [c EXCEPT !.bound = who, !.position = 0]
<1>1. /\ b \in StubState /\ b.live = {} /\ b.position = 0 /\ b.bound = who
      /\ b.callback = c.callback /\ b.closed = c.closed /\ b.op = c.op /\ b.kind = c.kind
      /\ b.call = c.call /\ b.encoded = c.encoded /\ b.protocol = c.protocol
  BY DEF StubState
<1>2. C!Receive(c, who) = C!Post(b, "read")
  BY DEF C!Receive
<1> HIDE DEF b
<1>3. /\ C!Post(b, "read") \in StubState /\ C!Post(b, "read").live = b.live \union {"read", "timer"}
      /\ C!Post(b, "read").position = b.position /\ C!Post(b, "read").bound = b.bound
      /\ C!Post(b, "read").callback = b.callback /\ C!Post(b, "read").closed = b.closed
      /\ C!Post(b, "read").op = b.op /\ C!Post(b, "read").kind = b.kind
      /\ C!Post(b, "read").call = b.call
      /\ C!Post(b, "read").encoded = b.encoded /\ C!Post(b, "read").protocol = b.protocol
  BY <1>1, PostDoes
<1> QED
  BY <1>1, <1>2, <1>3

(* The request has been sent.                                              *)
LEMMA SentStep ==
    ASSUME CallInv, C!OnSendCompleted
    PROVE  CallInv'
<1>1. Writing(stub) /\ Silent /\ stub \in StubState /\ stub.call > 0
  BY DEF C!OnSendCompleted, CallInv, Idle, Connecting, Writing, Reading, Waiting
<1> DEFINE c == [stub EXCEPT !.live = {}]
<1>2. /\ c \in StubState /\ c.live = {} /\ c.callback /\ ~c.closed /\ c.kind = stub.kind
      /\ c.kind \in {"twoway", "oneway"} /\ c.encoded = c.call /\ c.call > 0
      /\ c.protocol = stub.protocol /\ c.bound = stub.bound /\ c.bound \in {"main", "sub"}
      /\ (c.bound = "sub" => c.protocol)
  BY <1>1 DEF StubState, Writing
<1>3. \/ c.bound = "sub" /\ C!Becomes(C!Receive([c EXCEPT !.subOp = "Read"], "sub"),
        Append(requests, 0), wire)
      \/ /\ c.bound = "main" /\ c.kind # "oneway"
         /\ C!Becomes(C!BeginReceive([c EXCEPT !.encoded = 0]), Append(requests, c.encoded), wire)
      \/ /\ c.bound = "main" /\ c.kind = "oneway"
         /\ C!Handles(C!Notify([c EXCEPT !.encoded = 0, !.op = "None"]))
      \/ gone /\ C!Handles(C!Fail(c))
  BY DEF C!OnSendCompleted, C!Completed
<1> HIDE DEF c
<1>4. \A n : Append(<<>>, n) = <<n>>
  OBVIOUS
<1>5. CASE c.bound = "sub" /\ C!Becomes(C!Receive([c EXCEPT !.subOp = "Read"], "sub"),
        Append(requests, 0), wire)
  <2> DEFINE b == [c EXCEPT !.subOp = "Read"]
             d == C!Receive(b, "sub")
  <2>1. /\ b \in StubState /\ b.live = {} /\ b.callback /\ ~b.closed /\ b.kind = c.kind
        /\ b.encoded = c.encoded /\ b.call = c.call /\ b.protocol = c.protocol
    BY <1>2 DEF StubState
  <2> HIDE DEF b
  <2>2. /\ d \in StubState /\ d.live = {"read", "timer"} /\ d.position = 0 /\ d.bound = "sub"
        /\ d.callback = b.callback /\ d.closed = b.closed /\ d.kind = b.kind
        /\ d.call = b.call /\ d.encoded = b.encoded /\ d.protocol = b.protocol
    BY <2>1, ReceiveDoes
  <2>3. C!Becomes(d, <<0>>, <<>>)
    BY <1>1, <1>4, <1>5 DEF Silent, b
  <2> HIDE DEF d
  <2>4. Reading(d)
    BY <1>2, <1>5, <2>1, <2>2 DEF Reading
  <2>5. <<0>> \in Seq(Nat) /\ d.call > 0
    BY <1>2, <2>1, <2>2
  <2> QED
    BY <2>2, <2>3, <2>4, <2>5, FirstRead
<1>6. CASE /\ c.bound = "main" /\ c.kind # "oneway"
           /\ C!Becomes(C!BeginReceive([c EXCEPT !.encoded = 0]), Append(requests, c.encoded), wire)
  <2> DEFINE b == [[c EXCEPT !.encoded = 0] EXCEPT !.op = "Read"]
             d == C!Receive(b, "main")
  <2>1. /\ b \in StubState /\ b.live = {} /\ b.callback /\ ~b.closed /\ b.kind = c.kind
        /\ b.encoded = 0 /\ b.call = c.call /\ b.op = "Read"
    BY <1>2 DEF StubState
  <2>2. C!BeginReceive([c EXCEPT !.encoded = 0]) = d
    BY DEF C!BeginReceive
  <2> HIDE DEF b
  <2>3. /\ d \in StubState /\ d.live = {"read", "timer"} /\ d.position = 0 /\ d.bound = "main"
        /\ d.callback = b.callback /\ d.closed = b.closed /\ d.kind = b.kind /\ d.op = b.op
        /\ d.call = b.call /\ d.encoded = b.encoded
    BY <2>1, ReceiveDoes
  <2> HIDE DEF d
  <2>4. C!Becomes(d, <<c.call>>, <<>>)
    BY <1>1, <1>2, <1>4, <1>6, <2>2 DEF Silent
  <2>5. Reading(d)
    BY <1>2, <1>6, <2>1, <2>3 DEF Reading
  <2>6. c.call \in Nat /\ <<c.call>> \in Seq(Nat) /\ d.call = c.call
    BY <1>2, <2>1, <2>3 DEF StubState
  <2> QED
    BY <1>2, <2>3, <2>4, <2>5, <2>6, FirstRead
<1>7. CASE c.kind = "oneway" /\ C!Handles(C!Notify([c EXCEPT !.encoded = 0, !.op = "None"]))
  <2> DEFINE b == [c EXCEPT !.encoded = 0, !.op = "None"]
  <2>1. b \in StubState /\ b.live = {} /\ ~b.closed /\ b.encoded = 0 /\ b.kind = "oneway"
    BY <1>2, <1>7 DEF StubState
  <2> HIDE DEF b
  <2>2. /\ C!Notify(b) \in StubState /\ ~C!Notify(b).callback /\ C!Notify(b).live = {}
        /\ ~C!Notify(b).closed
        /\ C!Notify(b).encoded = 0 /\ C!Notify(b).kind = "oneway"
    BY <2>1, NotifyDoes
  <2>3. Becoming(C!Notify(b), <<>>, <<>>)
    BY <2>2, EmptyLists DEF Becoming, Idle, HasOwn
  <2>4. C!Becomes(C!Notify(b), <<>>, <<>>)
    BY <1>1, <1>7 DEF C!Handles, Silent, b
  <2> QED
    BY <2>3, <2>4, BecomesOK
<1>8. CASE C!Handles(C!Fail(c))
  BY <1>1, <1>2, <1>8, FailBecomes, EmptyLists, BecomesOK DEF C!Handles, Silent
<1> QED
  BY <1>3, <1>5, <1>6, <1>7, <1>8

(* What is on the wire answers the request, and nothing follows it. *)
LEMMA MessageRead ==
    ASSUME CallInv, C!OnTimedRecvCompleted, stub.position = 1
    PROVE  /\ Reading(stub) /\ stub \in StubState /\ stub.call > 0 /\ wire # <<>>
           /\ Head(wire) \in Messages /\ Tail(wire) \in Seq(Messages) /\ requests \in Seq(Nat)
           /\ \A n : n = (IF stub.bound = "sub" THEN 0 ELSE stub.call) =>
                /\ Head(wire).of = n
                /\ Head(wire).type = "ping" => n # 0
                /\ Head(wire).type # "ping" => requests = <<>> /\ Tail(wire) = <<>>
                /\ requests \in {<<>>, <<n>>}
                /\ \A i \in DOMAIN Tail(wire) :
                       /\ Tail(wire)[i].of = n
                       /\ Tail(wire)[i].type = "ping" => n # 0
                       /\ Tail(wire)[i].type # "ping" => i = Len(Tail(wire)) /\ requests = <<>>
<1>1. /\ Reading(stub) /\ stub \in StubState /\ stub.call > 0 /\ wire # <<>>
      /\ wire \in Seq(Messages) /\ requests \in Seq(Nat)
      /\ Outstanding(IF stub.bound = "sub" THEN 0 ELSE stub.call)
  BY DEF C!OnTimedRecvCompleted, CallInv, Idle, Connecting, Writing, Reading, Waiting
<1>2. /\ Head(wire) = wire[1] /\ Head(wire) \in Messages /\ Tail(wire) \in Seq(Messages)
      /\ Len(Tail(wire)) = Len(wire) - 1 /\ 1 \in DOMAIN wire
      /\ \A i \in DOMAIN Tail(wire) : i + 1 \in DOMAIN wire /\ Tail(wire)[i] = wire[i + 1]
         /\ i \in Nat
      /\ Len(wire) \in Nat
  BY <1>1
<1>3. 1 = Len(wire) => Tail(wire) = <<>>
  <2> DEFINE rest == Tail(wire)
  <2>1. 1 = Len(wire) => Len(rest) = 0 /\ rest \in Seq(Messages)
    <3>1. Len(Tail(wire)) = Len(wire) - 1 /\ Tail(wire) \in Seq(Messages)
      BY <1>2
    <3>2. \A k : 1 = k => k - 1 = 0
      OBVIOUS
    <3> QED
      BY <3>1, <3>2
  <2> HIDE DEF rest
  <2>2. rest \in Seq(Messages) /\ Len(rest) = 0 => rest = <<>>
    OBVIOUS
  <2> QED
    BY <2>1, <2>2 DEF rest
<1>4. ASSUME NEW n, n = IF stub.bound = "sub" THEN 0 ELSE stub.call
      PROVE  /\ Head(wire).of = n
             /\ Head(wire).type = "ping" => n # 0
             /\ Head(wire).type # "ping" => requests = <<>> /\ Tail(wire) = <<>>
             /\ requests \in {<<>>, <<n>>}
             /\ \A i \in DOMAIN Tail(wire) :
                    /\ Tail(wire)[i].of = n
                    /\ Tail(wire)[i].type = "ping" => n # 0
                    /\ Tail(wire)[i].type # "ping" => i = Len(Tail(wire)) /\ requests = <<>>
  <2>1. /\ requests \in {<<>>, <<n>>}
        /\ \A i \in DOMAIN wire :
               /\ wire[i].of = n
               /\ wire[i].type = "ping" => n # 0
               /\ wire[i].type # "ping" => i = Len(wire) /\ requests = <<>>
    BY <1>1, <1>4 DEF Outstanding
  <2>2. ASSUME NEW i \in DOMAIN Tail(wire)
        PROVE  /\ Tail(wire)[i].of = n
               /\ Tail(wire)[i].type = "ping" => n # 0
               /\ Tail(wire)[i].type # "ping" => i = Len(Tail(wire)) /\ requests = <<>>
    <3>1. i + 1 \in DOMAIN wire /\ Tail(wire)[i] = wire[i + 1] /\ i \in Nat
      BY <1>2
    <3>2. i + 1 = Len(wire) => i = Len(Tail(wire))
      <4>1. Len(Tail(wire)) = Len(wire) - 1 /\ Len(wire) \in Nat
        BY <1>2
      <4>2. \A k \in Nat : i + 1 = k => i = k - 1
        BY <3>1
      <4> QED
        BY <4>1, <4>2
    <3> QED
      BY <2>1, <3>1, <3>2
  <2> QED
    BY <1>2, <1>3, <2>1, <2>2
<1> QED
  BY <1>1, <1>2, <1>4

(* The length has come: the message is read next. *)
LEMMA LengthStep ==
    ASSUME CallInv, "read" \in stub.live, stub.position = 0, wire # <<>>,
           C!Handles([C!Post(C!Completed("read"), "read") EXCEPT !.position = 1])
    PROVE  CallInv'
<1>1. /\ Reading(stub) /\ stub \in StubState /\ stub.call > 0
      /\ wire \in Seq(Messages) /\ requests \in Seq(Nat)
      /\ Outstanding(IF stub.bound = "sub" THEN 0 ELSE stub.call)
  BY DEF CallInv, Idle, Connecting, Writing, Reading, Waiting
<1> DEFINE c == [stub EXCEPT !.live = {}]
           p == C!Post(c, "read")
           d == [p EXCEPT !.position = 1]
<1>2. /\ c \in StubState /\ c.live = {} /\ c.callback = stub.callback /\ c.call = stub.call
      /\ c.kind = stub.kind /\ c.encoded = stub.encoded /\ c.op = stub.op
      /\ c.protocol = stub.protocol /\ c.closed = stub.closed /\ c.bound = stub.bound
  <2>1. stub \in StubState
    BY <1>1
  <2>2. c \in StubState
    BY <2>1 DEF StubState
  <2> QED
    BY <2>1, <2>2, StubFields DEF StubNames
<1>3. C!Handles(d)
  BY DEF C!Completed
<1> HIDE DEF c
<1>4. /\ p \in StubState /\ p.live = c.live \union {"read", "timer"} /\ p.callback = c.callback
      /\ p.call = c.call /\ p.kind = c.kind /\ p.encoded = c.encoded /\ p.op = c.op
      /\ p.protocol = c.protocol /\ p.closed = c.closed /\ p.bound = c.bound
  BY <1>2, PostDoes
<1> HIDE DEF p
<1>5. /\ d \in StubState /\ d.live = {"read", "timer"} /\ d.callback = stub.callback
      /\ d.call = stub.call /\ d.kind = stub.kind /\ d.encoded = stub.encoded
      /\ d.op = stub.op /\ d.protocol = stub.protocol /\ d.closed = stub.closed
      /\ d.bound = stub.bound
  BY <1>2, <1>4 DEF StubState
<1> HIDE DEF d
<1>6. Reading(d)
  BY <1>1, <1>5 DEF Reading
<1>7. PICK n : n = IF d.bound = "sub" THEN 0 ELSE d.call
  OBVIOUS
<1>8. /\ requests \in {<<>>, <<n>>}
      /\ \A i \in DOMAIN wire :
             /\ wire[i].of = n
             /\ wire[i].type = "ping" => n # 0
             /\ wire[i].type # "ping" => i = Len(wire) /\ requests = <<>>
  BY <1>1, <1>5, <1>7 DEF Outstanding
<1>9. C!Becomes(d, requests, wire) /\ d.call > 0
  BY <1>1, <1>3, <1>5 DEF C!Handles
<1> QED
  BY <1>1, <1>5, <1>6, <1>7, <1>8, <1>9, ReadingOK

(* The server has sent filters, or has none. *)
LEMMA FiltersStep ==
    ASSUME CallInv, C!OnTimedRecvCompleted, stub.position = 1, stub.bound = "sub",
           NEW c, c = [stub EXCEPT !.live = {}, !.op = "None"],
           NEW d \in C!OnFiltersReceived(c, Head(wire)), C!Becomes(d, requests, Tail(wire))
    PROVE  CallInv'
<1>1. Reading(stub) /\ stub \in StubState /\ stub.call > 0
  BY MessageRead
<1>2. requests = <<>> /\ Tail(wire) = <<>>
  BY MessageRead
<1>3. /\ c \in StubState /\ c.live = {} /\ c.callback /\ ~c.closed /\ c.kind = stub.kind
      /\ c.encoded = stub.encoded /\ c.call = stub.call /\ c.protocol
  BY <1>1 DEF StubState, Reading
<1>4. CASE d = C!Unfiltered(c)
  BY <1>2, <1>3, <1>4, EmptyLists, UnfilteredBecomes, BecomesOK
<1>5. CASE d = C!Filtered(c)
  <2> DEFINE b == [c EXCEPT !.subOp = "None"]
  <2>1. /\ b \in StubState /\ b.live = {} /\ b.callback /\ ~b.closed /\ b.kind = c.kind
        /\ b.encoded = c.encoded /\ b.call = c.call
    <3>1. c \in StubState
      BY <1>3
    <3>2. b \in StubState
      BY <3>1 DEF StubState
    <3> QED
      BY <1>3, <3>2, StubFields DEF StubNames
  <2>2. d = C!SetupCompleted(b)
    BY <1>5 DEF C!Filtered
  <2> HIDE DEF b
  <2>3. Encoded(b) /\ b.call > 0
    BY <1>1, <1>3, <2>1 DEF Encoded, Reading
  <2> QED
    BY <1>2, <2>1, <2>2, <2>3, SetupBecomes, BecomesOK
<1> QED
  BY <1>4, <1>5 DEF C!OnFiltersReceived

(* The answer, or a ping, of a call *)
LEMMA ReceivedStep ==
    ASSUME CallInv, C!OnTimedRecvCompleted, stub.position = 1, stub.bound # "sub",
           NEW c \in StubState, c.live = {}, c.callback, ~c.closed, c.kind = "twoway",
               c.encoded = 0,
           c.call = stub.call,
           NEW d \in C!OnReceiveCompleted(c, Head(wire)), C!Becomes(d, requests, Tail(wire))
    PROVE  CallInv'
<1>1. /\ Reading(stub) /\ stub \in StubState /\ stub.call > 0 /\ stub.bound = "main"
      /\ Head(wire) \in Messages /\ Tail(wire) \in Seq(Messages) /\ requests \in Seq(Nat)
  BY MessageRead DEF Reading
<1>2. PICK n : n = stub.call
  OBVIOUS
<1>3. /\ Head(wire).of = n
      /\ Head(wire).type # "ping" => requests = <<>> /\ Tail(wire) = <<>>
      /\ requests \in {<<>>, <<n>>}
      /\ \A i \in DOMAIN Tail(wire) :
             /\ Tail(wire)[i].of = n
             /\ Tail(wire)[i].type = "ping" => n # 0
             /\ Tail(wire)[i].type # "ping" => i = Len(Tail(wire)) /\ requests = <<>>
  BY <1>2, MessageRead
<1>4. n \in Nat /\ c.call = n /\ c.call > 0
  BY <1>1, <1>2 DEF StubState
<1>5. CASE Head(wire).type = "result"
  <2> DEFINE b == [c EXCEPT !.answer = n]
  <2>1. b \in StubState /\ b.live = {} /\ ~b.closed /\ b.encoded = 0 /\ b.answer = b.call
    <3>1. b \in StubState
      BY <1>4 DEF StubState
    <3> QED
      BY <1>4, <3>1, StubFields DEF StubNames
  <2>2. d = C!Notify(b)
    BY <1>3, <1>5 DEF C!OnReceiveCompleted
  <2> HIDE DEF b
  <2>3. /\ C!Notify(b) \in StubState /\ ~C!Notify(b).callback /\ C!Notify(b).live = {}
        /\ ~C!Notify(b).closed
        /\ C!Notify(b).encoded = 0 /\ C!Notify(b).answer = C!Notify(b).call
    BY <2>1, NotifyDoes
  <2>4. Becoming(d, <<>>, <<>>)
    BY <2>2, <2>3, EmptyLists DEF Becoming, Idle, HasOwn
  <2> QED
    BY <1>3, <1>5, <2>4, BecomesOK
<1>6. CASE d = C!OnError(c, "remote") /\ Head(wire).type # "ping"
  <2>1. d \in StubState /\ Idle(d) /\ HasOwn(d)
    BY <1>4, <1>6, OnErrorDoes
  <2>2. Becoming(d, <<>>, <<>>)
    BY <2>1, EmptyLists DEF Becoming, Idle
  <2> QED
    BY <1>3, <1>6, <2>2, BecomesOK
<1>7. CASE d = C!OnError(c, "local")
  BY <1>1, <1>4, <1>7, OnErrorBecomes, BecomesOK
<1>8. CASE d = C!BeginReceive(c)
  <2> DEFINE b == [c EXCEPT !.op = "Read"]
  <2>1. /\ b \in StubState /\ b.live = {} /\ b.callback /\ ~b.closed /\ b.kind = "twoway"
        /\ b.encoded = 0 /\ b.call = c.call /\ b.op = "Read"
    BY <1>4 DEF StubState
  <2>2. d = C!Receive(b, "main")
    BY <1>8 DEF C!BeginReceive
  <2> HIDE DEF b
  <2>3. /\ d \in StubState /\ d.live = {"read", "timer"} /\ d.position = 0 /\ d.bound = "main"
        /\ d.callback = b.callback /\ d.closed = b.closed /\ d.kind = b.kind /\ d.op = b.op
        /\ d.call = b.call /\ d.encoded = b.encoded
    BY <2>1, <2>2, ReceiveDoes
  <2>4. Reading(d) /\ d.call > 0 /\ n = (IF d.bound = "sub" THEN 0 ELSE d.call)
    BY <1>1, <1>2, <1>4, <2>1, <2>3 DEF Reading
  <2> DEFINE rest == Tail(wire)
  <2>5. /\ rest \in Seq(Messages) /\ (d.position = 1 => rest # <<>>) /\ C!Becomes(d, requests, rest)
        /\ \A i \in DOMAIN rest :
               /\ rest[i].of = n
               /\ rest[i].type = "ping" => n # 0
               /\ rest[i].type # "ping" => i = Len(rest) /\ requests = <<>>
    BY <1>1, <1>3, <2>3
  <2> HIDE DEF rest
  <2> QED
    BY SMTT(30), <1>1, <1>3, <2>3, <2>4, <2>5, ReadingOK
<1>9. CASE d \in C!BeginCall([c EXCEPT !.tries = 1]) /\ Head(wire).type # "ping"
  <2> DEFINE b == [c EXCEPT !.tries = 1]
  <2>1. b \in StubState /\ b.live = {} /\ b.callback /\ b.call > 0 /\ ~b.closed /\ b.kind = "twoway"
    <3>1. b \in StubState
      BY DEF StubState
    <3> QED
      BY <1>4, <3>1, StubFields DEF StubNames
  <2> HIDE DEF b
  <2>2. Becoming(d, <<>>, <<>>)
    BY <1>9, <2>1, BeginCallBecomes DEF b
  <2> QED
    BY <1>3, <1>9, <2>2, BecomesOK
<1> QED
  <2>1. Head(wire).type \in {"result", "exception", "fatal", "mismatch", "ping"}
    BY <1>1 DEF Messages
  <2> QED
    BY <1>5, <1>6, <1>7, <1>8, <1>9, <2>1 DEF C!OnReceiveCompleted

(* Something has been read, or the connection is gone.                     *)
LEMMA RecvStep ==
    ASSUME CallInv, C!OnTimedRecvCompleted
    PROVE  CallInv'
<1>1. CASE stub.position = 0 /\ wire # <<>>
        /\ C!Handles([C!Post(C!Completed("read"), "read") EXCEPT !.position = 1])
  BY <1>1, LengthStep DEF C!OnTimedRecvCompleted
<1>2. CASE gone /\ C!Handles(C!Fail(C!Completed("read")))
  <2> DEFINE c == [stub EXCEPT !.live = {}]
  <2>1. stub \in StubState /\ Reading(stub) /\ wire \in Seq(Messages) /\ requests \in Seq(Nat)
    BY DEF C!OnTimedRecvCompleted, CallInv, Idle, Connecting, Writing, Reading, Waiting
  <2>2. c \in StubState /\ c.live = {} /\ (c.bound = "sub" => c.protocol)
    BY <2>1 DEF StubState, Reading
  <2>3. C!Becomes(C!Fail(c), requests, wire)
    BY <1>2 DEF C!Handles, C!Completed
  <2> HIDE DEF c
  <2> QED
    BY <2>1, <2>2, <2>3, FailBecomes, BecomesOK
<1> DEFINE c == [stub EXCEPT !.live = {}, !.op = "None"]
<1>3. CASE /\ stub.position = 1
           /\ \E d \in IF stub.bound = "sub" THEN C!OnFiltersReceived(c, Head(wire))
                                             ELSE C!OnReceiveCompleted(c, Head(wire)) :
                 C!Becomes(d, requests, Tail(wire))
  <2> HIDE DEF c
  <2>1. CASE stub.bound = "sub"
    BY <1>3, <2>1, FiltersStep DEF c
  <2>2. CASE stub.bound # "sub"
    <3>1. stub \in StubState /\ Reading(stub) /\ stub.bound = "main"
      BY <1>3, <2>2, MessageRead DEF Reading
    <3>2. /\ c \in StubState /\ c.live = {} /\ c.callback /\ ~c.closed /\ c.kind = "twoway"
          /\ c.encoded = 0 /\ c.call = stub.call
      BY <3>1 DEF StubState, Reading, c
    <3> QED
      BY <1>3, <2>2, <3>2, ReceivedStep
  <2> QED
    BY <2>1, <2>2
<1>4. c.bound = stub.bound
  <2>1. stub \in StubState
    BY DEF CallInv
  <2> QED
    BY <2>1 DEF StubState
<1>5. [C!Completed("read") EXCEPT !.op = "None"] = c
  BY DEF C!Completed
<1> HIDE DEF c
<1> QED
  BY <1>1, <1>2, <1>3, <1>4, <1>5 DEF C!OnTimedRecvCompleted

(* A timer expires: a wait is over, or an operation fails.                 *)
LEMMA StubTimerStep ==
    ASSUME CallInv, C!OnTimerExpired
    PROVE  CallInv'
<1> DEFINE c == [stub EXCEPT !.live = {}]
<1>1. /\ stub \in StubState /\ wire \in Seq(Messages) /\ requests \in Seq(Nat)
      /\ stub.bound = "sub" => stub.protocol
      /\ stub.bound = "main" /\ stub.op = "Wait" => Waiting(stub) /\ Silent
  BY DEF C!OnTimerExpired, CallInv, Idle, Connecting, Writing, Reading, Waiting
<1>2. /\ c \in StubState /\ c.live = {} /\ c.bound = stub.bound /\ c.op = stub.op
      /\ c.protocol = stub.protocol /\ c.kind = stub.kind /\ c.encoded = stub.encoded
      /\ c.connected = stub.connected /\ c.closed = stub.closed
  BY <1>1 DEF StubState
<1>3. C!Handles(IF c.bound = "main"
        /\ c.op = "Wait" THEN C!Notify([c EXCEPT !.op = "None"]) ELSE C!Fail(c))
  BY DEF C!OnTimerExpired, C!Completed
<1> HIDE DEF c
<1>4. CASE c.bound = "main" /\ c.op = "Wait"
  <2> DEFINE b == [c EXCEPT !.op = "None"]
  <2>1. /\ b \in StubState /\ b.live = {} /\ b.kind = c.kind /\ b.encoded = c.encoded
        /\ b.protocol = c.protocol /\ b.connected = c.connected /\ b.closed = c.closed
    BY <1>2 DEF StubState
  <2>2. C!Becomes(C!Notify(b), <<>>, <<>>)
    BY <1>1, <1>2, <1>3, <1>4 DEF C!Handles, Silent
  <2> HIDE DEF b
  <2>3. /\ C!Notify(b) \in StubState /\ ~C!Notify(b).callback /\ C!Notify(b).live = {}
        /\ C!Notify(b).kind = b.kind
        /\ C!Notify(b).encoded = b.encoded /\ C!Notify(b).protocol = b.protocol
        /\ C!Notify(b).connected = b.connected /\ C!Notify(b).closed = b.closed
    BY <2>1, NotifyDoes
  <2>4. Becoming(C!Notify(b), <<>>, <<>>)
    BY <1>1, <1>2, <1>4, <2>1, <2>3, EmptyLists DEF Becoming, Idle, HasOwn, Waiting
  <2> QED
    BY <2>2, <2>4, BecomesOK
<1>5. CASE ~(c.bound = "main" /\ c.op = "Wait")
  BY <1>1, <1>2, <1>3, <1>5, FailBecomes, BecomesOK DEF C!Handles
<1> QED
  BY <1>4, <1>5

(* The server sends one message m: of the call it has the request of. *)
LEMMA ServerSends ==
    ASSUME CallInv, requests # <<>>, UNCHANGED <<stub, gone>>,
           requests' \in {requests, Tail(requests)},
           \/ wire' = wire
           \/ \E m \in Messages : /\ wire' = Append(wire, m) /\ m.of = Head(requests)
                                  /\ m.type = "ping" => Head(requests) # 0
                                  /\ m.type # "ping" => requests' = Tail(requests)
    PROVE  CallInv'
<1>1. /\ Reading(stub) /\ stub \in StubState /\ wire \in Seq(Messages) /\ requests \in Seq(Nat)
      /\ Outstanding(IF stub.bound = "sub" THEN 0 ELSE stub.call)
      /\ stub.position = 1 => wire # <<>>
  BY DEF CallInv, Silent
<1>2. PICK n : n = IF stub.bound = "sub" THEN 0 ELSE stub.call
  OBVIOUS
<1>3. /\ requests = <<n>>
      /\ \A i \in DOMAIN wire : wire[i].of = n /\ wire[i].type = "ping" /\ n # 0
  BY <1>1, <1>2 DEF Outstanding
<1>4. Head(requests) = n /\ Tail(requests) = <<>> /\ requests' \in {<<>>, <<n>>}
        /\ requests' \in Seq(Nat)
  <2>1. \A k : Head(<<k>>) = k /\ Tail(<<k>>) = <<>>
    OBVIOUS
  <2>2. Head(requests) = n /\ Tail(requests) = <<>>
    BY <1>3, <2>1
  <2> QED
    BY <1>1, <1>3, <2>2, EmptyLists
<1>5. /\ wire' \in Seq(Messages) /\ (stub.position = 1 => wire' # <<>>)
      /\ \A i \in DOMAIN wire' :
             /\ wire'[i].of = n
             /\ wire'[i].type = "ping" => n # 0
             /\ wire'[i].type # "ping" => i = Len(wire') /\ requests' = <<>>
  <2>1. CASE wire' = wire
    BY <1>1, <1>3, <2>1
  <2>2. ASSUME NEW m \in Messages, wire' = Append(wire, m), m.of = n, m.type = "ping" => n # 0,
               m.type # "ping" => requests' = <<>>
        PROVE  <1>5
    <3>1. /\ wire' \in Seq(Messages) /\ wire' # <<>> /\ Len(wire') = Len(wire) + 1
          /\ \A i \in DOMAIN wire' : (i \in DOMAIN wire
             /\ wire'[i] = wire[i]) \/ (i = Len(wire') /\ wire'[i] = m)
      BY <1>1, <2>2
    <3> QED
      BY <1>3, <2>2, <3>1
  <2> QED
    BY <1>4, <2>1, <2>2
<1>6. Outstanding(IF stub.bound = "sub" THEN 0 ELSE stub.call)'
  BY <1>2, <1>4, <1>5 DEF Outstanding
<1>7. AnswerIsOwn' /\ Reading(stub)'
  BY <1>1 DEF AnswerIsOwn, C!AnswerIsOwn, CallInv, Reading
<1> QED
  BY <1>1, <1>4, <1>5, <1>6, <1>7 DEF CallInv

(* The server answers, or does not.                                        *)
LEMMA AnswerStep ==
    ASSUME CallInv, C!Answer
    PROVE  CallInv'
<1>1. requests # <<>> /\ UNCHANGED <<stub, gone>> /\ requests' = Tail(requests)
  BY DEF C!Answer
<1>2. CASE wire' = wire
  BY <1>1, <1>2, ServerSends
<1>3. ASSUME NEW type \in {"result", "exception", "fatal", "mismatch"},
             wire' = Append(wire, [type |-> type, of |-> Head(requests)])
      PROVE  CallInv'
  <2> DEFINE m == [type |-> type, of |-> Head(requests)]
  <2>1. Head(requests) \in Nat
    BY <1>1 DEF CallInv
  <2>2. m \in Messages /\ m.of = Head(requests) /\ m.type # "ping"
    BY <2>1 DEF Messages
  <2> QED
    BY <1>1, <1>3, <2>2, ServerSends
<1> QED
  BY <1>2, <1>3 DEF C!Answer

(* The server sends a ping while it is busy with a call.                   *)
LEMMA PingStep ==
    ASSUME CallInv, C!Ping
    PROVE  CallInv'
<1>1. requests # <<>> /\ UNCHANGED <<stub, requests, gone>> /\ Head(requests) # 0
  BY DEF C!Ping
<1> DEFINE m == [type |-> "ping", of |-> Head(requests)]
<1>2. Head(requests) \in Nat
  BY <1>1 DEF CallInv
<1>3. m \in Messages /\ m.of = Head(requests) /\ m.type = "ping" /\ wire' = Append(wire, m)
  BY <1>2 DEF Messages, C!Ping
<1> HIDE DEF m
<1> QED
  BY <1>1, <1>3, ServerSends

(* A step that leaves the client and what is on its way alone *)
LEMMA StubRests ==
    ASSUME CallInv, UNCHANGED <<stub, wire, requests>>, gone' \in BOOLEAN
    PROVE  CallInv'
  BY DEF CallInv, AnswerIsOwn, C!AnswerIsOwn, Idle, Connecting, Writing, Reading, Waiting, Silent,
     Outstanding

(* No call has been made yet.                                              *)
LEMMA CallInit ==
    ASSUME C!Init
    PROVE  CallInv
<1>1. stub \in StubState /\ ~stub.callback /\ stub.encoded = 0 /\ ~stub.connected /\ stub.live = {}
      /\ stub.kind = "wait"
  <2>1. PICK protocol \in BOOLEAN :
            stub = [call |-> 0, kind |-> "wait", callback |-> FALSE, notified |-> 0,
                    inProgress |-> FALSE, exception |-> FALSE, answer |-> 0, encoded |-> 0,
                    tries |-> 0, cancelled |-> FALSE, op |-> "None", subOp |-> "None",
                        connected |-> FALSE,
                    protocol |-> protocol, closed |-> TRUE, bound |-> "none", position |-> 0,
                    live |-> {}]
    BY DEF C!Init
  <2>2. "wait" \in C!Kinds
    BY DEF C!Kinds
  <2> QED
    BY <2>1, <2>2 DEF StubState
<1> QED
  BY <1>1, EmptyLists DEF C!Init, CallInv, Idle, Silent, AnswerIsOwn, C!AnswerIsOwn

(* Every step keeps the invariant.                                         *)
LEMMA CallNext ==
    ASSUME CallInv, [C!Next]_(C!vars)
    PROVE  CallInv'
<1>1. CASE C!PeerCloses
  BY <1>1, StubRests DEF C!PeerCloses
<1>2. CASE UNCHANGED C!vars
  BY <1>2, StubRests DEF C!vars, CallInv
<1> QED
  BY <1>1, <1>2, CallStep, ConnectAsyncStep, WaitStep, CancelStep, DnsStep, ConnectedStep, SentStep,
     RecvStep, StubTimerStep, AnswerStep, PingStep DEF C!Next, C!Handler

(* A call that was not refused has its own answer, though the client reads *)
(* whichever answer comes: what a call that failed, timed out or was       *)
(* cancelled leaves on its connection is dropped with the connection       *)
(* (ClientStub::onError, ClientStub.cpp).                                  *)
THEOREM AnswersAreOwn == C!Spec => []AnswerIsOwn
<1>1. C!Init => CallInv
  BY CallInit
<1>2. CallInv /\ [C!Next]_(C!vars) => CallInv'
  BY CallNext
<1>3. CallInv => AnswerIsOwn
  BY DEF CallInv
<1> QED
  BY <1>1, <1>2, <1>3, PTL DEF C!Spec

(* What is asked of a client is asked by the call that was made. *)
LEMMA CallStays ==
    ASSUME NEW c \in StubState, NEW d \in C!Connect(c) \union C!BeginCall(c)
    PROVE  d.call = c.call
<1>1. ASSUME NEW x \in StubState
      PROVE  C!OnError(x, "local").call = x.call
  <2> DEFINE n == [C!Notify(x) EXCEPT !.op = "None", !.encoded = 0, !.exception = TRUE]
  <2>1. n \in StubState /\ n.call = x.call
    <3>1. C!Notify(x) \in StubState /\ C!Notify(x).call = x.call
      BY NotifyDoes
    <3> QED
      BY <3>1 DEF StubState
  <2>2. C!OnError(x, "local") = C!Disconnect(n)
    BY DEF C!OnError
  <2> HIDE DEF n
  <2> QED
    BY <2>1, <2>2, DisconnectDoes
<1>2. ASSUME NEW x \in StubState, NEW y \in C!Connect(x)
      PROVE  y.call = x.call
  <2> DEFINE b == [C!Close(x) EXCEPT !.op = "Connect", !.closed = FALSE, !.bound = "main"]
  <2>1. b \in StubState /\ b.call = x.call /\ [b EXCEPT !.live = {"dns"}].call = x.call
    <3>1. b \in StubState /\ b.call = x.call
      BY ReconnectDoes
    <3>2. DOMAIN b = StubNames
      BY <3>1, StubFields
    <3> QED
      BY <3>1, <3>2 DEF StubNames
  <2>2. y \in {[b EXCEPT !.live = {"dns"}], C!Post(b, "connect"), C!OnError(b, "local")}
    BY <1>2 DEF C!Connect
  <2> HIDE DEF b
  <2>3. C!Post(b, "connect").call = b.call
    BY <2>1, PostDoes
  <2> QED
    BY <1>1, <2>1, <2>2, <2>3
<1>3. ASSUME NEW x \in StubState
      PROVE  C!BeginSend(x).call = x.call
  <2> DEFINE b == [[x EXCEPT !.op = "Write"] EXCEPT !.bound = "main"]
  <2>1. b \in StubState /\ b.call = x.call
    BY DEF StubState
  <2>2. C!BeginSend(x) = C!Post(b, "write")
    BY DEF C!BeginSend, C!Send
  <2> HIDE DEF b
  <2> QED
    BY <2>1, <2>2, PostDoes
<1>4. CASE d \in C!BeginCall(c)
  <2> DEFINE e == [c EXCEPT !.encoded = c.call]
  <2>1. e \in StubState /\ e.call = c.call
    BY DEF StubState
  <2>2. d \in {C!BeginSend(e)} \union C!Connect(e)
    BY <1>4 DEF C!BeginCall
  <2> HIDE DEF e
  <2> QED
    BY <1>2, <1>3, <2>1, <2>2
<1> QED
  BY <1>2, <1>4

(* Nothing but the next call, or a cancel(), disturbs a client that has no *)
(* callback; the answer it has stays.                                      *)
LEMMA OutcomeStands ==
    ASSUME CallInv, [C!Next]_(C!vars), ~stub.callback, stub'.call = stub.call
    PROVE  /\ stub'.answer = stub.answer
           /\ stub'.exception # stub.exception => stub'.exception /\ stub'.cancelled
<1>1. stub.live = {} /\ stub \in StubState /\ requests = <<>>
  BY AtRest DEF Idle, Silent, CallInv
<1>2. PICK n \in Nat : n = stub.call + 1 /\ n # stub.call
  BY <1>1 DEF StubState
<1>3. ASSUME C!Call
      PROVE  FALSE
  <2>1. PICK kind \in {"twoway", "oneway"} :
            LET c == [stub EXCEPT !.call = @ + 1, !.kind = kind, !.callback = TRUE,
                !.exception = FALSE,
                                  !.inProgress = TRUE, !.tries = 0, !.cancelled = FALSE]
            IN  \E d \in C!BeginCall(c) : C!Handles(d)
    BY <1>3 DEF C!Call
  <2> DEFINE c == [stub EXCEPT !.call = n, !.kind = kind, !.callback = TRUE, !.exception = FALSE,
                               !.inProgress = TRUE, !.tries = 0, !.cancelled = FALSE]
  <2>2. PICK d \in C!BeginCall(c) : C!Handles(d)
    BY <1>2, <2>1
  <2>3. kind \in C!Kinds
    BY DEF C!Kinds
  <2>4. c \in StubState /\ c.call = n
    BY <1>1, <2>3 DEF StubState
  <2> HIDE DEF c
  <2> QED
    BY <1>2, <2>2, <2>4, CallStays DEF C!Handles, C!Becomes
<1>4. ASSUME C!ConnectAsync
      PROVE  FALSE
  <2> DEFINE c == [stub EXCEPT !.call = n, !.kind = "connect", !.callback = TRUE,
          !.exception = FALSE,
                               !.cancelled = FALSE]
  <2>1. PICK d \in C!Connect(c) : C!Handles(d)
    BY <1>2, <1>4 DEF C!ConnectAsync
  <2>2. c \in StubState /\ c.call = n
    BY <1>1 DEF StubState, C!Kinds
  <2> HIDE DEF c
  <2> QED
    BY <1>2, <2>1, <2>2, CallStays DEF C!Handles, C!Becomes
<1>5. ASSUME C!Wait
      PROVE  FALSE
  <2> DEFINE c == [stub EXCEPT !.call = n, !.kind = "wait", !.callback = TRUE, !.exception = FALSE,
                               !.cancelled = FALSE, !.op = "Wait", !.bound = "main",
                                   !.live = {"timer"}]
  <2>1. C!Handles(c)
    BY <1>2, <1>5 DEF C!Wait
  <2>2. c.call = n
    BY <1>1 DEF StubState
  <2> HIDE DEF c
  <2> QED
    BY <1>2, <2>1, <2>2 DEF C!Handles, C!Becomes
<1>6. CASE C!Cancel
  <2> DEFINE c == [stub EXCEPT !.live = {}, !.cancelled = TRUE]
             d == [C!Notify(c) EXCEPT !.op = "None", !.encoded = 0, !.exception = TRUE]
  <2>1. c \in StubState /\ c.cancelled /\ c.answer = stub.answer
    BY <1>1 DEF StubState
  <2>2. stub' = C!Disconnect(d)
    BY <1>6 DEF C!Cancel, C!Handles, C!Becomes, C!OnError
  <2> HIDE DEF c
  <2>3. d \in StubState /\ d.cancelled /\ d.exception /\ d.answer = c.answer
    <3>1. C!Notify(c) \in StubState /\ C!Notify(c).answer = c.answer
            /\ C!Notify(c).cancelled = c.cancelled
      BY <2>1, NotifyDoes
    <3> QED
      BY <2>1, <3>1 DEF StubState
  <2> HIDE DEF d
  <2> QED
    BY <2>1, <2>2, <2>3 DEF C!Disconnect, C!Close, StubState
<1>7. CASE stub' = stub
  BY <1>7
<1> QED
  BY <1>1, <1>3, <1>4, <1>5, <1>6, <1>7
     DEF C!Next, C!Handler, C!DnsLookupCompleted, C!OnConnectCompleted,
     C!OnSendCompleted, C!OnTimedRecvCompleted, C!OnTimerExpired, C!Answer, C!Ping, C!PeerCloses,
         C!vars

(* What a call has come to, its answer or exception, is not touched after  *)
(* its callback has run: no handler of it is left (OverlappedAmi,          *)
(* AmiThreadPool.cpp).                                                     *)
THEOREM OutcomesAreFinal == C!Spec => OutcomeIsFinal
<1>1. C!Init => CallInv
  BY CallInit
<1>2. CallInv /\ [C!Next]_(C!vars) => CallInv'
  BY CallNext
<1>3. CallInv /\ [C!Next]_(C!vars) =>
        [~stub.callback /\ stub'.call = stub.call =>
             /\ stub'.answer = stub.answer
             /\ stub'.exception # stub.exception => stub'.exception /\ stub'.cancelled]_(C!vars)
  BY OutcomeStands
<1> QED
  BY <1>1, <1>2, <1>3, PTL DEF C!Spec, OutcomeIsFinal, C!OutcomeIsFinal

-----------------------------------------------------------------------------
(* Callers that retry                                                      *)
-----------------------------------------------------------------------------
(* A client that may perform the call once more has not done so since the  *)
(* last change of the server; one that has been answered, or will be, has  *)
(* only if the server is still up.                                         *)
RetryInv ==
    /\ switched \in Nat /\ performed \in [Callers -> Nat] /\ up \in BOOLEAN /\ DOMAIN rpc = Callers
    /\ \A c \in Callers :
           /\ performed[c] <= 1 + switched
           /\ rpc[c] \in {"head", "invoke", "calling", "caught"} => performed[c] <= switched
           /\ rpc[c] \in {"answered", "thrown"} /\ ~up => performed[c] <= switched

(* No call has been performed yet.                                         *)
LEMMA RetryStarts == R!Init => RetryInv
  BY DEF R!Init, RetryInv

(* Every step of clients and server keeps the invariant. *)
LEMMA RetryStep == RetryInv /\ [R!Next]_(R!vars) => RetryInv'
<1> SUFFICES ASSUME RetryInv, [R!Next]_(R!vars) PROVE RetryInv'
  OBVIOUS
<1> USE DEF RetryInv
<1>1. ASSUME R!Change PROVE RetryInv'
  BY <1>1 DEF R!Change
<1>2. ASSUME NEW c \in Callers, R!Run(c) PROVE RetryInv'
  <2>1. CASE R!LoopHead(c)
    BY <2>1 DEF R!LoopHead, R!Goto
  <2>2. CASE R!Invoke(c)
    BY <2>2 DEF R!Invoke, R!Goto
  <2>3. CASE R!Perform(c)
    BY <2>3 DEF R!Perform, R!Goto
  <2>4. CASE R!Lost(c)
    BY <2>4 DEF R!Lost, R!Goto
  <2>5. CASE R!Answered(c)
    BY <2>5 DEF R!Answered, R!Goto
  <2>6. CASE R!Caught(c)
    BY <2>6 DEF R!Caught, R!Goto
  <2> QED
    BY <1>2, <2>1, <2>2, <2>3, <2>4, <2>5, <2>6 DEF R!Run
<1>3. CASE UNCHANGED R!vars
  BY <1>3 DEF R!vars
<1> QED
  BY <1>1, <1>2, <1>3 DEF R!Next

(* The invariant holds in every state.                                     *)
LEMMA RetryInvariant == R!Spec => []RetryInv
  BY RetryStarts, RetryStep, PTL DEF R!Spec

(* retrying_client_invoke() performs a call again only if the server went  *)
(* away: a caller performs at most one call more than there were changes of*)
(* the server.                                                             *)
THEOREM TriesAgainOnlyIfLost == R!Spec => []AgainOnlyIfLost
<1>1. RetryInv => AgainOnlyIfLost
  BY DEF RetryInv, AgainOnlyIfLost, R!AgainOnlyIfLost
<1> QED
  BY <1>1, RetryInvariant, PTL

-----------------------------------------------------------------------------
(* Files                                                                   *)
-----------------------------------------------------------------------------
(* The data are the blocks of the file that follow a position. *)
AreBlocks(data, from, to) ==
    data \in Seq(Nat) /\ from + Len(data) <= to /\ \A i \in 1 .. Len(data) : data[i] = from + i

-----------------------------------------------------------------------------
(* No blocks are blocks of the file from anywhere. *)
LEMMA NoBlocks ==
    ASSUME NEW to \in Nat, NEW from \in 0 .. to
    PROVE  AreBlocks(<<>>, from, to)
BY DEF AreBlocks

(* Blocks that follow blocks make one row of them. *)
LEMMA JoinedBlocks ==
    ASSUME NEW to \in Nat, NEW from \in Nat,
           NEW f, AreBlocks(f, from, to), NEW data, AreBlocks(data, from + Len(f), to)
    PROVE  AreBlocks(f \o data, from, to) /\ Len(f \o data) = Len(f) + Len(data)
<1>1. f \in Seq(Nat) /\ data \in Seq(Nat) /\ f \o data \in Seq(Nat)
  BY DEF AreBlocks
<1>2. /\ Len(f \o data) = Len(f) + Len(data)
      /\ \A i \in 1 .. Len(f) + Len(data) :
             (f \o data)[i] = IF i <= Len(f) THEN f[i] ELSE data[i - Len(f)]
  BY <1>1
<1>3. ASSUME NEW i \in 1 .. Len(f) + Len(data) PROVE (f \o data)[i] = from + i
  <2>1. CASE i <= Len(f)
    <3>1. i \in 1 .. Len(f) /\ (f \o data)[i] = f[i]
      BY <1>1, <1>2, <2>1
    <3> QED BY <3>1 DEF AreBlocks
  <2>2. CASE i > Len(f)
    <3>1. i - Len(f) \in 1 .. Len(data) /\ from + Len(f) + (i - Len(f)) = from + i
      BY <1>1, <2>2
    <3>2. (f \o data)[i] = data[i - Len(f)]
      BY <1>1, <1>2, <2>2
    <3> QED BY <3>1, <3>2 DEF AreBlocks
  <2> QED BY <1>1, <2>1, <2>2
<1>4. from + Len(f \o data) <= to
  BY <1>1, <1>2 DEF AreBlocks
<1> QED BY <1>1, <1>2, <1>3, <1>4 DEF AreBlocks

(* What is written where a file ends is appended to it. *)
LEMMA WrittenAtEnd ==
    ASSUME NEW f \in Seq(Nat), NEW data \in Seq(Nat)
    PROVE  SubSeq(f, 1, Len(f)) \o data \o SubSeq(f, Len(f) + Len(data) + 1, Len(f)) = f \o data
<1>1. SubSeq(f, 1, Len(f)) = f
  OBVIOUS
<1>2. SubSeq(f, Len(f) + Len(data) + 1, Len(f)) = <<>>
  OBVIOUS
<1>3. f \o data \in Seq(Nat)
  OBVIOUS
<1>4. (f \o data) \o <<>> = f \o data
  BY <1>3
<1> QED BY <1>1, <1>2, <1>4

-----------------------------------------------------------------------------
(* An upload                                                               *)
-----------------------------------------------------------------------------
(* The blocks of the file from a position on *)
IsBlocks(data, from) == AreBlocks(data, from, Size)

(* What the client sends, and its state *)
Chunks == {c \in [offset : Nat, data : Seq(Nat)] : IsBlocks(c.data, c.offset)}

UploaderState ==
    [pc : {"idle", "begin", "reading", "calling", "done"}, id : Nat, session : U!Sessions,
     attempts : 0 .. MaxAttempts, pos : 0 .. Size, ahead : 0 .. Size, chunks : Seq(Chunks),
     filled : Nat, soFar : Nat, window : Nat, lowered : BOOLEAN]

(* A session's upload *)
UploadState ==
    [id : U!Ids \union {0}, resume : BOOLEAN, pos : Nat, file : {"closed", "temp", "final", "gone"},
     append : BOOLEAN, at : Nat, op : Seq(Nat), closing : BOOLEAN, completed : BOOLEAN]

RequestOK(r) ==
    /\ r.type \in {"none", "begin", "chunks"}
    /\ r.type = "none" => r = U!None
    /\ r.type = "begin" => r.new \in U!Ids
    /\ r.type = "chunks" => r.chunks \in Seq(Chunks)

ReplyOK ==
    /\ reply.type \in {"none", "begun", "uploaded", "exception"}
    /\ reply.type = "begun" => reply.id \in Nat /\ reply.offset \in 0 .. Size
    /\ reply.type \in {"begun", "uploaded"} => reply.window \in Nat

(* The types of the variables *)
UploadTypes ==
    /\ client \in UploaderState /\ client.pos + client.ahead <= Size
    /\ client.filled + client.ahead <= ChunkSize
    /\ DOMAIN request = U!Sessions /\ \A s \in U!Sessions : RequestOK(request[s])
    /\ ReplyOK
    /\ info \in [U!Sessions -> UploadState]
    /\ temp \in [U!Ids -> Seq(Nat)] /\ final \in [U!Ids -> Seq(Nat)]
    /\ known \subseteq U!Ids

(* The client waits for an answer or has none. *)
UploadCallOK ==
    /\ client.pc \notin {"begin", "calling"} =>
           request[client.session] = U!None /\ reply.type = "none"
    /\ reply.type # "none" => request[client.session] = U!None
    /\ client.pc = "reading" => reply.type = "none"
    /\ \A s \in U!Sessions : s > client.session => request[s] = U!None /\ info[s].id = 0

(* What a session has is of an upload. *)
UploadOK(s) ==
    LET h == info[s]
    IN  /\ h.file # "closed" \/ h.op # <<>> \/ h.closing => h.id # 0
        /\ h.file = "temp" => h.id \in exists
        /\ h.closing => request[s].type = "chunks"

(* The upload of a session was never resumed while one was to write it. *)
Sound(s) == info[s].id \in U!Ids \ raced

(* Who still writes, or may be told to, writes where the file ends.        *)
HandleOK(s) ==
    LET h == info[s]
    IN  /\ h.op # <<>> => h.file = "temp" /\ IsBlocks(h.op, h.at)
        /\ h.closing => h.file = "temp" /\ h.at + Len(h.op) = Size
        /\ h.file = "temp" => h.pos = h.at + Len(h.op) /\ ~h.resume
        /\ h.file = "closed" /\ ~h.completed /\ ~h.resume => h.pos = 0
        /\ U!Writes(s) \/ s = client.session =>
               /\ h.file = "temp" => h.at = Len(temp[h.id])
               /\ h.file = "closed" /\ h.resume => h.pos = Len(temp[h.id])
               /\ h.file \notin {"final", "gone"}

(* Nobody else writes what a session writes, or the client's session may.  *)
OneWriter ==
    \A s, t \in U!Sessions :
        s # t /\ Sound(s) /\ info[t].id = info[s].id /\ (U!Writes(s) \/ s = client.session) =>
            ~U!Writes(t)

FilesOK == \A i \in U!Ids \ raced : IsBlocks(temp[i], 0) /\ final[i] \in {<<>>, U!Source}

UploadInv ==
    /\ UploadTypes /\ UploadCallOK /\ FilesOK /\ OneWriter
    /\ \A s \in U!Sessions : UploadOK(s) /\ (Sound(s) => HandleOK(s))

-----------------------------------------------------------------------------
(* The assumptions on the constants of an upload *)
LEMMA UploadConstants ==
    /\ Size \in Nat \ {0} /\ ChunkSize \in Nat \ {0} /\ Windows \subseteq Nat
    /\ MaxAttempts \in Nat /\ MaxFaults \in Nat
BY PartsAssumption DEF U!UploadAssumption

(* A file goes on with the blocks that follow its end. *)
LEMMA JoinedFile ==
    ASSUME NEW f, IsBlocks(f, 0), NEW data, IsBlocks(data, Len(f))
    PROVE  IsBlocks(f \o data, 0) /\ Len(f \o data) = Len(f) + Len(data)
<1>1. Len(f) \in Nat /\ 0 + Len(f) = Len(f)
  BY DEF IsBlocks, AreBlocks
<1>2. AreBlocks(f, 0, Size) /\ AreBlocks(data, 0 + Len(f), Size)
  BY <1>1 DEF IsBlocks
<1> QED BY <1>2, JoinedBlocks, UploadConstants DEF IsBlocks

(* As many blocks as the source has are the source. *)
LEMMA WholeFile ==
    ASSUME NEW f, IsBlocks(f, 0), Len(f) = Size
    PROVE  f = U!Source
<1>1. f \in Seq(Nat) /\ DOMAIN f = 1 .. Size /\ \A i \in 1 .. Size : f[i] = i
  BY DEF IsBlocks, AreBlocks
<1>2. U!Source \in [1 .. Size -> Nat] /\ f \in [1 .. Size -> Nat]
  BY <1>1 DEF U!Source
<1> QED BY <1>1, <1>2 DEF U!Source

(* What the client reads from its file is a chunk of it. *)
LEMMA ChunkOfSource ==
    ASSUME NEW pos \in 0 .. Size, NEW ahead \in Nat, pos + ahead <= Size
    PROVE  [offset |-> pos, data |-> SubSeq(U!Source, pos + 1, pos + ahead)] \in Chunks
<1>1. PICK data : data = SubSeq(U!Source, pos + 1, pos + ahead)
  OBVIOUS
<1>2. U!Source \in Seq(Nat) /\ Len(U!Source) = Size
  BY UploadConstants DEF U!Source
<1>3. data \in Seq(Nat) /\ Len(data) = ahead
  BY <1>1, <1>2, UploadConstants
<1>4. \A i \in 1 .. ahead : data[i] = pos + i
  <2> TAKE i \in 1 .. ahead
  <2>1. data[i] = U!Source[pos + 1 + i - 1] /\ pos + i \in 1 .. Size
    BY <1>1, <1>2, UploadConstants
  <2> QED BY <2>1 DEF U!Source
<1>5. IsBlocks(data, pos)
  BY <1>3, <1>4 DEF IsBlocks, AreBlocks
<1>6. PICK c : c = [offset |-> pos, data |-> data]
  OBVIOUS
<1>7. c \in [offset : Nat, data : Seq(Nat)] /\ c.offset = pos /\ c.data = data
  BY <1>3, <1>6
<1> QED BY <1>1, <1>5, <1>6, <1>7 DEF Chunks

(* What was written from where its file ends on, goes on with it. *)
LEMMA FilledToEnd ==
    ASSUME NEW f \in Seq(Nat)
    PROVE  [i \in 1 .. Len(f) |-> IF i <= Len(f) THEN f[i] ELSE 0] = f
<1>1. [i \in 1 .. Len(f) |-> IF i <= Len(f) THEN f[i] ELSE 0] = [i \in 1 .. Len(f) |-> f[i]]
  BY Len(f) \in Nat
<1>2. f = [i \in DOMAIN f |-> f[i]] /\ DOMAIN f = 1 .. Len(f)
  OBVIOUS
<1> QED BY <1>1, <1>2

-----------------------------------------------------------------------------
(* A step of the client that stays with its session *)

(* A step of the client keeps what the server has, and what it may be     *)
(* told to write.                                                         *)
LEMMA ClientSide ==
    ASSUME UploadInv, UNCHANGED <<info, temp, exists, final, known, raced>>,
           client' \in UploaderState, client'.pos + client'.ahead <= Size,
           client'.filled + client'.ahead <= ChunkSize, client'.session = client.session, ReplyOK',
           NEW r, RequestOK(r), DOMAIN request' = U!Sessions,
           \A s \in U!Sessions : request'[s] = IF s = client.session THEN r ELSE request[s],
           r # request[client.session] => request[client.session] = U!None,
           client'.pc \notin {"begin", "calling"} => r = U!None /\ reply'.type = "none",
           reply'.type # "none" => r = U!None /\ client'.pc # "reading"
    PROVE  UploadInv'
<1>0. /\ UploadTypes /\ UploadCallOK /\ OneWriter /\ FilesOK /\ client.session \in U!Sessions
      /\ \A s \in U!Sessions : UploadOK(s) /\ (Sound(s) => HandleOK(s))
  BY DEF UploadInv, UploadTypes, UploaderState
<1>1. /\ DOMAIN request' = U!Sessions
      /\ \A s \in U!Sessions : request'[s] = IF s = client.session THEN r ELSE request[s]
  OBVIOUS
<1>2. UploadTypes'
  BY <1>0, <1>1 DEF UploadTypes, RequestOK
<1>3. UploadCallOK'
  BY <1>0, <1>1, UploadConstants DEF UploadCallOK, U!Sessions
<1>4. ASSUME NEW s \in U!Sessions PROVE UploadOK(s)' /\ (Sound(s)' => HandleOK(s)')
  <2>1. CASE request'[s] = request[s]
    BY <1>0, <2>1 DEF UploadOK, Sound, HandleOK, U!Writes
  <2>2. CASE s = client.session /\ request[s] = U!None
    <3>1. ~info[s].closing
      BY <1>0, <2>2 DEF UploadOK, U!None
    <3>2. UploadOK(s)'
      BY <1>0, <2>2, <3>1 DEF UploadOK
    <3>3. Sound(s)' => HandleOK(s)'
      BY <1>0, <2>2, <3>1 DEF Sound, HandleOK
    <3> QED BY <3>2, <3>3
  <2> QED BY <1>0, <1>1, <2>1, <2>2
<1>5. OneWriter'
  <2> SUFFICES ASSUME NEW s \in U!Sessions, NEW t \in U!Sessions, s # t, Sound(s)',
                      info[t].id = info[s].id, U!Writes(s)' \/ s = client.session
               PROVE  ~(U!Writes(t)')
    BY DEF OneWriter
  <2>0. /\ Sound(s) /\ Sound(t)
        /\ \A u \in U!Sessions : u # client.session => (U!Writes(u)' <=> U!Writes(u))
    BY <1>1 DEF Sound, U!Writes
  <2>1. CASE t = client.session
    BY <1>0, <2>0, <2>1 DEF OneWriter
  <2>2. CASE t # client.session
    BY <1>0, <2>0, <2>2 DEF OneWriter
  <2> QED BY <2>1, <2>2
<1>6. FilesOK'
  BY <1>0 DEF FilesOK
<1> QED BY <1>2, <1>3, <1>4, <1>5, <1>6 DEF UploadInv

-----------------------------------------------------------------------------
(* The steps of the client *)

(* What the invariant says of the client *)
LEMMA ClientFacts ==
    ASSUME UploadInv
    PROVE  /\ UploadTypes /\ UploadCallOK /\ OneWriter /\ FilesOK
           /\ \A s \in U!Sessions : UploadOK(s) /\ (Sound(s) => HandleOK(s))
           /\ client \in UploaderState /\ client.session \in U!Sessions
           /\ client.pos \in 0 .. Size /\ client.ahead \in 0 .. Size
           /\ client.pos + client.ahead <= Size
           /\ client.filled \in Nat /\ client.filled + client.ahead <= ChunkSize
           /\ client.soFar \in Nat /\ client.window \in Nat /\ client.chunks \in Seq(Chunks)
           /\ ReplyOK /\ RequestOK(request[client.session])
BY DEF UploadInv, UploadTypes, UploaderState

(* A call of uploadFile() keeps the invariant. *)
LEMMA UploadStarts == ASSUME UploadInv, U!Upload PROVE UploadInv'
<1>0. /\ UploadTypes /\ UploadCallOK /\ client \in UploaderState /\ ReplyOK
      /\ client.session \in U!Sessions
  BY ClientFacts
<1>a. client.attempts + 1 \in 0 .. MaxAttempts
  <2>1. client.attempts \in 0 .. MaxAttempts /\ client.attempts < MaxAttempts
    BY <1>0 DEF U!Upload, UploaderState
  <2> QED BY <2>1, UploadConstants
<1>b. client' = [client EXCEPT !.pc = "begin", !.attempts = client.attempts + 1]
  BY DEF U!Upload
<1>c. client' \in UploaderState
  BY <1>0, <1>a, <1>b DEF UploaderState
<1>1. /\ client' \in UploaderState /\ client'.pc = "begin" /\ client'.session = client.session
      /\ client'.pos = client.pos /\ client'.ahead = client.ahead
      /\ client'.filled = client.filled
  BY <1>0, <1>b, <1>c DEF UploaderState
<1>2. PICK r : r = [type |-> "begin", id |-> client.id, new |-> client.attempts + 1]
  OBVIOUS
<1>3. RequestOK(r)
  <2>1. client.attempts + 1 \in U!Ids
    BY <1>0, <1>a, UploadConstants DEF UploaderState, U!Ids
  <2> QED BY <1>2, <2>1 DEF RequestOK
<1>4. /\ request' = [request EXCEPT ![client.session] = r]
      /\ DOMAIN request' = U!Sessions
      /\ \A s \in U!Sessions : request'[s] = IF s = client.session THEN r ELSE request[s]
      /\ UNCHANGED <<reply, info, temp, exists, final, known, raced>>
  BY <1>0, <1>2 DEF U!Upload, UploadTypes, U!files
<1>5. request[client.session] = U!None /\ reply'.type = "none"
  BY <1>0, <1>4 DEF U!Upload, UploadCallOK
<1>6. client'.pos + client'.ahead <= Size /\ client'.filled + client'.ahead <= ChunkSize
  BY <1>1, ClientFacts
<1>7. ReplyOK'
  BY <1>0, <1>4 DEF ReplyOK
<1> QED BY <1>1, <1>3, <1>4, <1>5, <1>6, <1>7, ClientSide

(* What the client reads next fits into its buffer and is in its file. *)
LEMMA ReadsAhead ==
    ASSUME NEW pos \in 0 .. Size, NEW filled \in 0 .. ChunkSize, NEW soFar \in Nat,
           client.window \in Nat
    PROVE  /\ U!ReadAhead(pos, filled, soFar) \in 0 .. Size
           /\ pos + U!ReadAhead(pos, filled, soFar) <= Size
           /\ filled + U!ReadAhead(pos, filled, soFar) <= ChunkSize
BY UploadConstants DEF U!ReadAhead, U!Smaller

(* A read of the client keeps the invariant: a chunk is added to those to *)
(* be sent.                                                               *)
LEMMA ClientReads == ASSUME UploadInv, U!Read PROVE UploadInv'
<1>0. /\ UploadTypes /\ UploadCallOK /\ client \in UploaderState /\ ReplyOK
      /\ client.session \in U!Sessions /\ RequestOK(request[client.session])
  BY ClientFacts
<1>1. PICK chunk : chunk = [offset |-> client.pos,
                             data |-> SubSeq(U!Source, client.pos + 1, client.pos + client.ahead)]
  OBVIOUS
<1>2. PICK chunks :
          chunks = IF client.ahead = 0 THEN client.chunks ELSE Append(client.chunks, chunk)
  OBVIOUS
<1>3. chunks \in Seq(Chunks)
  <2>1. /\ client.ahead \in Nat /\ client.pos \in 0 .. Size /\ client.pos + client.ahead <= Size
        /\ client.chunks \in Seq(Chunks)
    BY ClientFacts, UploadConstants
  <2>2. chunk \in Chunks
    BY <1>1, <2>1, ChunkOfSource
  <2> QED BY <1>2, <2>1, <2>2
<1>4. PICK pos, filled, soFar :
          /\ pos = client.pos + client.ahead
          /\ filled = client.filled + client.ahead
          /\ soFar = client.soFar + client.ahead
  OBVIOUS
<1>s. PICK sends \in BOOLEAN :
          sends <=> /\ client.ahead > 0
                    /\ \/ filled = ChunkSize \/ pos = Size
                       \/ client.window \in 1 .. soFar
  OBVIOUS
<1>5. /\ pos \in 0 .. Size /\ filled \in 0 .. ChunkSize /\ soFar \in Nat
      /\ 0 \in 0 .. ChunkSize /\ client.window \in Nat
  <2>1. /\ client.pos \in Nat /\ client.ahead \in Nat /\ client.filled \in Nat
        /\ client.soFar \in Nat /\ client.pos + client.ahead <= Size
        /\ client.filled + client.ahead <= ChunkSize /\ client.window \in Nat
    BY ClientFacts, UploadConstants
  <2> QED BY <1>4, <2>1, UploadConstants
<1>6. PICK left, ahead :
          left = (IF sends THEN 0 ELSE filled) /\ ahead = U!ReadAhead(pos, left, soFar)
  OBVIOUS
<1>7. ahead \in 0 .. Size /\ pos + ahead <= Size /\ left \in Nat /\ left + ahead <= ChunkSize
  <2>1. left \in 0 .. ChunkSize
    BY <1>5, <1>6
  <2> QED BY <1>5, <1>6, <2>1, ReadsAhead, UploadConstants
<1>8. /\ client' = [client EXCEPT
             !.pc = IF sends THEN "calling" ELSE "reading",
             !.chunks = chunks, !.pos = pos, !.filled = left, !.soFar = soFar, !.ahead = ahead]
      /\ request' = IF sends THEN [request EXCEPT ![client.session] =
                                       [type |-> "chunks", chunks |-> chunks]]
                    ELSE request
      /\ UNCHANGED <<reply, info, temp, exists, final, known, raced>> /\ client.pc = "reading"
  BY <1>1, <1>2, <1>4, <1>s, <1>6 DEF U!Read, U!files
<1>9. /\ client' \in UploaderState /\ client'.session = client.session
      /\ client'.pos = pos /\ client'.ahead = ahead /\ client'.filled = left
      /\ client'.pc = IF sends THEN "calling" ELSE "reading"
  BY <1>0, <1>3, <1>5, <1>7, <1>8 DEF UploaderState
<1>10. reply.type = "none" /\ request[client.session] = U!None /\ ReplyOK'
  BY <1>0, <1>8 DEF UploadCallOK, ReplyOK
<1>11. PICK r : r = IF sends THEN [type |-> "chunks", chunks |-> chunks] ELSE U!None
  OBVIOUS
<1>12. RequestOK(r)
  BY <1>3, <1>11 DEF RequestOK, U!None
<1>13. /\ DOMAIN request' = U!Sessions
       /\ \A s \in U!Sessions : request'[s] = IF s = client.session THEN r ELSE request[s]
  BY <1>0, <1>8, <1>10, <1>11 DEF UploadTypes
<1>14. client'.pos + client'.ahead <= Size /\ client'.filled + client'.ahead <= ChunkSize
  BY <1>7, <1>9
<1>15. client'.pc \notin {"begin", "calling"} => r = U!None
  BY <1>9, <1>11
<1> QED BY <1>8, <1>9, <1>10, <1>12, <1>13, <1>14, <1>15, ClientSide

(* The return of BeginUpload() keeps the invariant: the client goes to    *)
(* the offset.                                                            *)
LEMMA ClientBegins == ASSUME UploadInv, U!Begun PROVE UploadInv'
<1>0. /\ UploadTypes /\ UploadCallOK /\ client \in UploaderState /\ ReplyOK
      /\ client.session \in U!Sessions /\ RequestOK(request[client.session])
  BY ClientFacts
<1>1. /\ reply.type = "begun" /\ reply.id \in Nat /\ reply.offset \in 0 .. Size
      /\ reply.window \in Nat
  BY <1>0 DEF U!Begun, ReplyOK
<1>2. client' \in UploaderState
  <2>1. <<>> \in Seq(Chunks) /\ 0 \in 0 .. Size
    BY UploadConstants
  <2>2. client' = [client EXCEPT !.pc = "reading", !.id = reply.id, !.pos = reply.offset,
                                 !.ahead = 0, !.chunks = <<>>, !.filled = 0, !.soFar = 0,
                                 !.window = reply.window,
                                 !.lowered = FALSE]
    BY DEF U!Begun
  <2> QED BY <1>0, <1>1, <2>1, <2>2 DEF UploaderState
<1>3. /\ client'.pc = "reading" /\ client'.pos = reply.offset /\ client'.ahead = 0
      /\ client'.filled = 0 /\ client'.session = client.session
  BY <1>0 DEF U!Begun, UploaderState
<1>4. client'.pos + client'.ahead <= Size /\ client'.filled + client'.ahead <= ChunkSize
  BY <1>1, <1>3, UploadConstants
<1>5. /\ UNCHANGED <<request, info, temp, exists, final, known, raced>>
      /\ reply'.type = "none" /\ ReplyOK'
      /\ DOMAIN request' = U!Sessions
  BY <1>0 DEF U!Begun, U!None, ReplyOK, UploadTypes, U!files
<1>6. request[client.session] = U!None
  BY <1>0, <1>1 DEF UploadCallOK
<1>7. \A s \in U!Sessions :
          request'[s] = IF s = client.session THEN request[client.session] ELSE request[s]
  BY <1>5
<1> HIDE DEF UploaderState
<1> QED BY <1>0, <1>2, <1>3, <1>4, <1>5, <1>6, <1>7, ClientSide

(* UploadChunks() has returned, or an exception has. *)
LEMMA ClientGoesOn ==
    ASSUME UploadInv, UNCHANGED <<request, info, temp, exists, final, known, raced>>,
           reply' = U!None,
           reply.type # "none", client' \in UploaderState,
           client'.pc \in {"idle", "reading", "done"},
           client'.session = client.session, client'.pos = client.pos,
           client'.ahead = client.ahead, client'.filled = client.filled
    PROVE  UploadInv'
<1>0. /\ UploadTypes /\ UploadCallOK /\ client.session \in U!Sessions
      /\ RequestOK(request[client.session])
      /\ client.pos + client.ahead <= Size /\ client.filled + client.ahead <= ChunkSize
  BY ClientFacts
<1>1. reply'.type = "none" /\ ReplyOK' /\ request[client.session] = U!None
  BY <1>0 DEF U!None, ReplyOK, UploadCallOK
<1>2. DOMAIN request' = U!Sessions
      /\ \A s \in U!Sessions :
             request'[s] = IF s = client.session THEN request[client.session] ELSE request[s]
  BY <1>0 DEF UploadTypes
<1> QED BY <1>0, <1>1, <1>2, ClientSide

(* The return of UploadChunks() keeps the invariant. *)
LEMMA ClientUploaded == ASSUME UploadInv, U!Uploaded PROVE UploadInv'
<1>0. client \in UploaderState /\ ReplyOK /\ <<>> \in Seq(Chunks)
  BY ClientFacts
<1>1. CASE client' = [client EXCEPT !.pc = "idle"]
  <2>1. client' \in UploaderState
    BY <1>0, <1>1 DEF UploaderState
  <2>2. /\ client'.pc = "idle" /\ client'.session = client.session /\ client'.pos = client.pos
        /\ client'.ahead = client.ahead /\ client'.filled = client.filled
    BY <1>0, <1>1 DEF UploaderState
  <2> QED BY <2>1, <2>2, ClientGoesOn DEF U!Uploaded, U!files
<1>2. ASSUME NEW expired \in BOOLEAN,
             client' = [client EXCEPT
                 !.pc = IF client.pos = Size THEN "done" ELSE "reading", !.chunks = <<>>,
                 !.window = reply.window, !.lowered = @ \/ U!Lowers(reply.window),
                 !.soFar = IF expired /\ reply.window # 0 THEN U!CarryOver(@, reply.window) ELSE @]
      PROVE  UploadInv'
  <2>1. reply.window \in Nat /\ client.soFar \in Nat
    BY <1>0 DEF U!Uploaded, ReplyOK, UploaderState
  <2>2. PICK pc, soFar : /\ pc = IF client.pos = Size THEN "done" ELSE "reading"
                         /\ soFar = IF expired /\ reply.window # 0
                                      THEN U!CarryOver(client.soFar, reply.window) ELSE client.soFar
    OBVIOUS
  <2>3. soFar \in Nat /\ pc \in {"reading", "done"}
    BY <2>1, <2>2 DEF U!CarryOver
  <2>l. PICK lowered : lowered = (client.lowered \/ U!Lowers(reply.window))
    OBVIOUS
  <2>b. lowered \in BOOLEAN
    BY <2>l
  <2>4. client' = [client EXCEPT !.pc = pc, !.chunks = <<>>, !.window = reply.window,
                                 !.lowered = lowered, !.soFar = soFar]
    BY <1>2, <2>2, <2>l
  <2>5. client' \in UploaderState
    BY <1>0, <2>1, <2>3, <2>b, <2>4 DEF UploaderState
  <2>6. /\ client'.pc = pc /\ client'.session = client.session /\ client'.pos = client.pos
        /\ client'.ahead = client.ahead /\ client'.filled = client.filled
    BY <1>0, <2>4 DEF UploaderState
  <2> QED BY <2>3, <2>5, <2>6, ClientGoesOn DEF U!Uploaded, U!files
<1> QED BY <1>1, <1>2 DEF U!Uploaded

(* An exception keeps the invariant. *)
LEMMA ClientRefused == ASSUME UploadInv, U!Refused PROVE UploadInv'
<1>0. client \in UploaderState
  BY ClientFacts
<1>1. client' \in UploaderState
  BY <1>0 DEF U!Refused, UploaderState
<1>2. /\ client'.pc = "idle" /\ client'.session = client.session /\ client'.pos = client.pos
      /\ client'.ahead = client.ahead /\ client'.filled = client.filled
  BY <1>0 DEF U!Refused, UploaderState
<1> QED BY <1>1, <1>2, ClientGoesOn DEF U!Refused, U!files

(* Of the next session the server knows nothing yet. *)
LEMMA ClientReconnects == ASSUME UploadInv, U!ConnectionLost PROVE UploadInv'
<1>0. /\ UploadTypes /\ UploadCallOK /\ OneWriter /\ FilesOK /\ client \in UploaderState
      /\ \A s \in U!Sessions : UploadOK(s) /\ (Sound(s) => HandleOK(s))
      /\ client.session \in U!Sessions
      /\ client.pos + client.ahead <= Size /\ client.filled + client.ahead <= ChunkSize
  BY ClientFacts
<1>1. /\ UNCHANGED <<request, info, temp, exists, final, known, raced>> /\ reply' = U!None
      /\ client' = [client EXCEPT !.pc = "idle", !.session = client.session + 1]
      /\ client.session + 1 \in U!Sessions
  BY <1>0, UploadConstants DEF U!ConnectionLost, U!Sessions, U!files
<1>2. client' \in UploaderState
  BY <1>0, <1>1 DEF UploaderState
<1>3. /\ client'.pc = "idle" /\ client'.session = client.session + 1 /\ client'.pos = client.pos
      /\ client'.ahead = client.ahead /\ client'.filled = client.filled
  BY <1>0, <1>1 DEF UploaderState
<1>4. reply'.type = "none" /\ ReplyOK'
  BY <1>1 DEF U!None, ReplyOK
<1>5. UploadTypes'
  BY <1>0, <1>1, <1>2, <1>3, <1>4 DEF UploadTypes, RequestOK
<1>6. request[client.session + 1] = U!None /\ info[client.session + 1].id = 0
  BY <1>0, <1>1, UploadConstants DEF UploadCallOK, U!Sessions
<1>7. UploadCallOK'
  BY <1>0, <1>1, <1>3, <1>4, <1>6, UploadConstants DEF UploadCallOK, U!Sessions
<1>8. ASSUME NEW s \in U!Sessions PROVE UploadOK(s)' /\ (Sound(s)' => HandleOK(s)')
  <2>1. CASE s # client.session + 1
    BY <1>0, <1>1, <1>3, <2>1 DEF UploadOK, Sound, HandleOK, U!Writes
  <2>2. CASE s = client.session + 1
    <3>1. info[s].id = 0 /\ 0 \notin U!Ids
      BY <1>6, <2>2 DEF U!Ids
    <3> QED BY <1>0, <1>1, <3>1 DEF UploadOK, Sound
  <2> QED BY <2>1, <2>2
<1>9. OneWriter'
  <2> SUFFICES ASSUME NEW s \in U!Sessions, NEW t \in U!Sessions, s # t, Sound(s)',
                      info[t].id = info[s].id, U!Writes(s)' \/ s = client.session + 1
               PROVE  ~(U!Writes(t)')
    BY <1>1, <1>3 DEF OneWriter
  <2>1. Sound(s) /\ (U!Writes(s)' <=> U!Writes(s)) /\ (U!Writes(t)' <=> U!Writes(t))
    BY <1>1 DEF Sound, U!Writes
  <2>2. s # client.session + 1
    BY <1>6, <2>1 DEF Sound, U!Ids
  <2> QED BY <1>0, <2>1, <2>2 DEF OneWriter
<1>10. FilesOK'
  BY <1>0, <1>1 DEF FilesOK
<1> QED BY <1>5, <1>7, <1>8, <1>9, <1>10 DEF UploadInv

-----------------------------------------------------------------------------
(* The steps of the server *)

(* What the invariant says of a session *)
LEMMA ServerFacts ==
    ASSUME UploadInv
    PROVE  /\ UploadTypes /\ UploadCallOK /\ OneWriter /\ FilesOK
           /\ \A s \in U!Sessions :
                  UploadOK(s) /\ (Sound(s) => HandleOK(s)) /\ info[s] \in UploadState
           /\ client.session \in U!Sessions
           /\ info \in [U!Sessions -> UploadState] /\ temp \in [U!Ids -> Seq(Nat)]
           /\ final \in [U!Ids -> Seq(Nat)] /\ known \subseteq U!Ids /\ ReplyOK
           /\ DOMAIN request = U!Sessions /\ \A s \in U!Sessions : RequestOK(request[s])
BY DEF UploadInv, UploadTypes, UploaderState

(* Another session of the same sound upload neither writes nor may be told *)
(* to when one does.                                                       *)
LEMMA OthersRest ==
    ASSUME UploadInv, NEW s \in U!Sessions, U!Writes(s), NEW t \in U!Sessions, t # s, Sound(t),
           info[t].id = info[s].id
    PROVE  ~U!Writes(t) /\ t # client.session
<1>1. OneWriter /\ Sound(s)
  BY ServerFacts DEF Sound
<1> QED BY <1>1 DEF OneWriter

(* A step for a session leaves the others alone, or takes the file of an   *)
(* upload from them that it writes itself.                                 *)
LEMMA ServerSide ==
    ASSUME UploadInv, NEW s \in U!Sessions, UNCHANGED client,
           raced \subseteq raced', DOMAIN request' = U!Sessions,
           \A t \in U!Sessions \ {s} :
               /\ request'[t] = request[t]
               /\ \/ info'[t] = info[t]
                  \/ /\ \E to \in {"final", "gone"} : info'[t] = [info[t] EXCEPT !.file = to]
                     /\ U!Writes(s) /\ info[t].id = info[s].id /\ info[t].file # "closed"
               /\ info'[t].file = "temp" => info[t].id \in exists',
           request'[s] \in {request[s], U!None},
           \/ reply' = reply /\ (s = client.session => request'[s] = request[s])
           \/ s = client.session /\ request[s] # U!None /\ request'[s] = U!None,
           info'[s].id # 0 => info[s].id # 0 \/ request[s] # U!None,
           U!Writes(s)' => U!Writes(s) /\ info'[s].id = info[s].id,
           \/ info'[s].id \in {info[s].id, 0} \/ s # client.session
           \/ info'[s].id \in raced'
           \/ \A t \in U!Sessions \ {s} : info[t].id = info'[s].id => ~U!Writes(t),
           \A i \in U!Ids : temp'[i] = temp[i] \/ (U!Writes(s) /\ i = info[s].id)
    PROVE  /\ UploadCallOK' /\ OneWriter'
           /\ \A t \in U!Sessions \ {s} : UploadOK(t)' /\ (Sound(t)' => HandleOK(t)')
<1>0. /\ UploadCallOK /\ OneWriter
      /\ \A t \in U!Sessions :
             UploadOK(t) /\ (Sound(t) => HandleOK(t)) /\ info[t] \in UploadState
      /\ client.session \in U!Sessions /\ U!Sessions \subseteq Nat
  BY ServerFacts DEF U!Sessions
<1>1. UploadCallOK'
  <2>1. ASSUME NEW t \in U!Sessions, t > client.session
        PROVE  request'[t] = U!None /\ info'[t].id = 0
    <3>1. request[t] = U!None /\ info[t].id = 0
      BY <1>0, <2>1 DEF UploadCallOK
    <3>2. CASE t = s
      BY <3>1, <3>2
    <3>3. CASE t # s
      <4>1. info[t].file = "closed"
        BY <1>0, <3>1 DEF UploadOK
      <4> QED BY <3>1, <3>3, <4>1
    <3> QED BY <3>2, <3>3
  <2> QED BY <1>0, <2>1 DEF UploadCallOK
<1>2. ASSUME NEW t \in U!Sessions \ {s}
      PROVE  /\ info'[t].id = info[t].id /\ info'[t].op = info[t].op
             /\ info'[t].closing = info[t].closing /\ (U!Writes(t)' <=> U!Writes(t))
             /\ Sound(t)' => Sound(t)
  <2>0. info[t] \in UploadState /\ request'[t] = request[t]
    BY <1>0
  <2>1. /\ info'[t].id = info[t].id /\ info'[t].op = info[t].op
        /\ info'[t].closing = info[t].closing
    BY <2>0 DEF UploadState
  <2> QED BY <2>0, <2>1 DEF U!Writes, Sound
<1>3. OneWriter'
  <2> SUFFICES ASSUME NEW a \in U!Sessions, NEW b \in U!Sessions, a # b, Sound(a)',
                      info'[b].id = info'[a].id, U!Writes(a)' \/ a = client.session
               PROVE  ~(U!Writes(b)')
    BY DEF OneWriter
  <2>0. info'[a].id \notin raced' /\ info'[a].id # 0 /\ info'[a].id \notin raced
    BY DEF Sound, U!Ids
  <2>1. CASE a # s /\ b # s
    BY <1>0, <1>2, <2>1 DEF OneWriter
  <2>2. CASE b = s
    <3> SUFFICES ASSUME U!Writes(s)' PROVE FALSE
      BY <2>2
    <3>1. U!Writes(s) /\ info'[s].id = info[s].id
      OBVIOUS
    <3> QED BY <1>0, <1>2, <2>2, <3>1 DEF OneWriter
  <2>3. CASE a = s
    <3>1. U!Writes(b)' <=> U!Writes(b)
      BY <1>2, <2>3
    <3>2. info[b].id = info'[s].id
      BY <1>2, <2>3
    <3>3. CASE info'[s].id = info[s].id
      <4>1. Sound(s)
        BY <1>0, <2>0, <2>3, <3>3 DEF Sound, UploadState
      <4>2. U!Writes(s) \/ s = client.session
        BY <2>3
      <4> QED BY <1>0, <2>3, <3>1, <3>2, <3>3, <4>1, <4>2 DEF OneWriter
    <3>4. CASE info'[s].id # info[s].id
      BY <2>0, <2>3, <3>1, <3>2, <3>4
    <3> QED BY <3>3, <3>4
  <2> QED BY <2>1, <2>2, <2>3
<1>4. ASSUME NEW t \in U!Sessions \ {s} PROVE UploadOK(t)'
  <2>1. UploadOK(t) /\ request'[t] = request[t] /\ info[t] \in UploadState
    BY <1>0
  <2>2. info'[t].file # "closed" => info[t].file # "closed"
    OBVIOUS
  <2> QED BY <1>2, <2>1, <2>2 DEF UploadOK
<1>5. ASSUME NEW t \in U!Sessions \ {s}, Sound(t)' PROVE HandleOK(t)'
  <2>0. /\ Sound(t) /\ HandleOK(t) /\ request'[t] = request[t] /\ info[t].id \in U!Ids
        /\ info[t] \in UploadState
    BY <1>0, <1>2, <1>5 DEF Sound
  <2>1. CASE info'[t] = info[t] /\ temp'[info[t].id] = temp[info[t].id]
    BY <2>0, <2>1 DEF HandleOK, U!Writes
  <2>2. CASE U!Writes(s) /\ info[t].id = info[s].id
    <3>1. ~U!Writes(t) /\ t # client.session
      BY <2>0, <2>2, OthersRest
    <3>2. ~(U!Writes(t)') /\ info[t].op = <<>> /\ ~info[t].closing
      BY <1>2, <3>1 DEF U!Writes
    <3>3. CASE info'[t] = info[t]
      BY <2>0, <3>1, <3>2, <3>3 DEF HandleOK
    <3>4. CASE info'[t].file \in {"final", "gone"}
      BY <1>2, <3>1, <3>2, <3>4 DEF HandleOK
    <3>5. info'[t] = info[t] \/ info'[t].file \in {"final", "gone"}
      BY <2>0 DEF UploadState
    <3> QED BY <3>3, <3>4, <3>5
  <2> QED BY <2>0, <2>1, <2>2
<1> QED BY <1>1, <1>3, <1>4, <1>5

(* What is written has a type. *)
LEMMA WrittenType ==
    ASSUME NEW blocks \in Seq(Nat), NEW h \in UploadState
    PROVE  U!Written(blocks, h) \in Seq(Nat)
<1>1. h.at \in Nat /\ h.op \in Seq(Nat)
  BY DEF UploadState
<1>2. PICK g : g = [i \in 1 .. h.at |-> IF i <= Len(blocks) THEN blocks[i] ELSE 0]
  OBVIOUS
<1>3. g \in Seq(Nat)
  <2>1. ASSUME NEW i \in 1 .. h.at PROVE (IF i <= Len(blocks) THEN blocks[i] ELSE 0) \in Nat
    BY <1>1
  <2>2. g \in [1 .. h.at -> Nat]
    BY <1>2, <2>1
  <2>3. PICK n \in Nat : n = h.at
    BY <1>1
  <2> QED BY <2>2, <2>3
<1>4. PICK n : n = h.at + Len(h.op) + 1
  OBVIOUS
<1>5. SubSeq(blocks, n, Len(blocks)) \in Seq(Nat)
  <2>1. n \in Nat \ {0}
    BY <1>1, <1>4
  <2> QED BY <2>1
<1>6. U!Written(blocks, h) = IF h.append THEN blocks \o h.op
                           ELSE g \o h.op \o SubSeq(blocks, n, Len(blocks))
  BY <1>2, <1>4 DEF U!Written
<1> QED BY <1>1, <1>3, <1>5, <1>6

(* A write of a session changes the files of its upload, and if that is    *)
(* sound it appends to the ".tmp" file, however its handle was opened.     *)
LEMMA WritesBlocks ==
    ASSUME UploadInv, NEW s \in U!Sessions, info[s].op # <<>>
    PROVE  /\ U!Writes(s) /\ info[s].id \in U!Ids
           /\ U!TempWritten(s) \in [U!Ids -> Seq(Nat)] /\ U!FinalWritten(s) \in [U!Ids -> Seq(Nat)]
           /\ \A i \in U!Ids : i # info[s].id => U!TempWritten(s)[i] = temp[i]
           /\ \A i \in U!Ids \ raced :
                  /\ IsBlocks(U!TempWritten(s)[i], 0) /\ U!FinalWritten(s)[i] = final[i]
           /\ Sound(s) =>
                  /\ info[s].file = "temp" /\ info[s].at = Len(temp[info[s].id])
                  /\ U!TempWritten(s)[info[s].id] = temp[info[s].id] \o info[s].op
                  /\ Len(temp[info[s].id] \o info[s].op) = info[s].at + Len(info[s].op)
<1>0. /\ UploadOK(s) /\ (Sound(s) => HandleOK(s)) /\ info[s] \in UploadState
      /\ temp \in [U!Ids -> Seq(Nat)] /\ final \in [U!Ids -> Seq(Nat)] /\ FilesOK
  BY ServerFacts
<1>1. U!Writes(s) /\ info[s].id \in U!Ids
  BY <1>0 DEF U!Writes, UploadOK, UploadState
<1>2. PICK f, data, id : f = temp[info[s].id] /\ data = info[s].op /\ id = info[s].id
  OBVIOUS
<1>3. /\ f \in Seq(Nat) /\ data \in Seq(Nat) /\ id \in U!Ids
      /\ U!Written(f, info[s]) \in Seq(Nat) /\ U!Written(final[id], info[s]) \in Seq(Nat)
  <2>1. f \in Seq(Nat) /\ final[id] \in Seq(Nat) /\ data \in Seq(Nat) /\ id \in U!Ids
    BY <1>0, <1>1, <1>2 DEF UploadState
  <2> QED BY <1>0, <2>1, WrittenType
<1>4. /\ U!TempWritten(s) \in [U!Ids -> Seq(Nat)]
      /\ \A i \in U!Ids : i # id => U!TempWritten(s)[i] = temp[i]
      /\ U!TempWritten(s)[id] = IF info[s].file = "temp" THEN U!Written(f, info[s]) ELSE f
  BY <1>0, <1>2, <1>3 DEF U!TempWritten
<1>5. /\ U!FinalWritten(s) \in [U!Ids -> Seq(Nat)]
      /\ \A i \in U!Ids : i # id \/ info[s].file # "final" => U!FinalWritten(s)[i] = final[i]
  BY <1>0, <1>2, <1>3 DEF U!FinalWritten
<1>6. ASSUME Sound(s)
      PROVE  /\ info[s].file = "temp" /\ info[s].at = Len(f)
             /\ U!Written(f, info[s]) = f \o data /\ IsBlocks(f \o data, 0)
             /\ Len(f \o data) = info[s].at + Len(data)
  <2>1. /\ info[s].file = "temp" /\ info[s].at = Len(f) /\ IsBlocks(data, Len(f))
    BY <1>0, <1>1, <1>2, <1>6 DEF HandleOK
  <2>2. IsBlocks(f, 0)
    BY <1>0, <1>2, <1>6 DEF FilesOK, Sound
  <2>3. IsBlocks(f \o data, 0) /\ Len(f \o data) = Len(f) + Len(data)
    BY <2>1, <2>2, JoinedFile
  <2>4. U!Written(f, info[s]) = f \o data
    <3>1. PICK g : g = [i \in 1 .. Len(f) |-> IF i <= Len(f) THEN f[i] ELSE 0]
      OBVIOUS
    <3>2. U!Written(f, info[s]) =
              IF info[s].append THEN f \o data
              ELSE g \o data \o SubSeq(f, Len(f) + Len(data) + 1, Len(f))
      BY <1>2, <2>1, <3>1 DEF U!Written
    <3>3. g = f
      BY <1>3, <3>1, FilledToEnd
    <3>4. SubSeq(f, Len(f) + Len(data) + 1, Len(f)) = <<>> /\ f \o data \in Seq(Nat)
      BY <1>3
    <3>5. (f \o data) \o <<>> = f \o data
      BY <3>4
    <3> QED BY <3>2, <3>3, <3>4, <3>5
  <2> QED BY <2>1, <2>3, <2>4
<1>7. ASSUME NEW i \in U!Ids \ raced
      PROVE  IsBlocks(U!TempWritten(s)[i], 0) /\ U!FinalWritten(s)[i] = final[i]
  <2>1. CASE i # id
    BY <1>0, <1>4, <1>5, <2>1 DEF FilesOK
  <2>2. CASE i = id
    <3>1. Sound(s)
      BY <1>2, <2>2 DEF Sound
    <3> QED BY <1>4, <1>5, <1>6, <2>2, <3>1
  <2> QED BY <2>1, <2>2
<1> QED BY <1>1, <1>2, <1>4, <1>5, <1>6, <1>7

(* A write of the server keeps the invariant: its file goes on with what  *)
(* follows.                                                               *)
LEMMA IoTaskStep == ASSUME UploadInv, NEW s \in U!Sessions, U!IoTask(s) PROVE UploadInv'
<1>0. /\ UploadTypes /\ UploadOK(s) /\ (Sound(s) => HandleOK(s)) /\ info[s] \in UploadState
      /\ info \in [U!Sessions -> UploadState] /\ FilesOK /\ DOMAIN request = U!Sessions
      /\ UNCHANGED <<client, request, reply, exists, known, raced>> /\ info[s].op # <<>>
      /\ \A t \in U!Sessions : UploadOK(t)
  BY ServerFacts DEF U!IoTask
<1>1. /\ U!Writes(s) /\ info[s].id \in U!Ids
      /\ temp' = U!TempWritten(s) /\ final' = U!FinalWritten(s)
      /\ temp' \in [U!Ids -> Seq(Nat)] /\ final' \in [U!Ids -> Seq(Nat)]
      /\ \A i \in U!Ids : i # info[s].id => temp'[i] = temp[i]
      /\ \A i \in U!Ids \ raced : IsBlocks(temp'[i], 0) /\ final'[i] = final[i]
      /\ Sound(s) =>
             /\ info[s].file = "temp" /\ info[s].at = Len(temp[info[s].id])
             /\ temp'[info[s].id] = temp[info[s].id] \o info[s].op
             /\ Len(temp[info[s].id] \o info[s].op) = info[s].at + Len(info[s].op)
  BY <1>0, WritesBlocks DEF U!IoTask
<1>2. PICK at \in U!Ends(info[s]) : info' = [info EXCEPT ![s].op = <<>>, ![s].at = at]
  BY DEF U!IoTask
<1>3. info[s].at \in Nat /\ Len(info[s].op) \in Nat
  BY <1>0 DEF UploadState
<1>4. at \in Nat /\ (Sound(s) => at = info[s].at + Len(info[s].op))
  <2>1. /\ Len(temp[info[s].id]) + Len(info[s].op) \in Nat
        /\ Len(final[info[s].id]) + Len(info[s].op) \in Nat
    <3>1. temp[info[s].id] \in Seq(Nat) /\ final[info[s].id] \in Seq(Nat)
      BY <1>1, ServerFacts
    <3>2. Len(temp[info[s].id]) \in Nat /\ Len(final[info[s].id]) \in Nat
      BY <3>1, LenProperties
    <3>3. \A a, b \in Nat : a + b \in Nat
      OBVIOUS
    <3> QED BY <1>3, <3>2, <3>3
  <2>2. CASE ~info[s].append
    BY <1>2, <1>3, <2>2 DEF U!Ends
  <2>3. CASE info[s].append /\ info[s].file = "temp"
    <3>1. at = Len(temp[info[s].id]) + Len(info[s].op)
      BY <1>2, <2>3 DEF U!Ends
    <3>2. at \in Nat
      BY <1>3, <2>1, <3>1
    <3> QED BY <1>1, <3>1, <3>2
  <2>4. CASE info[s].append /\ info[s].file = "final"
    <3>1. at = Len(final[info[s].id]) + Len(info[s].op)
      BY <1>2, <2>4 DEF U!Ends
    <3>2. at \in Nat
      BY <1>3, <2>1, <3>1
    <3> QED BY <1>1, <2>4, <3>2
  <2>5. CASE info[s].append /\ info[s].file \notin {"temp", "final"}
    <3>1. at \in info[s].at + Len(info[s].op) .. info[s].at + Len(info[s].op) + Size
      BY <1>2, <2>5 DEF U!Ends
    <3>2. at \in Nat
      BY <1>3, <3>1, UploadConstants
    <3> QED BY <1>1, <2>5, <3>2
  <2> QED BY <2>2, <2>3, <2>4, <2>5
<1>5. PICK h : h = [info[s] EXCEPT !.op = <<>>, !.at = at]
  OBVIOUS
<1>6. h \in UploadState
  <2>1. at \in Nat /\ <<>> \in Seq(Nat)
    BY <1>4
  <2> QED BY <1>0, <1>5, <2>1 DEF UploadState
<1>7. info' = [info EXCEPT ![s] = h]
  BY <1>0, <1>2, <1>5
<1>8. /\ h.op = <<>> /\ h.at = at /\ h.id = info[s].id /\ h.file = info[s].file
      /\ h.pos = info[s].pos /\ h.resume = info[s].resume /\ h.closing = info[s].closing
      /\ h.completed = info[s].completed
  BY <1>0, <1>5 DEF UploadState
<1>9. info' \in [U!Sessions -> UploadState] /\ info'[s] = h
      /\ \A t \in U!Sessions \ {s} : info'[t] = info[t]
  BY <1>0, <1>6, <1>7
<1>10. UploadTypes'
  BY <1>0, <1>1, <1>9, ServerFacts DEF UploadTypes, RequestOK, ReplyOK
<1>11. UploadOK(s)'
  BY <1>0, <1>8, <1>9 DEF UploadOK
<1>12. ASSUME Sound(s)' PROVE HandleOK(s)'
  <2>0. Sound(s) /\ HandleOK(s)
    BY <1>0, <1>8, <1>9, <1>12 DEF Sound
  <2>1. h.at = Len(temp'[h.id]) /\ h.pos = h.at + Len(h.op) /\ h.at + Len(h.op) = h.at
    <3>1. Len(temp'[h.id]) = at
      BY <1>1, <1>4, <1>8, <2>0
    <3>2. info[s].pos = at
      BY <1>1, <1>4, <2>0 DEF HandleOK
    <3>3. Len(h.op) = 0 /\ at \in Nat
      BY <1>4, <1>8
    <3> QED BY <1>8, <3>1, <3>2, <3>3
  <2> QED BY <1>1, <1>4, <1>8, <1>9, <2>0, <2>1 DEF HandleOK
<1>13. UploadCallOK' /\ OneWriter'
       /\ \A t \in U!Sessions \ {s} : UploadOK(t)' /\ (Sound(t)' => HandleOK(t)')
  <2>1. reply' = reply /\ request' = request /\ info'[s].id = info[s].id /\ info[s].id # 0
    BY <1>0, <1>1, <1>8, <1>9 DEF U!Ids
  <2>2. \A t \in U!Sessions \ {s} : info'[t].file = "temp" => info[t].id \in exists'
    BY <1>0, <1>9 DEF UploadOK
  <2> QED BY <1>0, <1>1, <1>9, <2>1, <2>2, ServerSide
<1>14. FilesOK'
  BY <1>0, <1>1 DEF FilesOK
<1> QED BY <1>10, <1>11, <1>12, <1>13, <1>14 DEF UploadInv

(* A handle that is destroyed leaves a sound upload's file what it was, or *)
(* writes what it had to.                                                  *)
LEMMA DestroyKeeps ==
    ASSUME UploadInv, NEW s \in U!Sessions, U!Destroy(s)
    PROVE  /\ temp' \in [U!Ids -> Seq(Nat)] /\ final' \in [U!Ids -> Seq(Nat)]
           /\ \A i \in U!Ids : temp'[i] = temp[i] \/ (U!Writes(s) /\ i = info[s].id)
           /\ \A i \in U!Ids \ raced : IsBlocks(temp'[i], 0) /\ final'[i] = final[i]
<1>1. CASE UNCHANGED <<temp, final>>
  BY <1>1, ServerFacts DEF FilesOK
<1>2. CASE info[s].op # <<>> /\ temp' = U!TempWritten(s) /\ final' = U!FinalWritten(s)
  BY <1>2, WritesBlocks
<1> QED BY <1>1, <1>2 DEF U!Destroy

(* BeginUpload() keeps the invariant: who resumes stands where the file   *)
(* ends, if nobody is still to write it.                                  *)
LEMMA BeginUploadStep ==
    ASSUME UploadInv, NEW s \in U!Sessions, U!BeginUpload(s)
    PROVE  UploadInv'
<1>0. /\ UploadTypes /\ FilesOK /\ DOMAIN request = U!Sessions /\ RequestOK(request[s])
      /\ info \in [U!Sessions -> UploadState] /\ temp \in [U!Ids -> Seq(Nat)]
      /\ known \subseteq U!Ids
      /\ \A t \in U!Sessions : UploadOK(t) /\ RequestOK(request[t])
      /\ request[s].type = "begin" /\ request[s].new \in U!Ids
      /\ UNCHANGED <<client, exists>>
  BY ServerFacts DEF U!BeginUpload, RequestOK
<1>2. /\ temp' \in [U!Ids -> Seq(Nat)] /\ final' \in [U!Ids -> Seq(Nat)]
      /\ \A i \in U!Ids : temp'[i] = temp[i] \/ (U!Writes(s) /\ i = info[s].id)
      /\ \A i \in U!Ids \ raced : IsBlocks(temp'[i], 0) /\ final'[i] = final[i]
  BY DestroyKeeps DEF U!BeginUpload
<1>3. PICK resume \in BOOLEAN : resume <=> request[s].id \in known
  OBVIOUS
<1>4. PICK id : id = IF resume THEN request[s].id ELSE request[s].new
  OBVIOUS
<1>5. id \in U!Ids /\ id # 0
  <2>1. id \in U!Ids
    BY <1>0, <1>3, <1>4
  <2> QED BY <2>1 DEF U!Ids
<1>6. PICK offset : offset = IF resume THEN U!Offset(id) ELSE 0
  OBVIOUS
<1>7. /\ offset \in 0 .. Size
      /\ id \notin raced => offset = IF resume THEN Len(temp[id]) ELSE 0
  <2>1. Len(temp[id]) \in Nat /\ (id \notin raced => Len(temp[id]) <= Size)
    BY <1>0, <1>5, UploadConstants DEF FilesOK, IsBlocks, AreBlocks
  <2>2. U!Offset(id) \in 0 .. Size /\ (id \notin raced => U!Offset(id) = Len(temp[id]))
    BY <2>1, UploadConstants DEF U!Offset
  <2> QED BY <1>6, <2>2, UploadConstants
<1>8. /\ known' = known \union {id}
      /\ info' = [info EXCEPT ![s] = U!Info(id, resume, offset)]
      /\ raced' = IF s = client.session /\ \E t \in U!Sessions : info[t].id = id /\ U!Writes(t)
                    THEN raced \union {id} ELSE raced
      /\ \E window \in Windows :
             U!Answer(s, [type |-> "begun", id |-> id, offset |-> offset, window |-> window])
  <2>1. (request[s].id \in known) = resume
    BY <1>3
  <2> QED BY <1>4, <1>6, <2>1 DEF U!BeginUpload
<1>r. /\ raced \subseteq raced'
      /\ s = client.session /\ id \notin raced' =>
             \A t \in U!Sessions : info[t].id = id => ~U!Writes(t)
  BY <1>8
<1>9. PICK window \in Windows :
          U!Answer(s, [type |-> "begun", id |-> id, offset |-> offset, window |-> window])
  BY <1>8
<1>10. PICK answer : answer = [type |-> "begun", id |-> id, offset |-> offset, window |-> window]
  OBVIOUS
<1>11. /\ request' = [request EXCEPT ![s] = U!None]
       /\ reply' = IF s = client.session THEN answer ELSE reply
  BY <1>9, <1>10 DEF U!Answer
<1>12. PICK h : h = U!Info(id, resume, offset)
  OBVIOUS
<1>13. h \in UploadState
  <2>1. id \in U!Ids \union {0} /\ offset \in Nat /\ <<>> \in Seq(Nat)
    BY <1>5, <1>7, UploadConstants
  <2> QED BY <1>12, <2>1 DEF U!Info, UploadState
<1>14. /\ h.id = id /\ h.resume = resume /\ h.pos = offset /\ h.file = "closed"
       /\ h.op = <<>> /\ h.closing = FALSE
  BY <1>12 DEF U!Info
<1>15. /\ info' \in [U!Sessions -> UploadState] /\ info'[s] = h
       /\ \A t \in U!Sessions \ {s} : info'[t] = info[t]
  BY <1>0, <1>8, <1>12, <1>13
<1>16. /\ DOMAIN request' = U!Sessions /\ request'[s] = U!None
       /\ \A t \in U!Sessions \ {s} : request'[t] = request[t]
  BY <1>0, <1>11
<1>17. ReplyOK'
  <2>1. /\ answer.type = "begun" /\ answer.id \in Nat /\ answer.offset \in 0 .. Size
        /\ answer.window \in Nat
    BY <1>5, <1>7, <1>10, UploadConstants DEF U!Ids
  <2> QED BY <1>0, <1>11, <2>1 DEF UploadTypes, ReplyOK
<1>18. UploadTypes'
  <2>1. \A t \in U!Sessions : RequestOK(request'[t])
    <3>1. RequestOK(U!None)
      BY DEF RequestOK, U!None
    <3> QED BY <1>0, <1>16, <3>1
  <2>2. known' \subseteq U!Ids
    BY <1>0, <1>5, <1>8
  <2> QED BY <1>0, <1>2, <1>15, <1>16, <1>17, <2>1, <2>2 DEF UploadTypes, RequestOK
<1>19. ~(U!Writes(s)') /\ request[s] # U!None
  BY <1>0, <1>14, <1>15, <1>16 DEF U!Writes, U!None
<1>20. UploadOK(s)'
  BY <1>5, <1>14, <1>15 DEF UploadOK
<1>21. ASSUME Sound(s)' PROVE HandleOK(s)'
  <2>1. id \in U!Ids \ raced'
    BY <1>14, <1>15, <1>21 DEF Sound
  <2>2. offset = IF resume THEN Len(temp[id]) ELSE 0
    BY <1>7, <1>r, <2>1
  <2>3. s = client.session => temp'[id] = temp[id]
    BY <1>2, <1>5, <1>r, <2>1
  <2> QED BY <1>0, <1>14, <1>15, <1>19, <2>2, <2>3 DEF HandleOK
<1>22. UploadCallOK' /\ OneWriter'
       /\ \A t \in U!Sessions \ {s} : UploadOK(t)' /\ (Sound(t)' => HandleOK(t)')
  <2>1. \/ reply' = reply /\ (s = client.session => request'[s] = request[s])
        \/ s = client.session /\ request[s] # U!None /\ request'[s] = U!None
    BY <1>11, <1>16, <1>19
  <2>2. \A t \in U!Sessions \ {s} : info'[t].file = "temp" => info[t].id \in exists'
    BY <1>0, <1>15 DEF UploadOK
  <2>3. \/ s # client.session \/ info'[s].id \in raced'
        \/ \A t \in U!Sessions \ {s} : info[t].id = info'[s].id => ~U!Writes(t)
    BY <1>14, <1>15, <1>r
  <2> QED BY <1>0, <1>2, <1>15, <1>16, <1>19, <1>r, <2>1, <2>2, <2>3, ServerSide
<1>23. FilesOK'
  BY <1>0, <1>2, <1>r DEF FilesOK
<1> QED BY <1>18, <1>20, <1>21, <1>22, <1>23 DEF UploadInv

(* The end of a session keeps the invariant, whether it leaves its file   *)
(* or not.                                                                *)
LEMMA UploadSessionEnds == ASSUME UploadInv, NEW s \in U!Sessions, U!SessionEnds(s) PROVE UploadInv'
<1>0. /\ UploadTypes /\ FilesOK /\ DOMAIN request = U!Sessions
      /\ info \in [U!Sessions -> UploadState] /\ temp \in [U!Ids -> Seq(Nat)]
      /\ \A t \in U!Sessions : UploadOK(t) /\ RequestOK(request[t])
      /\ UNCHANGED <<client, reply, exists, known, raced>> /\ s < client.session
      /\ U!Sessions \subseteq Nat /\ client.session \in U!Sessions
  BY ServerFacts DEF U!SessionEnds, U!Sessions
<1>1. PICK h : h = U!Info(0, FALSE, 0)
  OBVIOUS
<1>2. h \in UploadState
  <2>1. <<>> \in Seq(Nat) /\ 0 \in Nat
    OBVIOUS
  <2> QED BY <1>1, <2>1 DEF U!Info, UploadState
<1>3. h.id = 0 /\ h.resume = FALSE /\ h.file = "closed" /\ h.op = <<>> /\ h.closing = FALSE
  BY <1>1 DEF U!Info
<1>4. /\ info' \in [U!Sessions -> UploadState] /\ info'[s] = h
      /\ \A t \in U!Sessions \ {s} : info'[t] = info[t]
  BY <1>0, <1>1, <1>2 DEF U!SessionEnds
<1>5. /\ DOMAIN request' = U!Sessions /\ request'[s] = U!None
      /\ \A t \in U!Sessions \ {s} : request'[t] = request[t]
  BY <1>0 DEF U!SessionEnds
<1>6. /\ temp' \in [U!Ids -> Seq(Nat)] /\ final' \in [U!Ids -> Seq(Nat)]
      /\ \A i \in U!Ids : temp'[i] = temp[i] \/ (U!Writes(s) /\ i = info[s].id)
      /\ \A i \in U!Ids \ raced : IsBlocks(temp'[i], 0) /\ final'[i] = final[i]
  BY DestroyKeeps DEF U!SessionEnds
<1>7. UploadTypes'
  <2>1. \A t \in U!Sessions : RequestOK(request'[t])
    BY <1>0, <1>5 DEF RequestOK, U!None
  <2> QED BY <1>0, <1>4, <1>5, <1>6, <2>1 DEF UploadTypes, RequestOK, ReplyOK
<1>8. UploadOK(s)' /\ ~(U!Writes(s)') /\ ~(Sound(s)')
  BY <1>3, <1>4, <1>5 DEF UploadOK, U!Writes, Sound, U!Ids, U!None
<1>9. UploadCallOK' /\ OneWriter'
      /\ \A t \in U!Sessions \ {s} : UploadOK(t)' /\ (Sound(t)' => HandleOK(t)')
  <2>1. reply' = reply /\ s # client.session /\ info'[s].id = 0
    BY <1>0, <1>3, <1>4
  <2>2. \A t \in U!Sessions \ {s} : info'[t].file = "temp" => info[t].id \in exists'
    BY <1>0, <1>4 DEF UploadOK
  <2> QED BY <1>0, <1>4, <1>5, <1>6, <1>8, <2>1, <2>2, ServerSide
<1>10. FilesOK'
  BY <1>0, <1>6 DEF FilesOK
<1> QED BY <1>7, <1>8, <1>9, <1>10 DEF UploadInv

(* A chunk finds a handle that stands where the file of a sound upload     *)
(* ends.                                                                   *)
LEMMA OpensAtEnd ==
    ASSUME UploadInv, NEW s \in U!Sessions, request[s].type = "chunks", info[s].id # 0,
           ~info[s].completed, info[s].op = <<>>, ~info[s].closing,
           NEW h, h = U!Opened(info[s]),
           NEW new, new = IF h.file = "temp" /\ info[s].file = "closed" /\ ~h.append
                            THEN [temp EXCEPT ![h.id] = <<>>] ELSE temp
    PROVE  /\ h \in UploadState /\ h.id = info[s].id /\ h.id \in U!Ids
           /\ h.op = <<>> /\ ~h.closing
           /\ h.file = "temp" \/ h = info[s]
           /\ new \in [U!Ids -> Seq(Nat)] /\ \A i \in U!Ids : i # h.id => new[i] = temp[i]
           /\ \A i \in U!Ids \ raced : IsBlocks(new[i], 0)
           /\ Sound(s) =>
                  h.file = "temp" /\ ~h.resume /\ h.at = Len(new[h.id])
<1>0. /\ UploadOK(s) /\ (Sound(s) => HandleOK(s)) /\ info[s] \in UploadState
      /\ temp \in [U!Ids -> Seq(Nat)] /\ FilesOK /\ U!Writes(s)
  BY ServerFacts DEF U!Writes
<1>1. info[s].id \in U!Ids /\ temp[info[s].id] \in Seq(Nat)
  BY <1>0 DEF UploadState
<1>2. Sound(s) =>
          /\ info[s].file \in {"closed", "temp"}
          /\ info[s].file = "temp" =>
                 /\ info[s].at = Len(temp[info[s].id]) /\ ~info[s].resume
                 /\ info[s].pos = info[s].at + Len(info[s].op)
          /\ info[s].file = "closed" /\ info[s].resume => info[s].pos = Len(temp[info[s].id])
          /\ info[s].file = "closed" /\ ~info[s].resume => info[s].pos = 0
  BY <1>0 DEF HandleOK, UploadState
<1>3. CASE info[s].pos = 0 \/ info[s].resume
  <2>1. PICK at : at = IF ~info[s].resume THEN 0
                       ELSE IF info[s].pos > 0 THEN info[s].pos ELSE Len(temp[info[s].id])
    OBVIOUS
  <2>2. h = [info[s] EXCEPT !.file = "temp", !.append = info[s].resume, !.resume = FALSE,
                            !.at = at]
    BY <1>3, <2>1 DEF U!Opened
  <2>3. at \in Nat /\ info[s].resume \in BOOLEAN /\ info[s].pos \in Nat
    <3>1. info[s].resume \in BOOLEAN /\ info[s].pos \in Nat
      BY <1>0 DEF UploadState
    <3>2. Len(temp[info[s].id]) \in Nat
      BY <1>1
    <3> QED BY <2>1, <3>1, <3>2
  <2>4. h \in UploadState
    BY <1>0, <2>2, <2>3 DEF UploadState
  <2>5. /\ h.file = "temp" /\ h.id = info[s].id /\ ~h.resume /\ h.op = <<>> /\ ~h.closing
        /\ h.at = at /\ h.append = info[s].resume
    BY <1>0, <2>2 DEF UploadState
  <2>6. CASE info[s].file = "closed" /\ ~info[s].resume
    <3>1. new = [temp EXCEPT ![info[s].id] = <<>>] /\ at = 0
      BY <2>1, <2>5, <2>6
    <3>2. /\ new \in [U!Ids -> Seq(Nat)] /\ new[info[s].id] = <<>>
          /\ \A i \in U!Ids : i # info[s].id => new[i] = temp[i]
      <4>1. <<>> \in Seq(Nat)
        OBVIOUS
      <4> QED BY <1>0, <1>1, <3>1, <4>1
    <3>3. \A i \in U!Ids \ raced : IsBlocks(new[i], 0)
      <4>1. IsBlocks(<<>>, 0)
        BY NoBlocks, UploadConstants DEF IsBlocks
      <4> QED BY <1>0, <1>1, <3>2, <4>1 DEF FilesOK
    <3> QED BY <1>1, <2>4, <2>5, <3>1, <3>2, <3>3
  <2>7. CASE ~(info[s].file = "closed" /\ ~info[s].resume)
    <3>1. new = temp /\ \A i \in U!Ids \ raced : IsBlocks(new[i], 0)
      BY <1>0, <2>5, <2>7 DEF FilesOK
    <3>2. Sound(s) => at = Len(temp[info[s].id])
      <4>1. CASE Sound(s) /\ info[s].file = "closed"
        <5>1. info[s].pos = Len(temp[info[s].id])
          BY <1>2, <2>7, <4>1
        <5> QED BY <2>1, <2>3, <2>7, <4>1, <5>1
      <4>2. CASE Sound(s) /\ info[s].file = "temp"
        <5>1. at = 0 /\ info[s].pos = 0
          BY <1>2, <1>3, <2>1, <4>2
        <5>2. Len(info[s].op) = 0 /\ Len(temp[info[s].id]) \in Nat
          BY <1>1
        <5>3. info[s].pos = Len(temp[info[s].id]) + Len(info[s].op)
          BY <1>2, <4>2
        <5> QED BY <5>1, <5>2, <5>3
      <4> QED BY <1>2, <4>1, <4>2
    <3> QED BY <1>0, <1>1, <2>4, <2>5, <3>1, <3>2
  <2> QED BY <2>6, <2>7
<1>4. CASE ~(info[s].pos = 0 \/ info[s].resume)
  <2>1. h = info[s]
    BY <1>4 DEF U!Opened
  <2>2. Sound(s) => info[s].file = "temp"
    BY <1>2, <1>4
  <2>3. new = temp
    <3>1. CASE info[s].file = "closed"
      BY <2>1, <3>1
    <3>2. CASE info[s].file # "closed"
      BY <3>2
    <3> QED BY <3>1, <3>2
  <2> QED BY <1>0, <1>1, <1>2, <1>4, <2>1, <2>2, <2>3 DEF FilesOK
<1> QED BY <1>3, <1>4

(* What a step of UploadChunks() for an upload that goes on does *)
LEMMA ChunkStep ==
    ASSUME UploadInv, NEW s \in U!Sessions, request[s].type = "chunks",
           NEW h \in UploadState, info' = [info EXCEPT ![s] = h],
           h.id = info[s].id,
           temp' \in [U!Ids -> Seq(Nat)], \A i \in U!Ids \ raced : IsBlocks(temp'[i], 0),
           \A i \in U!Ids : i # info[s].id => temp'[i] = temp[i], exists \subseteq exists',
           UNCHANGED <<client, final, known, raced>>,
           UploadOK(s)', Sound(s)' => HandleOK(s)',
           \/ UNCHANGED <<request, reply>>
           \/ \E answer : U!Answer(s, answer) /\ ReplyOK' /\ reply' \in {answer, reply}
    PROVE  UploadInv'
<1>0. /\ UploadTypes /\ FilesOK /\ DOMAIN request = U!Sessions
      /\ info \in [U!Sessions -> UploadState]
      /\ \A t \in U!Sessions : RequestOK(request[t]) /\ UploadOK(t)
  BY ServerFacts
<1>1. /\ info' \in [U!Sessions -> UploadState] /\ info'[s] = h
      /\ \A t \in U!Sessions \ {s} : info'[t] = info[t]
  BY <1>0
<1>2. /\ DOMAIN request' = U!Sessions /\ request'[s] \in {request[s], U!None}
      /\ \A t \in U!Sessions \ {s} : request'[t] = request[t]
      /\ \/ reply' = reply /\ (s = client.session => request'[s] = request[s])
         \/ s = client.session /\ request'[s] = U!None
      /\ ReplyOK'
  <2>1. CASE UNCHANGED <<request, reply>>
    BY <1>0, <2>1 DEF UploadTypes, ReplyOK
  <2>2. CASE \E answer : U!Answer(s, answer) /\ ReplyOK' /\ reply' \in {answer, reply}
    BY <1>0, <2>2 DEF U!Answer
  <2> QED BY <2>1, <2>2
<1>3. UploadTypes'
  <2>1. \A t \in U!Sessions : RequestOK(request'[t])
    BY <1>0, <1>2 DEF RequestOK, U!None
  <2> QED BY <1>0, <1>1, <1>2, <2>1 DEF UploadTypes, RequestOK
<1>4. UploadCallOK' /\ OneWriter'
      /\ \A t \in U!Sessions \ {s} : UploadOK(t)' /\ (Sound(t)' => HandleOK(t)')
  <2>1. U!Writes(s) /\ info'[s].id = info[s].id /\ request[s] # U!None /\ raced \subseteq raced'
    BY <1>1 DEF U!Writes, U!None
  <2>2. \A t \in U!Sessions \ {s} : info'[t].file = "temp" => info[t].id \in exists'
    BY <1>0, <1>1 DEF UploadOK
  <2>3. \A i \in U!Ids : temp'[i] = temp[i] \/ (U!Writes(s) /\ i = info[s].id)
    BY <2>1
  <2> QED BY <1>1, <1>2, <2>1, <2>2, <2>3, ServerSide
<1>5. FilesOK'
  BY <1>0 DEF FilesOK
<1> QED BY <1>3, <1>4, <1>5 DEF UploadInv

(* UploadChunks() keeps the invariant. *)
LEMMA UploadChunksStep ==
    ASSUME UploadInv, NEW s \in U!Sessions, U!UploadChunks(s)
    PROVE  UploadInv'
<1>0. /\ FilesOK /\ UploadOK(s) /\ (Sound(s) => HandleOK(s))
      /\ info[s] \in UploadState /\ info \in [U!Sessions -> UploadState]
      /\ temp \in [U!Ids -> Seq(Nat)] /\ RequestOK(request[s]) /\ DOMAIN request = U!Sessions
      /\ request[s].type = "chunks" /\ info[s].op = <<>> /\ ~info[s].closing
      /\ UNCHANGED <<client, final, known, raced>> /\ ReplyOK
  BY ServerFacts DEF U!UploadChunks, UploadTypes
<1>2. PICK h : h = U!Opened(info[s])
  OBVIOUS
<1>3. PICK chunk : chunk = request[s].chunks[1]
  OBVIOUS
<1>4. PICK opens \in BOOLEAN :
          opens <=> info[s].id # 0 /\ ~info[s].completed /\ Len(request[s].chunks) = 1
  OBVIOUS
<1>5. PICK last \in BOOLEAN : last <=> chunk.offset + Len(chunk.data) = Size
  OBVIOUS
<1>6. /\ temp' = IF opens /\ h.file = "temp" /\ info[s].file = "closed" /\ ~h.append
                   THEN [temp EXCEPT ![h.id] = <<>>] ELSE temp
      /\ exists' = IF opens /\ h.file = "temp" THEN exists \union {h.id} ELSE exists
      /\ IF opens /\ U!Accepted(h, chunk)
           THEN /\ info' = [info EXCEPT ![s] =
                       [h EXCEPT !.op = chunk.data, !.pos = h.at + Len(chunk.data),
                                 !.closing = last]]
                /\ IF last THEN UNCHANGED <<request, reply>>
                   ELSE \E window \in Windows :
                            U!Answer(s, [type |-> "uploaded", window |-> window])
           ELSE /\ info' = [info EXCEPT ![s] = IF opens THEN [h EXCEPT !.pos = h.at] ELSE @]
                /\ U!Answer(s, [type |-> "exception"])
  <2>1. (chunk.offset + Len(chunk.data) = Size) = last
    BY <1>5
  <2>2. (info[s].id # 0 /\ ~info[s].completed /\ Len(request[s].chunks) = 1) = opens
    BY <1>4
  <2> QED BY <1>2, <1>3, <2>1, <2>2 DEF U!UploadChunks
<1>7. ASSUME NEW answer, U!Answer(s, answer),
             answer.type \in {"uploaded", "exception"},
             answer.type = "uploaded" => answer.window \in Nat
      PROVE  /\ ReplyOK' /\ reply' \in {answer, reply} /\ request'[s] = U!None
             /\ \E x : U!Answer(s, x) /\ ReplyOK' /\ reply' \in {x, reply}
  BY <1>0, <1>7 DEF U!Answer, ReplyOK
<1>8. CASE ~opens
  <2>1. /\ temp' = temp /\ exists' = exists /\ info' = [info EXCEPT ![s] = info[s]]
        /\ U!Answer(s, [type |-> "exception"])
    BY <1>6, <1>8
  <2>2. \E x : U!Answer(s, x) /\ ReplyOK' /\ reply' \in {x, reply}
    <3>1. PICK answer : answer = [type |-> "exception"]
      OBVIOUS
    <3>2. U!Answer(s, answer) /\ answer.type = "exception"
      BY <2>1, <3>1
    <3> QED BY <1>7, <3>2
  <2>3. info' = info
    BY <1>0, <2>1
  <2>4. UploadOK(s)'
    BY <1>0, <2>1, <2>3 DEF UploadOK
  <2>5. Sound(s)' => HandleOK(s)'
    <3>1. U!Writes(s) /\ (Sound(s)' <=> Sound(s))
      BY <1>0, <2>3 DEF U!Writes, Sound
    <3> QED BY <1>0, <2>1, <2>3, <3>1 DEF HandleOK
  <2> QED BY <1>0, <2>1, <2>2, <2>4, <2>5, ChunkStep DEF FilesOK
<1>9. CASE opens
  <2>1. temp' = IF h.file = "temp" /\ info[s].file = "closed" /\ ~h.append
                  THEN [temp EXCEPT ![h.id] = <<>>] ELSE temp
    BY <1>6, <1>9
  <2>2. /\ h \in UploadState /\ h.id = info[s].id /\ h.id \in U!Ids
        /\ h.op = <<>> /\ ~h.closing
        /\ h.file = "temp" \/ h = info[s]
        /\ temp' \in [U!Ids -> Seq(Nat)] /\ \A i \in U!Ids : i # h.id => temp'[i] = temp[i]
        /\ \A i \in U!Ids \ raced : IsBlocks(temp'[i], 0)
        /\ Sound(s) => h.file = "temp" /\ ~h.resume /\ h.at = Len(temp'[h.id])
    BY <1>0, <1>2, <1>4, <1>9, <2>1, OpensAtEnd
  <2>3. /\ h.at \in Nat /\ h.id # 0 /\ exists \subseteq exists'
        /\ h.file = "temp" => h.id \in exists'
    <3>1. h.at \in Nat /\ h.id # 0
      BY <2>2 DEF UploadState, U!Ids
    <3> QED BY <1>6, <1>9, <3>1
  <2>4. CASE U!Accepted(h, chunk)
    <3>1. chunk \in Chunks
      BY <1>0, <1>3, <1>4, <1>9 DEF RequestOK
    <3>2. /\ chunk.data \in Seq(Nat) /\ Len(chunk.data) \in Nat /\ chunk.offset = h.at
          /\ IsBlocks(chunk.data, h.at)
      BY <2>4, <3>1 DEF Chunks, U!Accepted
    <3>3. PICK pos : pos = h.at + Len(chunk.data)
      OBVIOUS
    <3>4. PICK g : g = [h EXCEPT !.op = chunk.data, !.pos = pos, !.closing = last]
      OBVIOUS
    <3>5. pos \in Nat
      BY <2>3, <3>2, <3>3
    <3>6. g \in UploadState
      BY <2>2, <3>2, <3>4, <3>5 DEF UploadState
    <3>7. /\ g.op = chunk.data /\ g.pos = pos /\ g.closing = last /\ g.file = h.file
          /\ g.id = info[s].id /\ g.resume = h.resume /\ g.at = h.at
      BY <2>2, <3>4 DEF UploadState
    <3>8. info' = [info EXCEPT ![s] = g]
      BY <1>6, <1>9, <2>4, <3>3, <3>4
    <3>9. info'[s] = g
      BY <1>0, <3>8
    <3>10. \/ UNCHANGED <<request, reply>>
           \/ ~last /\ \E x : U!Answer(s, x) /\ ReplyOK' /\ reply' \in {x, reply}
      <4>1. CASE ~last
        <5>1. PICK window \in Windows : U!Answer(s, [type |-> "uploaded", window |-> window])
          BY <1>6, <1>9, <2>4, <4>1
        <5>2. PICK answer : answer = [type |-> "uploaded", window |-> window]
          OBVIOUS
        <5>3. /\ U!Answer(s, answer) /\ answer.type = "uploaded" /\ answer.window \in Nat
          BY <5>1, <5>2, UploadConstants
        <5> QED BY <1>7, <4>1, <5>3
      <4> QED BY <1>6, <1>9, <2>4, <4>1
    <3>11. last => request'[s] = request[s]
      BY <3>10
    <3>12. UploadOK(s)'
      BY <1>0, <2>2, <2>3, <3>7, <3>9, <3>11 DEF UploadOK
    <3>13. Sound(s)' => HandleOK(s)'
      <4>1. last => h.at + Len(chunk.data) = Size
        BY <1>5, <3>2
      <4>2. Sound(s)' => Sound(s)
        BY <1>0, <3>7, <3>9 DEF Sound
      <4> QED BY <1>0, <2>2, <2>3, <3>2, <3>3, <3>7, <3>9, <4>1, <4>2 DEF HandleOK
    <3> QED BY <1>0, <2>2, <2>3, <3>6, <3>7, <3>8, <3>10, <3>12, <3>13, ChunkStep
  <2>5. CASE ~U!Accepted(h, chunk)
    <3>1. PICK g : g = [h EXCEPT !.pos = h.at]
      OBVIOUS
    <3>2. g \in UploadState
      BY <2>2, <2>3, <3>1 DEF UploadState
    <3>3. /\ g.op = <<>> /\ g.pos = h.at /\ ~g.closing /\ g.file = h.file
          /\ g.id = info[s].id /\ g.resume = h.resume /\ g.at = h.at
      BY <2>2, <3>1 DEF UploadState
    <3>4. info' = [info EXCEPT ![s] = g] /\ U!Answer(s, [type |-> "exception"])
      BY <1>6, <1>9, <2>5, <3>1
    <3>5. \E x : U!Answer(s, x) /\ ReplyOK' /\ reply' \in {x, reply}
      <4>1. PICK answer : answer = [type |-> "exception"]
        OBVIOUS
      <4>2. U!Answer(s, answer) /\ answer.type = "exception"
        BY <3>4, <4>1
      <4> QED BY <1>7, <4>2
    <3>6. info'[s] = g /\ h.at = h.at + Len(g.op)
      BY <1>0, <2>3, <3>3, <3>4
    <3>7. UploadOK(s)'
      BY <2>2, <2>3, <3>3, <3>6 DEF UploadOK
    <3>8. Sound(s)' => HandleOK(s)'
      <4>1. Sound(s)' => Sound(s)
        BY <1>0, <3>3, <3>6 DEF Sound
      <4> QED BY <2>2, <2>3, <3>3, <3>6, <4>1 DEF HandleOK
    <3> QED BY <1>0, <2>2, <2>3, <3>2, <3>3, <3>4, <3>5, <3>7, <3>8, ChunkStep
  <2> QED BY <2>4, <2>5
<1> QED BY <1>8, <1>9

(* The last chunk is the rest of the file, so that what gets its name is   *)
(* all of it.                                                              *)
LEMMA UploadCompletedStep ==
    ASSUME UploadInv, NEW s \in U!Sessions, U!UploadCompleted(s)
    PROVE  UploadInv'
<1>0. /\ UploadTypes /\ FilesOK /\ UploadOK(s) /\ (Sound(s) => HandleOK(s))
      /\ DOMAIN request = U!Sessions
      /\ info \in [U!Sessions -> UploadState] /\ temp \in [U!Ids -> Seq(Nat)]
      /\ final \in [U!Ids -> Seq(Nat)] /\ known \subseteq U!Ids /\ ReplyOK
      /\ \A t \in U!Sessions : RequestOK(request[t]) /\ info[t] \in UploadState /\ UploadOK(t)
      /\ info[s].closing /\ info[s].op = <<>> /\ client' = client /\ raced' = raced
  BY ServerFacts DEF U!UploadCompleted, UploadTypes
<1>1. PICK id : id = info[s].id
  OBVIOUS
<1>2. /\ request[s].type = "chunks" /\ request[s] # U!None /\ U!Writes(s)
      /\ id \in U!Ids /\ id # 0
  BY <1>0, <1>1 DEF UploadOK, U!None, U!Writes, UploadState
<1>3. id \notin raced => temp[id] = U!Source
  <2> SUFFICES ASSUME id \notin raced PROVE temp[id] = U!Source
    OBVIOUS
  <2>0. Sound(s) /\ HandleOK(s)
    BY <1>0, <1>1, <1>2 DEF Sound
  <2>1. /\ Len(info[s].op) = 0 /\ info[s].at + Len(info[s].op) = Size /\ info[s].at \in Nat
        /\ info[s].file = "temp"
    BY <1>0, <2>0 DEF HandleOK, UploadState
  <2>2. Len(temp[id]) = info[s].at
    BY <1>1, <1>2, <2>0, <2>1 DEF HandleOK
  <2>3. Len(temp[id]) = Size /\ IsBlocks(temp[id], 0)
    BY <1>0, <1>2, <2>1, <2>2 DEF FilesOK
  <2> QED BY <2>3, WholeFile
<1>4. PICK h : h = [info[s] EXCEPT !.file = "closed", !.closing = FALSE, !.completed = TRUE]
  OBVIOUS
<1>5. /\ final' = [final EXCEPT ![id] = temp[id]] /\ temp' = [temp EXCEPT ![id] = <<>>]
      /\ exists' = exists \ {id}
      /\ info' = [t \in U!Sessions |->
             IF t = s THEN h
             ELSE IF info[t].id = id
               THEN [info[t] EXCEPT !.file = CASE @ = "temp"  -> "final"
                                               [] @ = "final" -> "gone"
                                               [] OTHER       -> @]
             ELSE info[t]]
      /\ known' = known \ {id}
      /\ \E window \in Windows : U!Answer(s, [type |-> "uploaded", window |-> window])
  BY <1>1, <1>4 DEF U!UploadCompleted
<1>6. h \in UploadState
  <2>1. info[s] \in UploadState
    BY <1>0
  <2> QED BY <1>4, <2>1 DEF UploadState
<1>7. /\ h.file = "closed" /\ ~h.closing /\ h.completed /\ h.op = <<>> /\ h.id = id
      /\ h.resume = info[s].resume
  BY <1>0, <1>1, <1>4 DEF UploadState
<1>8. info'[s] = h
  BY <1>5
<1>9. ASSUME NEW t \in U!Sessions \ {s}
      PROVE  /\ info'[t] \in UploadState
             /\ info'[t].file = "temp" => info[t].id # id /\ info'[t] = info[t]
             /\ \/ info'[t] = info[t]
                \/ /\ \E to \in {"final", "gone"} : info'[t] = [info[t] EXCEPT !.file = to]
                   /\ info[t].id = id /\ info[t].file # "closed"
  <2>0. info[t] \in UploadState
    BY <1>0
  <2>1. PICK to : to = CASE info[t].file = "temp"  -> "final"
                         [] info[t].file = "final" -> "gone"
                         [] OTHER                  -> info[t].file
    OBVIOUS
  <2>2. info'[t] = IF info[t].id = id THEN [info[t] EXCEPT !.file = to] ELSE info[t]
    BY <1>5, <2>1
  <2>3. /\ to \in {"closed", "final", "gone"}
        /\ to = "closed" => info[t].file = "closed"
        /\ info[t].file = "closed" => to = "closed"
    <3>1. info[t].file \in {"closed", "temp", "final", "gone"}
      BY <2>0 DEF UploadState
    <3> QED BY <2>1, <3>1
  <2>4. [info[t] EXCEPT !.file = to] \in UploadState
    BY <2>0, <2>3 DEF UploadState
  <2>5. [info[t] EXCEPT !.file = to].file = to
    BY <2>0 DEF UploadState
  <2>6. to = "closed" => [info[t] EXCEPT !.file = to] = info[t]
    BY <2>0, <2>3 DEF UploadState
  <2> QED BY <2>0, <2>2, <2>3, <2>4, <2>5, <2>6
<1>10. info' \in [U!Sessions -> UploadState]
  <2>1. info' = [t \in U!Sessions |-> info'[t]]
    BY <1>5
  <2>2. \A t \in U!Sessions : info'[t] \in UploadState
    BY <1>6, <1>8, <1>9
  <2> QED BY <2>1, <2>2
<1>11. /\ temp' \in [U!Ids -> Seq(Nat)] /\ final' \in [U!Ids -> Seq(Nat)]
       /\ \A i \in U!Ids \ raced : IsBlocks(temp'[i], 0) /\ final'[i] \in {<<>>, U!Source}
  <2>1. <<>> \in Seq(Nat) /\ temp[id] \in Seq(Nat)
    BY <1>0, <1>2
  <2>2. IsBlocks(<<>>, 0)
    BY NoBlocks, UploadConstants DEF IsBlocks
  <2> QED BY <1>0, <1>2, <1>3, <1>5, <2>1, <2>2 DEF FilesOK
<1>12. PICK window \in Windows : U!Answer(s, [type |-> "uploaded", window |-> window])
  BY <1>5
<1>13. PICK answer : answer = [type |-> "uploaded", window |-> window]
  OBVIOUS
<1>14. /\ request' = [request EXCEPT ![s] = U!None]
       /\ reply' = IF s = client.session THEN answer ELSE reply
  BY <1>12, <1>13 DEF U!Answer
<1>15. /\ DOMAIN request' = U!Sessions /\ request'[s] = U!None
       /\ \A t \in U!Sessions \ {s} : request'[t] = request[t]
  BY <1>0, <1>14
<1>16. ReplyOK'
  <2>1. answer.type = "uploaded" /\ answer.window \in Nat
    BY <1>13, UploadConstants
  <2> QED BY <1>0, <1>14, <2>1 DEF ReplyOK
<1>17. UploadTypes'
  <2>1. \A t \in U!Sessions : RequestOK(request'[t])
    <3>1. RequestOK(U!None)
      BY DEF RequestOK, U!None
    <3>2. \A t \in U!Sessions : request'[t] \in {request[t], U!None}
      BY <1>15
    <3> QED BY <1>0, <3>1, <3>2
  <2> QED BY <1>0, <1>5, <1>10, <1>11, <1>15, <1>16, <2>1 DEF UploadTypes, RequestOK
<1>18. UploadOK(s)' /\ ~(U!Writes(s)')
  BY <1>2, <1>7, <1>8, <1>15 DEF UploadOK, U!Writes, U!None
<1>19. Sound(s)' => HandleOK(s)'
  <2>1. Sound(s)' => Sound(s)
    BY <1>0, <1>1, <1>7, <1>8 DEF Sound
  <2>2. Sound(s) => info[s].resume = FALSE
    BY <1>0, <1>2 DEF HandleOK, UploadState
  <2> QED BY <1>7, <1>8, <2>1, <2>2 DEF HandleOK
<1>20. UploadCallOK' /\ OneWriter'
       /\ \A t \in U!Sessions \ {s} : UploadOK(t)' /\ (Sound(t)' => HandleOK(t)')
  <2>1. \A t \in U!Sessions \ {s} :
            /\ request'[t] = request[t]
            /\ \/ info'[t] = info[t]
               \/ /\ \E to \in {"final", "gone"} : info'[t] = [info[t] EXCEPT !.file = to]
                  /\ U!Writes(s) /\ info[t].id = info[s].id /\ info[t].file # "closed"
            /\ info'[t].file = "temp" => info[t].id \in exists'
    <3>1. ASSUME NEW t \in U!Sessions \ {s}, info'[t].file = "temp" PROVE info[t].id \in exists'
      BY <1>0, <1>5, <1>9, <3>1 DEF UploadOK
    <3> QED BY <1>1, <1>2, <1>9, <1>15, <3>1
  <2>2. \/ reply' = reply /\ (s = client.session => request'[s] = request[s])
        \/ s = client.session /\ request[s] # U!None /\ request'[s] = U!None
    BY <1>2, <1>14, <1>15
  <2>3. info[s].id # 0 /\ info'[s].id = info[s].id /\ raced \subseteq raced'
    BY <1>0, <1>1, <1>2, <1>7, <1>8
  <2>4. \A i \in U!Ids : temp'[i] = temp[i] \/ (U!Writes(s) /\ i = info[s].id)
    BY <1>0, <1>1, <1>2, <1>5
  <2> QED BY <1>0, <1>15, <1>18, <2>1, <2>2, <2>3, <2>4, ServerSide
<1>21. FilesOK'
  BY <1>0, <1>11 DEF FilesOK
<1> QED BY <1>17, <1>18, <1>19, <1>20, <1>21 DEF UploadInv

(* Where another session has renamed the file, the upload is not sound.    *)
LEMMA RenameFailsStep ==
    ASSUME UploadInv, NEW s \in U!Sessions, U!RenameFails(s)
    PROVE  UploadInv'
<1>0. /\ UploadTypes /\ FilesOK /\ UploadOK(s) /\ (Sound(s) => HandleOK(s))
      /\ DOMAIN request = U!Sessions /\ info[s] \in UploadState
      /\ info \in [U!Sessions -> UploadState]
      /\ \A t \in U!Sessions : RequestOK(request[t]) /\ UploadOK(t)
      /\ info[s].closing /\ info[s].op = <<>> /\ info[s].id \notin exists
      /\ UNCHANGED <<client, temp, exists, final, known, raced>> /\ ReplyOK
  BY ServerFacts DEF U!RenameFails, U!files
<1>1. ~Sound(s) /\ U!Writes(s) /\ request[s] # U!None /\ info[s].id # 0
  BY <1>0 DEF HandleOK, UploadOK, U!Writes, U!None
<1>2. PICK h : h = [info[s] EXCEPT !.file = "closed", !.closing = FALSE]
  OBVIOUS
<1>3. h \in UploadState
  BY <1>0, <1>2 DEF UploadState
<1>4. h.file = "closed" /\ ~h.closing /\ h.op = <<>> /\ h.id = info[s].id
  BY <1>0, <1>2 DEF UploadState
<1>5. /\ info' \in [U!Sessions -> UploadState] /\ info'[s] = h
      /\ \A t \in U!Sessions \ {s} : info'[t] = info[t]
  <2>1. info' = [info EXCEPT ![s] = h]
    BY <1>0, <1>2 DEF U!RenameFails
  <2> QED BY <1>0, <1>3, <2>1
<1>6. PICK answer : answer = [type |-> "exception"]
  OBVIOUS
<1>7. /\ DOMAIN request' = U!Sessions /\ request'[s] = U!None
      /\ \A t \in U!Sessions \ {s} : request'[t] = request[t]
      /\ reply' = IF s = client.session THEN answer ELSE reply
  BY <1>0, <1>6 DEF U!RenameFails, U!Answer
<1>8. UploadTypes'
  <2>1. \A t \in U!Sessions : RequestOK(request'[t])
    BY <1>0, <1>7 DEF RequestOK, U!None
  <2>2. ReplyOK'
    BY <1>0, <1>6, <1>7 DEF ReplyOK
  <2> QED BY <1>0, <1>5, <1>7, <2>1, <2>2 DEF UploadTypes, RequestOK
<1>9. UploadOK(s)' /\ ~(Sound(s)') /\ ~(U!Writes(s)')
  BY <1>0, <1>1, <1>4, <1>5, <1>7 DEF UploadOK, Sound, U!Writes, U!None
<1>10. UploadCallOK' /\ OneWriter'
       /\ \A t \in U!Sessions \ {s} : UploadOK(t)' /\ (Sound(t)' => HandleOK(t)')
  <2>1. \/ reply' = reply /\ (s = client.session => request'[s] = request[s])
        \/ s = client.session /\ request[s] # U!None /\ request'[s] = U!None
    BY <1>1, <1>7
  <2>2. \A t \in U!Sessions \ {s} : info'[t].file = "temp" => info[t].id \in exists'
    BY <1>0, <1>5 DEF UploadOK
  <2>3. info'[s].id = info[s].id /\ raced \subseteq raced'
    BY <1>0, <1>4, <1>5
  <2> QED BY <1>0, <1>1, <1>5, <1>7, <1>9, <2>1, <2>2, <2>3, ServerSide
<1>11. FilesOK'
  BY <1>0 DEF FilesOK
<1> QED BY <1>8, <1>9, <1>10, <1>11 DEF UploadInv

(* The invariant holds at first. *)
LEMMA UploadBegins == U!Init => UploadInv
<1> SUFFICES ASSUME U!Init PROVE UploadInv
  OBVIOUS
<1>1. 1 \in U!Sessions /\ 0 \in 0 .. Size /\ 0 \in 0 .. MaxAttempts /\ <<>> \in Seq(Chunks)
      /\ <<>> \in Seq(Nat)
  BY UploadConstants DEF U!Sessions
<1>2. client \in UploaderState
  BY <1>1 DEF U!Init, UploaderState
<1>3. /\ client.pc = "idle" /\ client.session = 1 /\ client.pos = 0 /\ client.ahead = 0
      /\ client.filled = 0
  BY DEF U!Init
<1>4. U!Info(0, FALSE, 0) \in UploadState
  BY <1>1 DEF U!Info, UploadState
<1>5. info \in [U!Sessions -> UploadState] /\ \A s \in U!Sessions : info[s] = U!Info(0, FALSE, 0)
  BY <1>4 DEF U!Init
<1>6. \A s \in U!Sessions :
          /\ info[s].id = 0 /\ info[s].file = "closed" /\ info[s].op = <<>> /\ ~info[s].closing
  BY <1>5 DEF U!Info
<1>7. DOMAIN request = U!Sessions /\ \A s \in U!Sessions : request[s] = U!None
  BY DEF U!Init
<1>8. UploadTypes
  <2>1. \A s \in U!Sessions : RequestOK(request[s])
    BY <1>7 DEF RequestOK, U!None
  <2>2. reply.type = "none" /\ ReplyOK
    BY DEF U!Init, U!None, ReplyOK
  <2>3. /\ temp \in [U!Ids -> Seq(Nat)] /\ final \in [U!Ids -> Seq(Nat)]
        /\ known \subseteq U!Ids
    BY <1>1 DEF U!Init
  <2>4. client.pos + client.ahead <= Size /\ client.filled + client.ahead <= ChunkSize
    BY <1>3, UploadConstants
  <2> QED BY <1>2, <1>5, <1>7, <2>1, <2>2, <2>3, <2>4 DEF UploadTypes
<1>9. UploadCallOK
  <2>1. reply.type = "none"
    BY DEF U!Init, U!None
  <2> QED BY <1>1, <1>3, <1>6, <1>7, <2>1 DEF UploadCallOK
<1>10. \A s \in U!Sessions : UploadOK(s) /\ ~Sound(s)
  BY <1>6 DEF UploadOK, Sound, U!Ids
<1>11. OneWriter
  BY <1>10 DEF OneWriter
<1>12. FilesOK
  <2>1. IsBlocks(<<>>, 0)
    BY NoBlocks, UploadConstants DEF IsBlocks
  <2> QED BY <2>1 DEF U!Init, FilesOK
<1> QED BY <1>8, <1>9, <1>10, <1>11, <1>12 DEF UploadInv

(* Every step keeps it. *)
LEMMA UploadSteps == UploadInv /\ [U!Next]_(U!vars) => UploadInv'
<1> SUFFICES ASSUME UploadInv, [U!Next]_(U!vars) PROVE UploadInv'
  OBVIOUS
<1>1. CASE U!Next
  <2>1. ASSUME NEW s \in U!Sessions, U!Server(s) \/ U!IoTask(s) \/ U!SessionEnds(s) PROVE UploadInv'
    BY <2>1, BeginUploadStep, UploadChunksStep, UploadCompletedStep, RenameFailsStep, IoTaskStep,
       UploadSessionEnds DEF U!Server
  <2> QED BY <1>1, <2>1, UploadStarts, ClientReads, ClientBegins, ClientUploaded, ClientRefused,
             ClientReconnects DEF U!Next, U!Client
<1>2. CASE UNCHANGED U!vars
  <2>1. UNCHANGED <<client, request, reply, info, temp, exists, final, known, raced>>
    BY <1>2 DEF U!vars
  <2>2. /\ UploadTypes /\ UploadCallOK /\ OneWriter /\ FilesOK
        /\ \A s \in U!Sessions : UploadOK(s) /\ (Sound(s) => HandleOK(s))
    BY DEF UploadInv
  <2>3. UploadTypes' /\ UploadCallOK' /\ FilesOK'
    BY <2>1, <2>2 DEF UploadTypes, RequestOK, ReplyOK, UploadCallOK, FilesOK
  <2>4. OneWriter'
    BY <2>1, <2>2 DEF OneWriter, Sound, U!Writes
  <2>5. ASSUME NEW s \in U!Sessions PROVE UploadOK(s)' /\ (Sound(s)' => HandleOK(s)')
    BY <2>1, <2>2 DEF UploadOK, Sound, HandleOK, U!Writes
  <2> QED BY <2>3, <2>4, <2>5 DEF UploadInv
<1> QED BY <1>1, <1>2

(* What FileTransferService has completed is the client's file, however    *)
(* often the connection is lost and the upload is resumed, unless it was   *)
(* resumed while a session of it still wrote, or was to.                   *)
THEOREM UploadedIsIntact == U!Spec => []UploadIntact
<1>1. UploadInv /\ [U!Next]_(U!vars) => UploadInv'
  BY UploadSteps
<1>2. UploadInv => UploadIntact
  BY DEF UploadInv, FilesOK, UploadIntact, U!UploadIntact
<1> QED BY <1>1, <1>2, UploadBegins, PTL DEF U!Spec

-----------------------------------------------------------------------------
(* A download                                                              *)
-----------------------------------------------------------------------------
DownloaderState ==
    [pc : {"idle", "begin", "trim", "ask", "asked", "closing", "done"}, session : D!Sessions,
     attempts : 0 .. MaxAttempts, pos : Nat, used : Nat, wait : BOOLEAN, waited : BOOLEAN]

(* A handle of the client's file, and a session's download *)
HandleState == [append : BOOLEAN, at : Nat, op : Seq(Nat)]
DownloadState ==
    [open : {TRUE}, pos : Nat, resume : BOOLEAN, at : Nat, read : Seq(Nat), remaining : Seq(Nat),
     buffer : Nat, total : Nat, soFar : Nat]

DownRequestOK(r) ==
    /\ r.type \in {"none", "begin", "trim", "chunks"}
    /\ r.type = "none" => r = D!None
    /\ r.type = "trim" => r.pos \in Nat
    /\ r.type = "chunks" => r.pos \in Nat /\ r.size \in Nat /\ r.waited \in BOOLEAN

DownReplyOK(r) ==
    /\ r.type \in {"none", "begun", "trimmed", "chunk", "exception"}
    /\ r.type = "chunk" => r.data \in Seq(Nat) /\ r.wait \in BOOLEAN

DownTypes ==
    /\ client \in DownloaderState
    /\ DOMAIN request = D!Sessions /\ \A s \in D!Sessions : DownRequestOK(request[s])
    /\ DownReplyOK(reply)
    /\ DOMAIN info = D!Sessions
    /\ \A s \in D!Sessions : info[s] = D!NoDownload \/ info[s] \in DownloadState
    /\ handle \in [D!Attempts -> HandleState]
    /\ quota \in Nat

(* What the server has read and not sent *)
Ahead(h) == IF h.read # <<>> THEN h.read ELSE h.remaining
NoneAhead(h) == h.read = <<>> /\ h.remaining = <<>>

(* What is read ahead follows what has been sent. *)
SourceOK(h) ==
    /\ AreBlocks(Ahead(h), h.pos, Size)
    /\ IF h.pos = 0 \/ h.resume THEN NoneAhead(h) ELSE h.at = h.pos + Len(Ahead(h))

SourcesOK ==
    \A s \in D!Sessions :
        /\ info[s].open => SourceOK(info[s])
        /\ request[s].type = "trim" =>
               info[s].open /\ NoneAhead(info[s]) /\ request[s].pos <= Size

(* The client c waits for an answer to what it has sent, or has it. *)
Exchange(c, r, answer, h) ==
    /\ c.pc \in {"idle", "ask", "closing", "done"} => r.type = "none" /\ answer.type = "none"
    /\ answer.type # "none" => r.type = "none"
    /\ r.type = "begin" \/ answer.type = "begun" => c.pc = "begin"
    /\ r.type = "trim" \/ answer.type = "trimmed" => c.pc = "trim"
    /\ r.type = "chunks" \/ answer.type = "chunk" => c.pc = "asked"
    /\ answer.type = "begun" => h.open /\ NoneAhead(h)
    /\ r.type = "chunks" =>
           /\ r.pos = c.pos /\ c.pos + r.size <= Last
           /\ ClientQuota # 0 => c.used + r.size <= ClientQuota
    /\ answer.type = "chunk" =>
           /\ AreBlocks(answer.data, c.pos, Last)
           /\ ClientQuota # 0 => c.used + Len(answer.data) <= ClientQuota

AnswerOK ==
    /\ Exchange(client, request[client.session], reply, info[client.session])
    /\ ClientQuota # 0 => client.used <= ClientQuota
    /\ \A s \in D!Sessions : s > client.session => request[s] = D!None

(* The client c that writes with h asks for what follows n blocks of its *)
(* file and what is being written to it.                                  *)
StandsAtEnd(c, h, n) == (h.append \/ h.at = n) /\ c.pos = First + n + Len(h.op)

(* One handle at most has something to write, and writes it where the file *)
(* ends.                                                                   *)
WriterOK ==
    /\ AreBlocks(file, First, Last)
    /\ client.pc # "idle" => client.attempts > 0
    /\ \A a, b \in D!Attempts : handle[a].op # <<>> /\ handle[b].op # <<>> => a = b
    /\ \A a \in D!Attempts : handle[a].op # <<>> =>
           /\ handle[a].append \/ handle[a].at = Len(file)
           /\ AreBlocks(handle[a].op, First + Len(file), Last)
    /\ client.pc \in {"trim", "ask", "asked", "closing"} =>
           /\ \A a \in D!Attempts : handle[a].op # <<>> => a = client.attempts
           /\ StandsAtEnd(client, handle[client.attempts], Len(file))
    /\ client.pc = "closing" => client.pos = Last
    /\ client.pc = "done" => First + Len(file) = Last /\ \A a \in D!Attempts : handle[a].op = <<>>

DownloadInv == DownTypes /\ SourcesOK /\ AnswerOK /\ WriterOK

-----------------------------------------------------------------------------
(* Blocks that are read at once, and the parts of what is read ahead *)
LEMMA BlocksRead ==
    ASSUME NEW to \in Nat, NEW from \in Nat, NEW n \in Nat, from + n <= to
    PROVE  AreBlocks(D!Blocks(from, n), from, to) /\ Len(D!Blocks(from, n)) = n
BY DEF D!Blocks, AreBlocks

(* The first of a row of blocks are blocks from the same position on. *)
LEMMA FirstBlocks ==
    ASSUME NEW to \in Nat, NEW from \in Nat, NEW f, AreBlocks(f, from, to), NEW n \in 0 .. Len(f)
    PROVE  AreBlocks(SubSeq(f, 1, n), from, to) /\ Len(SubSeq(f, 1, n)) = n
<1>1. f \in Seq(Nat) /\ Len(f) \in Nat
  BY DEF AreBlocks
<1>2. PICK d : d = SubSeq(f, 1, n)
  OBVIOUS
<1>3. d \in Seq(Nat) /\ Len(d) = n /\ \A i \in 1 .. n : d[i] = f[i]
  BY <1>1, <1>2
<1>4. from + Len(f) <= to /\ \A i \in 1 .. Len(f) : f[i] = from + i
  BY DEF AreBlocks
<1>5. from + Len(d) <= to
  BY <1>1, <1>3, <1>4
<1>6. ASSUME NEW i \in 1 .. n PROVE d[i] = from + i
  <2>1. i \in 1 .. Len(f)
    BY <1>1
  <2> QED BY <1>3, <1>4, <2>1
<1> QED BY <1>2, <1>3, <1>5, <1>6 DEF AreBlocks

(* The others follow them. *)
LEMMA OtherBlocks ==
    ASSUME NEW to \in Nat, NEW from \in Nat, NEW f, AreBlocks(f, from, to), NEW n \in 0 .. Len(f)
    PROVE  /\ AreBlocks(SubSeq(f, n + 1, Len(f)), from + n, to)
           /\ Len(SubSeq(f, n + 1, Len(f))) = Len(f) - n
<1>1. f \in Seq(Nat) /\ Len(f) \in Nat
  BY DEF AreBlocks
<1>2. PICK d : d = SubSeq(f, n + 1, Len(f))
  OBVIOUS
<1>3. d \in Seq(Nat) /\ Len(d) = Len(f) - n /\ \A i \in 1 .. Len(f) - n : d[i] = f[n + i]
  <2>1. CASE n = Len(f)
    <3>1. d = <<>>
      BY <1>1, <1>2, <2>1
    <3> QED BY <1>1, <2>1, <3>1
  <2>2. CASE n < Len(f)
    BY <1>1, <1>2, <2>2
  <2> QED BY <1>1, <2>1, <2>2
<1>4. from + n + Len(d) <= to
  BY <1>1, <1>3 DEF AreBlocks
<1>5. ASSUME NEW i \in 1 .. Len(d) PROVE d[i] = from + n + i
  <2>1. n + i \in 1 .. Len(f) /\ d[i] = f[n + i]
    BY <1>1, <1>3
  <2>2. f[n + i] = from + (n + i)
    BY <2>1 DEF AreBlocks
  <2> QED BY <1>1, <2>1, <2>2
<1> QED BY <1>2, <1>3, <1>4, <1>5 DEF AreBlocks

(* The assumptions on the constants of a download *)
LEMMA DownloadConstants ==
    /\ Size \in Nat /\ First \in Nat /\ Last \in Nat /\ First < Last /\ Last <= Size
    /\ ChunkSize \in Nat \ {0} /\ Quotas \subseteq Nat /\ ClientQuota \in Nat
    /\ 2 ^ CountBits \in Nat \ {0} /\ MaxAttempts \in Nat /\ MaxFaults \in Nat
BY PartsAssumption DEF D!DownloadAssumption

(* A counter of a window is a number, also if it ran below zero. *)
LEMMA Counts == \A n \in Int : D!Count(n) \in Nat
BY DownloadConstants DEF D!Count

(* What the invariant says of the variables *)
LEMMA DownloadFacts ==
    ASSUME DownloadInv
    PROVE  /\ DownTypes /\ SourcesOK /\ AnswerOK /\ WriterOK
           /\ client \in DownloaderState /\ client.session \in D!Sessions
           /\ D!Sessions \subseteq Nat
           /\ client.pos \in Nat /\ client.used \in Nat
           /\ client.attempts \in 0 .. MaxAttempts
           /\ DOMAIN request = D!Sessions /\ (\A s \in D!Sessions : DownRequestOK(request[s]))
           /\ DownReplyOK(reply)
           /\ DOMAIN info = D!Sessions
           /\ (\A s \in D!Sessions : info[s] = D!NoDownload \/ info[s] \in DownloadState)
           /\ handle \in [D!Attempts -> HandleState]
           /\ (\A a \in D!Attempts : handle[a] \in HandleState)
           /\ quota \in Nat /\ file \in Seq(Nat)
BY DEF DownloadInv, DownTypes, DownloaderState, WriterOK, StandsAtEnd, AreBlocks, D!Sessions

(* While data are asked for, the client stands where its file will end. *)
LEMMA PlaceInFile ==
    ASSUME DownloadInv, client.pc \in {"trim", "ask", "asked", "closing"}
    PROVE  /\ client.attempts \in D!Attempts /\ client.pos \in First .. Last
           /\ handle[client.attempts] \in HandleState
<1>1. /\ WriterOK /\ client.attempts \in 0 .. MaxAttempts /\ file \in Seq(Nat)
      /\ client.pos \in Nat
      /\ \A a \in D!Attempts : handle[a] \in HandleState
  BY DownloadFacts
<1>2. client.attempts \in D!Attempts
  BY <1>1, DownloadConstants DEF WriterOK, StandsAtEnd, D!Attempts
<1>3. /\ client.pos = First + Len(file) + Len(handle[client.attempts].op)
      /\ First + Len(file) <= Last /\ Len(file) \in Nat
      /\ Len(handle[client.attempts].op) \in Nat
  BY <1>1, <1>2 DEF WriterOK, StandsAtEnd, AreBlocks, HandleState
<1>4. CASE handle[client.attempts].op = <<>>
  <2>1. Len(handle[client.attempts].op) = 0
    BY <1>4
  <2>2. client.pos = First + Len(file)
    BY <1>3, <2>1, DownloadConstants
  <2>3. client.pos >= First /\ client.pos <= Last
    <3>1. client.pos \in Nat /\ Len(file) \in Nat /\ First + Len(file) <= Last
      BY <1>1, <1>3
    <3>2. First \in Nat /\ Last \in Nat
      BY DownloadConstants
    <3>3. client.pos >= First
      BY <2>2, <3>1, <3>2
    <3> QED BY <2>2, <3>1, <3>2, <3>3
  <2>4. client.pos \in First .. Last
    BY <1>1, <2>3, DownloadConstants
  <2> QED BY <1>1, <1>2, <2>4
<1>5. CASE handle[client.attempts].op # <<>>
  <2>1. First + Len(file) + Len(handle[client.attempts].op) <= Last
    BY <1>1, <1>2, <1>5 DEF WriterOK, StandsAtEnd, AreBlocks
  <2>2. client.pos >= First /\ client.pos <= Last
    <3>1. /\ client.pos \in Nat /\ Len(file) \in Nat /\ Len(handle[client.attempts].op) \in Nat
          /\ client.pos = First + Len(file) + Len(handle[client.attempts].op)
      BY <1>1, <1>3
    <3>2. First \in Nat /\ Last \in Nat
      BY DownloadConstants
    <3>3. PICK n \in Nat, m \in Nat : n = Len(file) /\ m = Len(handle[client.attempts].op)
      BY <3>1
    <3>4. client.pos = First + n + m /\ First + n + m <= Last
      BY <2>1, <3>1, <3>3
    <3> QED BY <3>2, <3>4
  <2>3. client.pos \in First .. Last
    BY <1>1, <2>2, DownloadConstants
  <2> QED BY <1>1, <1>2, <2>3
<1> QED BY <1>4, <1>5

-----------------------------------------------------------------------------
(* The steps of the client *)

(* What the client does with its request leaves the server's part alone. *)
LEMMA ClientTypes ==
    ASSUME DownloadInv, UNCHANGED <<info, known, quota>>,
           client' \in DownloaderState, handle' \in [D!Attempts -> HandleState],
           reply' \in {reply, D!None},
           NEW r, DownRequestOK(r), NEW c \in D!Sessions,
           request' = [request EXCEPT ![c] = r],
           r.type = "trim" => info[c].open /\ NoneAhead(info[c]) /\ r.pos <= Size
    PROVE  /\ DownTypes' /\ SourcesOK'
           /\ DOMAIN request' = D!Sessions
           /\ \A s \in D!Sessions : request'[s] = IF s = c THEN r ELSE request[s]
<1>0. /\ DownTypes /\ SourcesOK /\ DOMAIN request = D!Sessions
      /\ \A s \in D!Sessions : DownRequestOK(request[s])
  BY DownloadFacts
<1>1. /\ DOMAIN request' = D!Sessions
      /\ \A s \in D!Sessions : request'[s] = IF s = c THEN r ELSE request[s]
  BY <1>0
<1>2. DownReplyOK(reply')
  BY <1>0 DEF DownTypes, DownReplyOK, D!None
<1>3. \A s \in D!Sessions : DownRequestOK(request'[s])
  BY <1>0, <1>1
<1>4. DownTypes'
  BY <1>0, <1>1, <1>2, <1>3 DEF DownTypes, DownRequestOK
<1>5. SourcesOK'
  BY <1>0, <1>1 DEF SourcesOK, SourceOK, NoneAhead, Ahead
<1> QED BY <1>1, <1>4, <1>5

(* Nor does it if nothing is sent. *)
LEMMA ClientTypesSame ==
    ASSUME DownloadInv, UNCHANGED <<request, info, known, quota>>,
           client' \in DownloaderState, handle' \in [D!Attempts -> HandleState],
           reply' \in {reply, D!None}
    PROVE  DownTypes' /\ SourcesOK'
<1>0. DownTypes /\ SourcesOK
  BY DownloadFacts
<1>1. DownReplyOK(reply')
  BY <1>0 DEF DownTypes, DownReplyOK, D!None
<1> QED BY <1>0, <1>1 DEF DownTypes, DownRequestOK, SourcesOK, SourceOK, NoneAhead, Ahead

(* A call of downloadFile() keeps the invariant. *)
LEMMA DownloadStarts == ASSUME DownloadInv, D!Download PROVE DownloadInv'
<1>0. /\ AnswerOK /\ WriterOK /\ client \in DownloaderState /\ client.session \in D!Sessions
      /\ handle \in [D!Attempts -> HandleState] /\ DownReplyOK(reply)
  BY DownloadFacts
<1>1. /\ client.pc = "idle" /\ client.attempts + 1 \in 0 .. MaxAttempts
      /\ client' = [client EXCEPT !.pc = "begin", !.attempts = client.attempts + 1]
      /\ UNCHANGED <<reply, info, handle, file, known, quota>>
  BY <1>0, DownloadConstants DEF D!Download, DownloaderState
<1>2. client' \in DownloaderState
  BY <1>0, <1>1 DEF DownloaderState
<1>3. /\ client'.pc = "begin" /\ client'.session = client.session /\ client'.pos = client.pos
      /\ client'.used = client.used /\ client'.attempts > 0
  BY <1>0, <1>1, DownloadConstants DEF DownloaderState
<1>4. PICK r : r = [type |-> "begin"]
  OBVIOUS
<1>5. DownRequestOK(r) /\ r.type = "begin"
  BY <1>4 DEF DownRequestOK
<1>6. request' = [request EXCEPT ![client.session] = r]
  BY <1>4 DEF D!Download, D!Send
<1>7. /\ DownTypes' /\ SourcesOK'
      /\ \A s \in D!Sessions : request'[s] = IF s = client.session THEN r ELSE request[s]
  BY <1>0, <1>1, <1>2, <1>5, <1>6, ClientTypes
<1>8. AnswerOK'
  <2>1. /\ request'[client'.session] = r /\ reply'.type = "none" /\ client'.used = client.used
        /\ client'.session = client.session
        /\ \A s \in D!Sessions : s > client.session => request'[s] = D!None
    <3>1. reply.type = "none" /\ \A s \in D!Sessions : s > client.session => request[s] = D!None
      BY <1>0, <1>1 DEF AnswerOK, Exchange
    <3> QED BY <1>0, <1>1, <1>3, <1>7, <3>1, DownloadFacts
  <2> QED BY <1>0, <1>3, <1>5, <2>1 DEF AnswerOK, Exchange
<1>9. WriterOK'
  BY <1>0, <1>1, <1>3 DEF WriterOK, StandsAtEnd
<1> QED BY <1>7, <1>8, <1>9 DEF DownloadInv

(* A step of the client that ends a wait, or none *)
LEMMA DownloadHasNone ==
    ASSUME DownloadInv, UNCHANGED info, reply' = D!None, reply.type # "none",
           request' = request, client'.session = client.session,
           ClientQuota # 0 => client'.used <= ClientQuota
    PROVE  AnswerOK'
<1>0. AnswerOK
  BY DownloadFacts
<1>1. request[client.session].type = "none" /\ reply'.type = "none"
  BY <1>0 DEF AnswerOK, Exchange, D!None
<1>2. \A s \in D!Sessions : s > client.session => request[s] = D!None
  BY <1>0 DEF AnswerOK, Exchange
<1> QED BY <1>1, <1>2 DEF AnswerOK, Exchange, D!None

(* The return of BeginDownload() keeps the invariant: the file is opened  *)
(* at its end, if nothing is still to be written.                         *)
LEMMA DownloadBegun ==
    ASSUME DownloadInv, \A a \in D!Attempts : handle[a].op = <<>>, D!Begun
    PROVE  DownloadInv'
<1>0. /\ AnswerOK /\ WriterOK /\ client \in DownloaderState /\ client.session \in D!Sessions
      /\ handle \in [D!Attempts -> HandleState] /\ client.attempts \in 0 .. MaxAttempts
      /\ file \in Seq(Nat) /\ AreBlocks(file, First, Last) /\ Len(file) \in Nat
      /\ First + Len(file) <= Last /\ D!Sessions \subseteq Nat
  <2>1. WriterOK /\ file \in Seq(Nat)
    BY DownloadFacts
  <2>2. AreBlocks(file, First, Last)
    BY <2>1 DEF WriterOK
  <2>3. Len(file) \in Nat /\ First + Len(file) <= Last
    BY <2>1, <2>2 DEF AreBlocks
  <2> QED BY <2>1, <2>2, <2>3, DownloadFacts
<1>1. /\ client.pc = "begin" /\ reply.type = "begun" /\ \A a \in D!Attempts : handle[a].op = <<>>
      /\ reply' = D!None /\ UNCHANGED <<info, known, quota>>
  BY DEF D!Begun
<1>2. PICK pos, append : pos = D!Smaller(First + Len(file), Last) /\ append = (Len(file) > 0)
  OBVIOUS
<1>3. pos = First + Len(file) /\ pos \in Nat /\ append \in BOOLEAN
  <2>1. PICK n \in Nat : n = Len(file)
    BY <1>0
  <2>2. First + n \in Nat /\ First + n <= Last
    BY <1>0, <2>1, DownloadConstants
  <2>3. D!Smaller(First + n, Last) = First + n
    BY <2>2, DownloadConstants DEF D!Smaller
  <2> QED BY <1>2, <2>1, <2>2, <2>3
<1>4. IF pos = Last
        THEN /\ client' = [client EXCEPT !.pc = "done"]
             /\ UNCHANGED <<request, handle, file>>
        ELSE /\ client' = [client EXCEPT !.pc = IF pos > 0 THEN "trim" ELSE "ask", !.pos = pos,
                                         !.used = 0, !.wait = FALSE, !.waited = FALSE]
             /\ IF pos > 0 THEN D!Send([type |-> "trim", pos |-> pos]) ELSE UNCHANGED request
             /\ handle' = [handle EXCEPT ![client.attempts] =
                    [append |-> append, at |-> Len(file), op |-> <<>>]]
             /\ file' = IF append THEN file ELSE <<>>
  BY <1>2 DEF D!Begun
<1>5. /\ client.attempts \in D!Attempts /\ reply.type # "none"
      /\ info[client.session].open /\ NoneAhead(info[client.session])
      /\ \A s \in D!Sessions : s > client.session => request[s] = D!None
  <2>1. client.attempts \in D!Attempts
    BY <1>0, <1>1, DownloadConstants DEF WriterOK, D!Attempts
  <2>2. /\ info[client.session].open /\ NoneAhead(info[client.session])
        /\ \A s \in D!Sessions : s > client.session => request[s] = D!None
    BY <1>0, <1>1 DEF AnswerOK, Exchange
  <2> QED BY <1>1, <2>1, <2>2
<1>6. CASE pos = Last
  <2>1. client' = [client EXCEPT !.pc = "done"] /\ UNCHANGED <<request, handle, file>>
    BY <1>4, <1>6
  <2>2. client' \in DownloaderState
    BY <1>0, <2>1 DEF DownloaderState
  <2>3. /\ client'.pc = "done" /\ client'.session = client.session
        /\ client'.used = client.used /\ client'.attempts = client.attempts
    BY <1>0, <2>1 DEF DownloaderState
  <2>4. DownTypes' /\ SourcesOK'
    BY <1>0, <1>1, <2>1, <2>2, ClientTypesSame
  <2>5. AnswerOK'
    BY <1>0, <1>1, <1>5, <2>1, <2>3, DownloadHasNone DEF AnswerOK, Exchange
  <2>6. WriterOK'
    BY <1>0, <1>1, <1>3, <1>6, <2>1, <2>3 DEF WriterOK, StandsAtEnd
  <2> QED BY <2>4, <2>5, <2>6 DEF DownloadInv
<1>7. CASE pos # Last
  <2>1. PICK pc : pc = IF pos > 0 THEN "trim" ELSE "ask"
    OBVIOUS
  <2>2. /\ client' = [client EXCEPT !.pc = pc, !.pos = pos, !.used = 0, !.wait = FALSE,
                                    !.waited = FALSE]
        /\ IF pos > 0 THEN D!Send([type |-> "trim", pos |-> pos]) ELSE UNCHANGED request
        /\ handle' = [handle EXCEPT ![client.attempts] =
               [append |-> append, at |-> Len(file), op |-> <<>>]]
        /\ file' = IF append THEN file ELSE <<>>
    BY <1>4, <1>7, <2>1
  <2>3. file' = file
    <3>1. CASE append
      BY <2>2, <3>1
    <3>2. CASE ~append
      <4>1. ~(Len(file) > 0)
        BY <1>2, <3>2
      <4>2. file = <<>>
        BY <1>0, <4>1
      <4> QED BY <2>2, <3>2, <4>2
    <3> QED BY <1>3, <3>1, <3>2
  <2>4. client' \in DownloaderState
    <3>1. pc \in {"trim", "ask"}
      BY <2>1
    <3> QED BY <1>0, <1>3, <2>2, <3>1 DEF DownloaderState
  <2>5. /\ client'.pc = pc /\ client'.pos = pos /\ client'.used = 0
        /\ client'.session = client.session /\ client'.attempts = client.attempts
    BY <1>0, <2>2 DEF DownloaderState
  <2>6. PICK h : h = [append |-> append, at |-> Len(file), op |-> <<>>]
    OBVIOUS
  <2>7. h \in HandleState /\ h.at = Len(file) /\ h.op = <<>> /\ Len(h.op) = 0
    <3>1. <<>> \in Seq(Nat)
      OBVIOUS
    <3> QED BY <1>0, <1>3, <2>6, <3>1 DEF HandleState
  <2>8. /\ handle' \in [D!Attempts -> HandleState] /\ handle'[client.attempts] = h
        /\ \A a \in D!Attempts : handle'[a].op = <<>>
    BY <1>0, <1>1, <1>5, <2>2, <2>6, <2>7
  <2>9. WriterOK'
    <3>1. client'.pos = First + Len(file) + Len(h.op)
      BY <1>0, <1>3, <2>5, <2>7, DownloadConstants
    <3>2. pc \in {"trim", "ask"} /\ client'.attempts > 0
      BY <1>0, <1>1, <2>1, <2>5 DEF WriterOK, StandsAtEnd
    <3> QED BY <1>0, <2>3, <2>5, <2>7, <2>8, <3>1, <3>2 DEF WriterOK, StandsAtEnd
  <2>10. CASE pos > 0
    <3>1. PICK r : r = [type |-> "trim", pos |-> pos]
      OBVIOUS
    <3>2. DownRequestOK(r) /\ r.type = "trim" /\ r.pos = pos /\ r.pos <= Size
      BY <1>0, <1>3, <3>1, DownloadConstants DEF DownRequestOK
    <3>3. request' = [request EXCEPT ![client.session] = r]
      BY <2>2, <2>10, <3>1 DEF D!Send
    <3>4. /\ DownTypes' /\ SourcesOK'
          /\ \A s \in D!Sessions : request'[s] = IF s = client.session THEN r ELSE request[s]
      BY <1>0, <1>1, <1>5, <2>4, <2>8, <3>2, <3>3, ClientTypes
    <3>5. /\ request'[client'.session] = r /\ reply'.type = "none" /\ client'.pc = "trim"
          /\ \A s \in D!Sessions : s > client'.session => request'[s] = D!None
      <4>1. client'.session = client.session /\ client'.pc = "trim" /\ reply'.type = "none"
        BY <1>1, <2>1, <2>5, <2>10 DEF D!None
      <4>2. client.session \in Nat /\ \A s \in D!Sessions : s \in Nat
        BY <1>0, DownloadConstants DEF D!Sessions
      <4>3. \A s \in D!Sessions : s > client.session => s # client.session
        BY <4>2
      <4> QED BY <1>0, <1>5, <3>4, <4>1, <4>3
    <3>6. AnswerOK'
      BY <2>5, <3>2, <3>5, DownloadConstants DEF AnswerOK, Exchange
    <3> QED BY <2>9, <3>4, <3>6 DEF DownloadInv
  <2>11. CASE ~(pos > 0)
    <3>1. request' = request
      BY <2>2, <2>11
    <3>2. DownTypes' /\ SourcesOK'
      BY <1>1, <2>4, <2>8, <3>1, ClientTypesSame
    <3>3. AnswerOK'
      BY <1>1, <1>5, <2>5, <3>1, DownloadHasNone, DownloadConstants
    <3> QED BY <2>9, <3>2, <3>3 DEF DownloadInv
  <2> QED BY <2>10, <2>11
<1> QED BY <1>6, <1>7

(* A step of the client that leaves its place and its file alone *)
LEMMA DownloadGoesOn ==
    ASSUME DownloadInv, UNCHANGED <<request, info, handle, file, known, quota>>,
           reply.type # "none" /\ reply' = D!None,
           client' \in DownloaderState, client'.session = client.session,
           client'.used = client.used, client'.attempts = client.attempts,
           client'.pos = client.pos,
           client'.pc = "idle" \/ (client.pc = "trim" /\ client'.pc = "ask")
    PROVE  DownloadInv'
<1>0. AnswerOK /\ WriterOK /\ handle \in [D!Attempts -> HandleState]
  BY DownloadFacts
<1>1. DownTypes' /\ SourcesOK'
  BY <1>0, ClientTypesSame
<1>2. AnswerOK'
  BY <1>0, DownloadHasNone DEF AnswerOK, Exchange
<1>3. WriterOK'
  BY <1>0 DEF WriterOK, StandsAtEnd
<1> QED BY <1>1, <1>2, <1>3 DEF DownloadInv

(* The return of TrimDownload() keeps the invariant. *)
LEMMA DownloadTrimmed == ASSUME DownloadInv, D!Trimmed PROVE DownloadInv'
<1>0. client \in DownloaderState
  BY DownloadFacts
<1>1. client' \in DownloaderState
  BY <1>0 DEF D!Trimmed, DownloaderState
<1>2. /\ client'.pc = "ask" /\ client'.session = client.session /\ client'.used = client.used
      /\ client'.attempts = client.attempts /\ client'.pos = client.pos
  BY <1>0 DEF D!Trimmed, DownloaderState
<1> QED BY <1>1, <1>2, DownloadGoesOn DEF D!Trimmed

(* An exception keeps the invariant. *)
LEMMA DownloadRefused == ASSUME DownloadInv, D!Refused PROVE DownloadInv'
<1>0. client \in DownloaderState
  BY DownloadFacts
<1>1. client' \in DownloaderState
  BY <1>0 DEF D!Refused, DownloaderState
<1>2. /\ client'.pc = "idle" /\ client'.session = client.session /\ client'.used = client.used
      /\ client'.attempts = client.attempts /\ client'.pos = client.pos
  BY <1>0 DEF D!Refused, DownloaderState
<1> QED BY <1>1, <1>2, DownloadGoesOn DEF D!Refused

(* A lost connection keeps the invariant. *)
LEMMA DownloadLost == ASSUME DownloadInv, D!ConnectionLost PROVE DownloadInv'
<1>0. /\ AnswerOK /\ WriterOK /\ client \in DownloaderState /\ client.session \in D!Sessions
      /\ handle \in [D!Attempts -> HandleState] /\ D!Sessions \subseteq Nat
      /\ client.session \in Nat
  BY DownloadFacts
<1>1. /\ client' = [client EXCEPT !.pc = "idle", !.session = client.session + 1]
      /\ client.session + 1 \in D!Sessions /\ reply' = D!None
      /\ UNCHANGED <<request, info, handle, file, known, quota>>
  BY <1>0, DownloadConstants DEF D!ConnectionLost, D!Sessions
<1>2. client' \in DownloaderState
  BY <1>0, <1>1 DEF DownloaderState
<1>3. /\ client'.pc = "idle" /\ client'.session = client.session + 1
      /\ client'.used = client.used /\ client'.attempts = client.attempts
  BY <1>0, <1>1 DEF DownloaderState
<1>4. DownTypes' /\ SourcesOK'
  BY <1>0, <1>1, <1>2, ClientTypesSame
<1>5. AnswerOK'
  <2>1. \A s \in D!Sessions : s > client.session => request[s] = D!None
    BY <1>0 DEF AnswerOK, Exchange
  <2>2. request[client.session + 1].type = "none" /\ reply'.type = "none"
    BY <1>0, <1>1, <2>1 DEF D!None
  <2>3. \A s \in D!Sessions : s > client.session + 1 => request[s] = D!None
    BY <1>0, <2>1
  <2> QED BY <1>0, <1>1, <1>3, <2>2, <2>3 DEF AnswerOK, Exchange, D!None
<1>6. WriterOK'
  BY <1>0, <1>1, <1>3 DEF WriterOK, StandsAtEnd
<1> QED BY <1>4, <1>5, <1>6 DEF DownloadInv

(* A round trip asks for no more than the file and the window of the      *)
(* client have.                                                           *)
LEMMA DownloadAsks == ASSUME DownloadInv, D!Ask PROVE DownloadInv'
<1>0. /\ AnswerOK /\ WriterOK /\ client \in DownloaderState /\ client.session \in D!Sessions
      /\ handle \in [D!Attempts -> HandleState] /\ client.pos \in Nat /\ client.used \in Nat
      /\ client.pc = "ask" /\ UNCHANGED <<reply, info, handle, file, known, quota>>
  BY DownloadFacts DEF D!Ask
<1>1. client.pos \in First .. Last
  BY <1>0, PlaceInFile
<1>2. PICK expired \in BOOLEAN :
          LET used == IF expired THEN 0 ELSE client.used
              wanted == D!Smaller(ChunkSize, Last - client.pos)
              size == IF ClientQuota = 0 THEN wanted ELSE D!Smaller(wanted, ClientQuota - used)
          IN  /\ D!Send([type |-> "chunks", pos |-> client.pos, size |-> size,
                         waited |-> client.waited])
              /\ client' = [client EXCEPT !.pc = "asked", !.used = used, !.wait = size < wanted]
  BY DEF D!Ask
<1>3. PICK used, wanted : used = (IF expired THEN 0 ELSE client.used)
                          /\ wanted = D!Smaller(ChunkSize, Last - client.pos)
  OBVIOUS
<1>4. PICK size : size = IF ClientQuota = 0 THEN wanted ELSE D!Smaller(wanted, ClientQuota - used)
  OBVIOUS
<1>5. PICK wait \in BOOLEAN : wait <=> size < wanted
  OBVIOUS
<1>6. /\ D!Send([type |-> "chunks", pos |-> client.pos, size |-> size, waited |-> client.waited])
      /\ client' = [client EXCEPT !.pc = "asked", !.used = used, !.wait = wait]
  <2>1. (size < wanted) = wait
    BY <1>5
  <2> QED BY <1>2, <1>3, <1>4, <2>1
<1>7. used \in Nat /\ (ClientQuota # 0 => used <= ClientQuota)
  BY <1>0, <1>3, DownloadConstants DEF AnswerOK, Exchange
<1>8. /\ wanted \in Nat /\ size \in Nat /\ client.pos + size <= Last
      /\ ClientQuota # 0 => used + size <= ClientQuota
  <2>1. wanted \in Nat /\ client.pos + wanted <= Last
    BY <1>1, <1>3, DownloadConstants DEF D!Smaller
  <2> QED BY <1>0, <1>4, <1>7, <2>1, DownloadConstants DEF D!Smaller
<1>9. client' \in DownloaderState
  BY <1>0, <1>6, <1>7 DEF DownloaderState
<1>10. /\ client'.pc = "asked" /\ client'.session = client.session /\ client'.used = used
       /\ client'.attempts = client.attempts /\ client'.pos = client.pos
       /\ client.waited \in BOOLEAN
  BY <1>0, <1>6 DEF DownloaderState
<1>11. PICK r : r = [type |-> "chunks", pos |-> client.pos, size |-> size,
                      waited |-> client.waited]
  OBVIOUS
<1>12. DownRequestOK(r) /\ r.type = "chunks" /\ r.pos = client.pos /\ r.size = size
  BY <1>0, <1>8, <1>10, <1>11 DEF DownRequestOK
<1>13. request' = [request EXCEPT ![client.session] = r]
  BY <1>6, <1>11 DEF D!Send
<1>14. /\ DownTypes' /\ SourcesOK'
       /\ \A s \in D!Sessions : request'[s] = IF s = client.session THEN r ELSE request[s]
  BY <1>0, <1>9, <1>12, <1>13, ClientTypes
<1>15. AnswerOK'
  <2>1. /\ reply'.type = "none" /\ request'[client'.session] = r
        /\ \A s \in D!Sessions : s > client'.session => request'[s] = D!None
    <3>1. reply.type = "none" /\ \A s \in D!Sessions : s > client.session => request[s] = D!None
      BY <1>0 DEF AnswerOK, Exchange
    <3> QED BY <1>0, <1>10, <1>14, <3>1, DownloadFacts
  <2> QED BY <1>7, <1>8, <1>10, <1>12, <2>1 DEF AnswerOK, Exchange
<1>16. WriterOK'
  BY <1>0, <1>10 DEF WriterOK, StandsAtEnd
<1> QED BY <1>14, <1>15, <1>16 DEF DownloadInv

(* The return of DownloadChunks() keeps the invariant: what came is to be *)
(* written.                                                               *)
LEMMA DownloadReceived == ASSUME DownloadInv, D!Received PROVE DownloadInv'
<1>0. /\ AnswerOK /\ WriterOK /\ client \in DownloaderState /\ client.session \in D!Sessions
      /\ handle \in [D!Attempts -> HandleState] /\ client.attempts \in 0 .. MaxAttempts
      /\ file \in Seq(Nat) /\ client.pos \in Nat /\ client.used \in Nat /\ DownReplyOK(reply)
  BY DownloadFacts
<1>1. /\ client.pc = "asked" /\ reply.type = "chunk" /\ handle[client.attempts].op = <<>>
      /\ handle' = [handle EXCEPT ![client.attempts].op = reply.data]
      /\ reply' = D!None /\ UNCHANGED <<request, info, file, known, quota>>
  BY DEF D!Received
<1>2. PICK data, wait : data = reply.data /\ wait = reply.wait
  OBVIOUS
<1>3. data \in Seq(Nat) /\ wait \in BOOLEAN /\ Len(data) \in Nat
  BY <1>0, <1>1, <1>2 DEF DownReplyOK
<1>4. PICK pos \in Nat, used \in Nat : /\ pos = client.pos + Len(data)
                                       /\ used = client.used + Len(data)
  <2>1. client.pos + Len(data) \in Nat /\ client.used + Len(data) \in Nat
    BY <1>0, <1>3
  <2> QED BY <2>1
<1>5. PICK pc : pc = IF pos = Last THEN "closing" ELSE "ask"
  OBVIOUS
<1>6. pc \in {"closing", "ask"} /\ (pc = "closing" => pos = Last)
  BY <1>5
<1>7. client' = [client EXCEPT !.pc = pc, !.pos = pos, !.used = used, !.waited = wait]
  BY <1>2, <1>4, <1>5 DEF D!Received
<1>8. client' \in DownloaderState
  BY <1>0, <1>3, <1>6, <1>7 DEF DownloaderState
<1>9. /\ client'.pc = pc /\ client'.session = client.session /\ client'.used = used
      /\ client'.attempts = client.attempts /\ client'.pos = pos
  BY <1>0, <1>7 DEF DownloaderState
<1>10. /\ client.attempts \in D!Attempts /\ handle[client.attempts] \in HandleState
  BY <1>1, PlaceInFile
<1>11. PICK h : h = [handle[client.attempts] EXCEPT !.op = data]
  OBVIOUS
<1>12. h \in HandleState /\ h.op = data /\ h.append = handle[client.attempts].append
       /\ h.at = handle[client.attempts].at
  BY <1>3, <1>10, <1>11 DEF HandleState
<1>13. /\ handle' \in [D!Attempts -> HandleState]
       /\ \A a \in D!Attempts : handle'[a] = IF a = client.attempts THEN h ELSE handle[a]
  BY <1>0, <1>1, <1>2, <1>10, <1>11, <1>12
<1>14. DownTypes' /\ SourcesOK'
  BY <1>1, <1>8, <1>13, ClientTypesSame
<1>15. AnswerOK'
  <2>1. ClientQuota # 0 => used <= ClientQuota
    BY <1>0, <1>1, <1>2, <1>4 DEF AnswerOK, Exchange
  <2> QED BY <1>1, <1>9, <2>1, DownloadHasNone
<1>16. /\ AreBlocks(data, client.pos, Last) /\ AreBlocks(file, First, Last)
       /\ StandsAtEnd(client, handle[client.attempts], Len(file))
       /\ \A a \in D!Attempts : handle[a].op # <<>> => a = client.attempts
  BY <1>0, <1>1, <1>2 DEF AnswerOK, Exchange, WriterOK
<1>17. Len(file) \in Nat /\ client.pos = First + Len(file)
  <2>1. /\ client.pos = First + Len(file) + Len(handle[client.attempts].op)
        /\ Len(handle[client.attempts].op) = 0
    BY <1>1, <1>16 DEF StandsAtEnd
  <2>2. Len(file) \in Nat
    BY <1>0
  <2> QED BY <2>1, <2>2, DownloadConstants
<1>18. StandsAtEnd(client', h, Len(file))
  <2>1. h.append \/ h.at = Len(file)
    BY <1>12, <1>16 DEF StandsAtEnd
  <2>2. client'.pos = First + Len(file) + Len(h.op)
    BY <1>4, <1>9, <1>12, <1>17
  <2> QED BY <2>1, <2>2 DEF StandsAtEnd
<1>19. \A a \in D!Attempts : handle'[a].op # <<>> => a = client.attempts
  BY <1>13, <1>16
<1>20. h.append \/ h.at = Len(file)
  BY <1>18 DEF StandsAtEnd
<1>21. AreBlocks(h.op, First + Len(file), Last)
  BY <1>12, <1>16, <1>17
<1>22. WriterOK'
  <2>1. \A a \in D!Attempts : handle'[a].op # <<>> => handle'[a] = h
    BY <1>13, <1>19
  <2>2. client'.attempts > 0 /\ handle'[client'.attempts] = h /\ file' = file
    BY <1>0, <1>1, <1>9, <1>10, <1>13 DEF WriterOK
  <2>3. client'.pc = "closing" => client'.pos = Last
    BY <1>6, <1>9
  <2>4. client'.pc # "done"
    BY <1>6, <1>9
  <2> QED BY <1>9, <1>16, <1>18, <1>19, <1>20, <1>21, <2>1, <2>2, <2>3, <2>4 DEF WriterOK
<1> QED BY <1>14, <1>15, <1>22 DEF DownloadInv

(* A file is complete when the last write has ended. *)
LEMMA DownloadCloses == ASSUME DownloadInv, D!Close PROVE DownloadInv'
<1>0. /\ AnswerOK /\ WriterOK /\ client \in DownloaderState /\ client.session \in D!Sessions
      /\ handle \in [D!Attempts -> HandleState] /\ file \in Seq(Nat)
  BY DownloadFacts
<1>1. /\ client.pc = "closing" /\ handle[client.attempts].op = <<>>
      /\ client' = [client EXCEPT !.pc = "done"]
      /\ UNCHANGED <<request, reply, info, handle, file, known, quota>>
  BY DEF D!Close
<1>2. client' \in DownloaderState
  BY <1>0, <1>1 DEF DownloaderState
<1>3. /\ client'.pc = "done" /\ client'.session = client.session /\ client'.used = client.used
      /\ client'.attempts = client.attempts
  BY <1>0, <1>1 DEF DownloaderState
<1>4. DownTypes' /\ SourcesOK'
  BY <1>0, <1>1, <1>2, ClientTypesSame
<1>5. AnswerOK'
  <2>1. request[client.session].type = "none" /\ reply.type = "none"
    BY <1>0, <1>1 DEF AnswerOK, Exchange
  <2> QED BY <1>0, <1>1, <1>3, <2>1 DEF AnswerOK, Exchange
<1>6. /\ client.pos = Last /\ StandsAtEnd(client, handle[client.attempts], Len(file))
      /\ \A a \in D!Attempts : handle[a].op # <<>> => a = client.attempts
  BY <1>0, <1>1 DEF WriterOK
<1>7. First + Len(file) = Last
  <2>1. /\ client.pos = First + Len(file) + Len(handle[client.attempts].op)
        /\ Len(handle[client.attempts].op) = 0
    BY <1>1, <1>6 DEF StandsAtEnd
  <2>2. Len(file) \in Nat
    BY <1>0
  <2> QED BY <1>6, <2>1, <2>2, DownloadConstants
<1>8. \A a \in D!Attempts : handle[a].op = <<>>
  BY <1>1, <1>6
<1>9. WriterOK'
  BY <1>0, <1>1, <1>3, <1>7, <1>8 DEF WriterOK
<1> QED BY <1>4, <1>5, <1>9 DEF DownloadInv

(* A thread of the client's pool writes what it was given where the file ends. *)
LEMMA DownloadWritten ==
    ASSUME DownloadInv, NEW a \in D!Attempts, D!IoTask(a)
    PROVE  DownloadInv'
<1>0. /\ AnswerOK /\ WriterOK /\ client \in DownloaderState /\ client.session \in D!Sessions
      /\ handle \in [D!Attempts -> HandleState] /\ handle[a] \in HandleState /\ file \in Seq(Nat)
  BY DownloadFacts
<1>1. handle[a].op # <<>> /\ UNCHANGED <<client, request, reply, info, known, quota>>
  BY DEF D!IoTask
<1>2. /\ handle[a].append \/ handle[a].at = Len(file)
      /\ AreBlocks(handle[a].op, First + Len(file), Last) /\ AreBlocks(file, First, Last)
  BY <1>0, <1>1 DEF WriterOK
<1>3. PICK op, n : op = handle[a].op /\ n = Len(file)
  OBVIOUS
<1>4. op \in Seq(Nat) /\ n \in Nat /\ Len(op) \in Nat
  BY <1>0, <1>3 DEF HandleState
<1>5. /\ file' = SubSeq(file, 1, n) \o op \o SubSeq(file, n + Len(op) + 1, Len(file))
      /\ handle' = [handle EXCEPT ![a].op = <<>>, ![a].at = n + Len(op)]
  <2>1. n = IF handle[a].append THEN Len(file) ELSE handle[a].at
    BY <1>2, <1>3
  <2> QED BY <1>3, <2>1 DEF D!IoTask
<1>6. file' = file \o op
  BY <1>0, <1>3, <1>4, <1>5, WrittenAtEnd
<1>7. AreBlocks(file', First, Last) /\ Len(file') = n + Len(op)
  BY <1>2, <1>3, <1>6, JoinedBlocks, DownloadConstants
<1>8. PICK h : h = [handle[a] EXCEPT !.op = <<>>, !.at = n + Len(op)]
  OBVIOUS
<1>9. h \in HandleState /\ h.op = <<>> /\ h.at = n + Len(op) /\ Len(h.op) = 0
  <2>1. <<>> \in Seq(Nat) /\ n + Len(op) \in Nat
    BY <1>4
  <2>2. PICK m : m = n + Len(op)
    OBVIOUS
  <2> QED BY <1>0, <1>8, <2>1, <2>2 DEF HandleState
<1>10. /\ handle' \in [D!Attempts -> HandleState]
       /\ \A b \in D!Attempts : handle'[b] = IF b = a THEN h ELSE handle[b]
  BY <1>0, <1>5, <1>8, <1>9
<1>11. \A b \in D!Attempts : handle'[b].op = <<>>
  BY <1>0, <1>1, <1>9, <1>10 DEF WriterOK
<1>12. DownTypes' /\ SourcesOK'
  BY <1>0, <1>1, <1>10, ClientTypesSame
<1>13. AnswerOK'
  BY <1>0, <1>1 DEF AnswerOK, Exchange
<1>14. client.pc # "done"
  BY <1>0, <1>1 DEF WriterOK
<1>15. ASSUME client.pc \in {"trim", "ask", "asked", "closing"}
       PROVE  StandsAtEnd(client, handle'[client.attempts], Len(file'))
  <2>1. client.attempts = a /\ client.pos = First + Len(file) + Len(handle[a].op)
    BY <1>0, <1>1, <1>15 DEF WriterOK, StandsAtEnd
  <2>2. handle'[client.attempts] = h /\ client.pos = First + n + Len(op)
    BY <1>3, <1>10, <2>1
  <2>3. First + n + Len(op) = First + (n + Len(op)) + 0
    BY <1>4, DownloadConstants
  <2>4. client.pos = First + Len(file') + Len(h.op)
    BY <1>7, <1>9, <2>2, <2>3
  <2> QED BY <1>7, <1>9, <2>2, <2>4 DEF StandsAtEnd
<1>16. WriterOK'
  BY <1>0, <1>1, <1>7, <1>11, <1>14, <1>15 DEF WriterOK
<1> QED BY <1>12, <1>13, <1>16 DEF DownloadInv

-----------------------------------------------------------------------------
(* The steps of the server *)

(* What a session does with the request it has leaves the client's part    *)
(* alone; the answer is what the client waits for.                         *)
LEMMA SessionSteps ==
    ASSUME DownloadInv, UNCHANGED <<client, handle, file, quota>>, NEW s \in D!Sessions,
           NEW i, i = D!NoDownload \/ i \in DownloadState, i.open => SourceOK(i),
           DOMAIN info' = D!Sessions,
           \A t \in D!Sessions : info'[t] = IF t = s THEN i ELSE info[t],
           NEW answer, DownReplyOK(answer), D!Answer(s, answer),
           s = client.session => Exchange(client, D!None, answer, i)
    PROVE  DownloadInv'
<1>0. /\ DownTypes /\ SourcesOK /\ AnswerOK /\ WriterOK /\ client.session \in D!Sessions
      /\ DOMAIN request = D!Sessions /\ (\A t \in D!Sessions : DownRequestOK(request[t]))
      /\ DownReplyOK(reply)
      /\ \A t \in D!Sessions : info[t] = D!NoDownload \/ info[t] \in DownloadState
  BY DownloadFacts
<1>1. /\ DOMAIN request' = D!Sessions
      /\ \A t \in D!Sessions : request'[t] = IF t = s THEN D!None ELSE request[t]
      /\ reply' = IF s = client.session THEN answer ELSE reply
  BY <1>0 DEF D!Answer
<1>2. DownRequestOK(D!None) /\ D!None.type = "none"
  BY DEF DownRequestOK, D!None
<1>3. DownTypes'
  <2>1. \A t \in D!Sessions : DownRequestOK(request'[t])
    BY <1>0, <1>1, <1>2
  <2>2. DownReplyOK(reply')
    BY <1>0, <1>1
  <2>3. \A t \in D!Sessions : info'[t] = D!NoDownload \/ info'[t] \in DownloadState
    BY <1>0
  <2> QED BY <1>0, <1>1, <2>1, <2>2, <2>3 DEF DownTypes
<1>4. SourcesOK'
  BY <1>0, <1>1, <1>2 DEF SourcesOK
<1>5. AnswerOK'
  <2>1. Exchange(client, request'[client.session], reply', info'[client.session])
    BY <1>0, <1>1 DEF AnswerOK
  <2>2. \A t \in D!Sessions : t > client.session => request'[t] = D!None
    BY <1>0, <1>1 DEF AnswerOK
  <2> QED BY <1>0, <2>1, <2>2 DEF AnswerOK
<1>6. WriterOK'
  BY <1>0 DEF WriterOK
<1> QED BY <1>3, <1>4, <1>5, <1>6 DEF DownloadInv

(* BeginDownload() keeps the invariant: nothing has been sent or read ahead. *)
LEMMA DownloadBegins ==
    ASSUME DownloadInv, NEW s \in D!Sessions, D!BeginDownload(s)
    PROVE  DownloadInv'
<1>0. /\ AnswerOK /\ SourcesOK /\ DOMAIN info = D!Sessions /\ request[s].type = "begin"
      /\ (\A t \in D!Sessions : info[t] = D!NoDownload \/ info[t] \in DownloadState)
      /\ UNCHANGED <<client, handle, file, quota>>
  BY DownloadFacts DEF D!BeginDownload
<1>1. s = client.session => client.pc = "begin"
  BY <1>0 DEF AnswerOK, Exchange
<1>2. D!None.type = "none"
  BY DEF D!None
<1>3. CASE known
  <2>1. PICK i : i = [open |-> TRUE, pos |-> 0, resume |-> FALSE, at |-> 0, read |-> <<>>,
                      remaining |-> <<>>, buffer |-> 0, total |-> 0, soFar |-> 0]
    OBVIOUS
  <2>2. PICK answer : answer = [type |-> "begun"]
    OBVIOUS
  <2>3. info' = [info EXCEPT ![s] = i] /\ D!Answer(s, answer)
    BY <1>3, <2>1, <2>2 DEF D!BeginDownload
  <2>4. i \in DownloadState
    <3>1. <<>> \in Seq(Nat)
      OBVIOUS
    <3> QED BY <2>1, <3>1 DEF DownloadState
  <2>5. i.open /\ i.pos = 0 /\ i.read = <<>> /\ i.remaining = <<>>
    BY <2>1
  <2>6. SourceOK(i)
    <3>1. AreBlocks(<<>>, 0, Size)
      BY NoBlocks, DownloadConstants
    <3> QED BY <2>5, <3>1 DEF SourceOK, Ahead, NoneAhead
  <2>7. answer.type = "begun" /\ DownReplyOK(answer)
    BY <2>2 DEF DownReplyOK
  <2>8. s = client.session => Exchange(client, D!None, answer, i)
    BY <1>1, <1>2, <2>5, <2>7 DEF Exchange, NoneAhead
  <2>9. DOMAIN info' = D!Sessions /\ \A t \in D!Sessions : info'[t] = IF t = s THEN i ELSE info[t]
    BY <1>0, <2>3
  <2> QED BY <1>0, <2>3, <2>4, <2>6, <2>7, <2>8, <2>9, SessionSteps
<1>4. CASE ~known
  <2>1. PICK answer : answer = [type |-> "exception"]
    OBVIOUS
  <2>2. info' = info /\ D!Answer(s, answer)
    BY <1>4, <2>1 DEF D!BeginDownload
  <2>3. answer.type = "exception" /\ DownReplyOK(answer)
    BY <2>1 DEF DownReplyOK
  <2>4. PICK i : i = info[s]
    OBVIOUS
  <2>5. s = client.session => Exchange(client, D!None, answer, i)
    BY <1>1, <1>2, <2>3 DEF Exchange
  <2>6. (i = D!NoDownload \/ i \in DownloadState) /\ (i.open => SourceOK(i))
    BY <1>0, <2>4 DEF SourcesOK
  <2>7. DOMAIN info' = D!Sessions /\ \A t \in D!Sessions : info'[t] = IF t = s THEN i ELSE info[t]
    BY <1>0, <2>2, <2>4
  <2> QED BY <1>0, <2>2, <2>3, <2>5, <2>6, <2>7, SessionSteps
<1> QED BY <1>3, <1>4

(* TrimDownload() keeps the invariant: nothing has been read ahead. *)
LEMMA DownloadIsTrimmed ==
    ASSUME DownloadInv, NEW s \in D!Sessions, D!TrimDownload(s)
    PROVE  DownloadInv'
<1>0. /\ AnswerOK /\ SourcesOK /\ DOMAIN info = D!Sessions /\ request[s].type = "trim"
      /\ (info[s] = D!NoDownload \/ info[s] \in DownloadState)
      /\ request[s].pos \in Nat
      /\ UNCHANGED <<client, handle, file, quota>>
  BY DownloadFacts DEF D!TrimDownload, DownRequestOK
<1>1. s = client.session => client.pc = "trim"
  BY <1>0 DEF AnswerOK, Exchange
<1>2. D!None.type = "none"
  BY DEF D!None
<1>3. PICK pos : pos = request[s].pos
  OBVIOUS
<1>4. info[s].open /\ NoneAhead(info[s]) /\ pos \in Nat /\ pos <= Size
  BY <1>0, <1>3 DEF SourcesOK
<1>5. info[s] \in DownloadState
  BY <1>0, <1>4 DEF D!NoDownload
<1>6. PICK i : i = [info[s] EXCEPT !.pos = pos, !.resume = TRUE]
  OBVIOUS
<1>7. PICK answer : answer = [type |-> "trimmed"]
  OBVIOUS
<1>8. info' = [info EXCEPT ![s] = i] /\ D!Answer(s, answer)
  BY <1>3, <1>6, <1>7 DEF D!TrimDownload
<1>9. i \in DownloadState
  BY <1>4, <1>5, <1>6 DEF DownloadState
<1>10. i.pos = pos /\ i.resume /\ i.read = <<>> /\ i.remaining = <<>>
  BY <1>4, <1>5, <1>6 DEF DownloadState, NoneAhead
<1>11. SourceOK(i)
  <2>1. AreBlocks(<<>>, pos, Size)
    BY <1>4, NoBlocks, DownloadConstants
  <2> QED BY <1>10, <2>1 DEF SourceOK, Ahead, NoneAhead
<1>12. answer.type = "trimmed" /\ DownReplyOK(answer)
  BY <1>7 DEF DownReplyOK
<1>13. s = client.session => Exchange(client, D!None, answer, i)
  BY <1>1, <1>2, <1>12 DEF Exchange
<1>14. DOMAIN info' = D!Sessions /\ \A t \in D!Sessions : info'[t] = IF t = s THEN i ELSE info[t]
  BY <1>0, <1>8
<1> QED BY <1>0, <1>8, <1>9, <1>11, <1>12, <1>13, <1>14, SessionSteps

(* The end of a session keeps the invariant. *)
LEMMA DownloadSessionEnds ==
    ASSUME DownloadInv, NEW s \in D!Sessions, D!SessionEnds(s)
    PROVE  DownloadInv'
<1>0. /\ DownReplyOK(reply) /\ DOMAIN info = D!Sessions /\ s < client.session
      /\ client.session \in Nat /\ s \in Nat
      /\ UNCHANGED <<client, reply, handle, file, quota>>
  BY DownloadFacts DEF D!SessionEnds
<1>1. s # client.session
  BY <1>0
<1>2. D!Answer(s, reply)
  BY <1>0, <1>1 DEF D!SessionEnds, D!Answer
<1>3. /\ DOMAIN info' = D!Sessions
      /\ \A t \in D!Sessions : info'[t] = IF t = s THEN D!NoDownload ELSE info[t]
  BY <1>0 DEF D!SessionEnds
<1>4. ~D!NoDownload.open
  BY DEF D!NoDownload
<1> QED BY <1>0, <1>1, <1>2, <1>3, <1>4, SessionSteps

(* A change of the rate keeps the invariant. *)
LEMMA DownloadQuotaChanges == ASSUME DownloadInv, D!SetQuota PROVE DownloadInv'
<1>0. DownTypes /\ SourcesOK /\ AnswerOK /\ WriterOK
  BY DownloadFacts
<1>1. quota' \in Nat /\ UNCHANGED <<client, request, reply, info, handle, file>>
  BY DownloadConstants DEF D!SetQuota
<1>2. DownTypes' /\ SourcesOK'
  BY <1>0, <1>1 DEF DownTypes, SourcesOK
<1>3. AnswerOK' /\ WriterOK'
  BY <1>0, <1>1 DEF AnswerOK, WriterOK
<1> QED BY <1>2, <1>3 DEF DownloadInv

(* A session stands in its file where it has read to. *)
ReadTo(h) ==
    /\ h \in DownloadState /\ ~h.resume
    /\ AreBlocks(Ahead(h), h.pos, Size) /\ h.at = h.pos + Len(Ahead(h))
    /\ h.pos = 0 => NoneAhead(h)

(* An open file is read from where the session stands. *)
LEMMA OpenedReadsOn ==
    ASSUME NEW i \in DownloadState, SourceOK(i)
    PROVE  ReadTo(D!Opened(i)) /\ D!Opened(i).pos = i.pos
<1>1. PICK at : at = IF i.pos = 0 \/ i.resume THEN i.pos ELSE i.at
  OBVIOUS
<1>2. PICK h : h = [i EXCEPT !.resume = FALSE, !.at = at]
  OBVIOUS
<1>3. h = D!Opened(i)
  BY <1>1, <1>2 DEF D!Opened, DownloadState
<1>4. at \in Nat
  BY <1>1 DEF DownloadState
<1>5. h \in DownloadState
  BY <1>2, <1>4 DEF DownloadState
<1>6. /\ ~h.resume /\ h.at = at /\ h.pos = i.pos /\ h.read = i.read /\ h.remaining = i.remaining
  BY <1>2 DEF DownloadState
<1>7. AreBlocks(Ahead(h), h.pos, Size) /\ (h.pos = 0 => NoneAhead(h))
  BY <1>6 DEF SourceOK, Ahead, NoneAhead
<1>8. h.at = h.pos + Len(Ahead(h))
  <2>1. CASE i.pos = 0 \/ i.resume
    <3>1. Len(Ahead(h)) = 0 /\ h.at = h.pos
      BY <1>1, <1>6, <2>1 DEF SourceOK, Ahead, NoneAhead
    <3>2. h.pos \in Nat
      BY <1>5 DEF DownloadState
    <3> QED BY <3>1, <3>2
  <2>2. CASE ~(i.pos = 0 \/ i.resume)
    BY <1>1, <1>6, <2>2 DEF SourceOK, Ahead
  <2> QED BY <2>1, <2>2
<1> QED BY <1>3, <1>5, <1>6, <1>7, <1>8 DEF ReadTo

(* What is sent follows what was, and is no more than the client wants. *)
LEMMA ChunkFollows ==
    ASSUME NEW h, ReadTo(h), NEW limit \in Nat
    PROVE  LET data == D!Chunk(h, limit)
           IN  /\ AreBlocks(data, h.pos, Size) /\ Len(data) <= limit
               /\ Ahead(h) # <<>> => Len(data) <= Len(Ahead(h))
<1>1. PICK ahead : ahead = Ahead(h)
  OBVIOUS
<1>2. /\ h.pos \in Nat /\ AreBlocks(ahead, h.pos, Size) /\ h.at = h.pos + Len(ahead)
      /\ Len(ahead) \in Nat
  BY <1>1 DEF ReadTo, DownloadState, AreBlocks
<1>3. D!Chunk(h, limit) = IF ahead # <<>> THEN SubSeq(ahead, 1, D!Smaller(Len(ahead), limit))
                          ELSE D!Blocks(h.at, D!Smaller(limit, Size - h.pos))
  BY <1>1 DEF D!Chunk, Ahead
<1>4. CASE ahead # <<>>
  <2>1. PICK n : n = D!Smaller(Len(ahead), limit)
    OBVIOUS
  <2>2. n \in 0 .. Len(ahead) /\ n <= limit
    BY <1>2, <2>1 DEF D!Smaller
  <2>3. AreBlocks(SubSeq(ahead, 1, n), h.pos, Size) /\ Len(SubSeq(ahead, 1, n)) = n
    BY <1>2, <2>2, FirstBlocks, DownloadConstants
  <2>4. D!Chunk(h, limit) = SubSeq(ahead, 1, n)
    BY <1>3, <1>4, <2>1
  <2> QED BY <1>1, <2>2, <2>3, <2>4
<1>5. CASE ahead = <<>>
  <2>1. PICK n : n = D!Smaller(limit, Size - h.pos)
    OBVIOUS
  <2>2. h.pos <= Size /\ h.at = h.pos /\ Len(ahead) = 0
    BY <1>2, <1>5, DownloadConstants DEF AreBlocks
  <2>3. n \in Nat /\ h.pos + n <= Size /\ n <= limit
    BY <1>2, <2>1, <2>2, DownloadConstants DEF D!Smaller
  <2>4. AreBlocks(D!Blocks(h.pos, n), h.pos, Size) /\ Len(D!Blocks(h.pos, n)) = n
    BY <1>2, <2>3, BlocksRead, DownloadConstants
  <2>5. D!Chunk(h, limit) = D!Blocks(h.pos, n)
    BY <1>3, <1>5, <2>1, <2>2
  <2> QED BY <1>1, <1>5, <2>3, <2>4, <2>5
<1> QED BY <1>4, <1>5

(* What is read ahead follows what was sent. *)
LEMMA ReadsOnAfter ==
    ASSUME NEW h, ReadTo(h), NEW size \in Nat, NEW data, AreBlocks(data, h.pos, Size),
           Ahead(h) # <<>> => Len(data) <= Len(Ahead(h))
    PROVE  LET next == D!AfterChunk(h, data, size)
           IN  /\ next \in DownloadState /\ SourceOK(next) /\ next.pos = h.pos + Len(data)
<1>1. PICK ahead : ahead = Ahead(h)
  OBVIOUS
<1>2. /\ h \in DownloadState /\ ~h.resume /\ h.pos \in Nat /\ h.buffer \in Nat
      /\ AreBlocks(ahead, h.pos, Size) /\ h.at = h.pos + Len(ahead)
      /\ ahead \in Seq(Nat) /\ Len(ahead) \in Nat
      /\ Len(data) \in Nat /\ h.pos + Len(data) <= Size
      /\ h.pos = 0 => ahead = <<>>
  <2>1. /\ h \in DownloadState /\ ~h.resume /\ AreBlocks(ahead, h.pos, Size)
        /\ h.at = h.pos + Len(ahead)
    BY <1>1 DEF ReadTo
  <2>2. h.pos \in Nat /\ h.buffer \in Nat
    BY <2>1 DEF DownloadState
  <2>3. ahead \in Seq(Nat) /\ Len(ahead) \in Nat
    BY <2>1 DEF AreBlocks
  <2>4. Len(data) \in Nat /\ h.pos + Len(data) <= Size
    BY DEF AreBlocks
  <2>5. h.pos = 0 => ahead = <<>>
    BY <1>1 DEF ReadTo, NoneAhead, Ahead
  <2> QED BY <2>1, <2>2, <2>3, <2>4, <2>5
<1>3. PICK remaining, at, pos, buffer :
          /\ remaining = SubSeq(ahead, Len(data) + 1, Len(ahead))
          /\ at = (IF ahead = <<>> THEN h.at + Len(data) ELSE h.at)
          /\ pos = h.pos + Len(data)
          /\ buffer = (IF h.buffer = 0 THEN size ELSE h.buffer)
  OBVIOUS
<1>4. PICK reads \in BOOLEAN : reads <=> (remaining = <<>> /\ 0 < pos /\ pos < Size)
  OBVIOUS
<1>5. PICK read, left :
          /\ read = (IF reads THEN D!Blocks(at, D!Smaller(Size - pos, buffer)) ELSE <<>>)
          /\ left = (IF reads THEN buffer ELSE h.buffer)
  OBVIOUS
<1>6. PICK to : to = at + Len(read)
  OBVIOUS
<1>7. PICK next : next = [h EXCEPT !.pos = pos, !.remaining = remaining, !.read = read,
                                   !.at = to, !.buffer = left]
  OBVIOUS
<1>8. next = D!AfterChunk(h, data, size)
  <2>1. (remaining = <<>> /\ 0 < pos /\ pos < Size) = reads
    BY <1>4
  <2> QED BY <1>1, <1>3, <1>5, <1>6, <1>7, <2>1 DEF D!AfterChunk, Ahead, DownloadState
<1>9. pos \in Nat /\ pos <= Size /\ buffer \in Nat /\ left \in Nat
  BY <1>2, <1>3, <1>5
<1>10. AreBlocks(remaining, pos, Size) /\ at = pos + Len(remaining)
  <2>1. CASE ahead = <<>>
    <3>1. Len(ahead) = 0 /\ at = h.pos + Len(data)
      BY <1>2, <1>3, <2>1
    <3>2. remaining = <<>>
      BY <1>2, <1>3, <2>1, <3>1
    <3>3. AreBlocks(remaining, pos, Size) /\ Len(remaining) = 0
      BY <1>9, <3>2, NoBlocks, DownloadConstants
    <3> QED BY <1>3, <1>9, <3>1, <3>3
  <2>2. CASE ahead # <<>>
    <3>1. Len(data) \in 0 .. Len(ahead) /\ at = h.pos + Len(ahead)
      BY <1>1, <1>2, <1>3, <2>2
    <3>2. /\ AreBlocks(remaining, h.pos + Len(data), Size)
          /\ Len(remaining) = Len(ahead) - Len(data)
      <4>1. h.pos \in Nat /\ AreBlocks(ahead, h.pos, Size) /\ Size \in Nat
        BY <1>2, DownloadConstants
      <4>2. remaining = SubSeq(ahead, Len(data) + 1, Len(ahead))
        BY <1>3
      <4> QED BY <3>1, <4>1, <4>2, OtherBlocks
    <3>3. at = pos + Len(remaining)
      BY <1>2, <1>3, <3>1, <3>2
    <3> QED BY <1>3, <3>2, <3>3
  <2> QED BY <2>1, <2>2
<1>11. remaining \in Seq(Nat) /\ Len(remaining) \in Nat
  BY <1>10 DEF AreBlocks
<1>12. CASE reads
  <2>1. remaining = <<>> /\ pos > 0 /\ pos < Size
    BY <1>4, <1>12
  <2>2. at = pos /\ Len(remaining) = 0
    BY <1>9, <1>10, <2>1
  <2>3. PICK n : n = D!Smaller(Size - pos, buffer)
    OBVIOUS
  <2>4. n \in Nat /\ pos + n <= Size
    BY <1>9, <2>1, <2>3, DownloadConstants DEF D!Smaller
  <2>5. read = D!Blocks(pos, n)
    BY <1>5, <1>12, <2>2, <2>3
  <2>6. AreBlocks(read, pos, Size) /\ Len(read) = n
    BY <1>9, <2>4, <2>5, BlocksRead, DownloadConstants
  <2>7. read \in Seq(Nat) /\ to \in Nat /\ to = pos + Len(read)
    BY <1>6, <1>9, <2>2, <2>4, <2>6 DEF AreBlocks
  <2>8. next \in DownloadState
    BY <1>2, <1>7, <1>9, <1>11, <2>7 DEF DownloadState
  <2>9. /\ next.pos = pos /\ next.remaining = remaining /\ next.read = read /\ next.at = to
        /\ next.resume = h.resume
    BY <1>2, <1>7 DEF DownloadState
  <2>10. Ahead(next) = read
    BY <2>1, <2>9 DEF Ahead
  <2>11. SourceOK(next)
    BY <1>2, <2>1, <2>6, <2>7, <2>9, <2>10 DEF SourceOK
  <2> QED BY <1>3, <1>8, <2>8, <2>9, <2>11
<1>13. CASE ~reads
  <2>1. read = <<>> /\ Len(read) = 0 /\ read \in Seq(Nat)
    BY <1>5, <1>13
  <2>2. at \in Nat
    BY <1>9, <1>10, <1>11
  <2>3. to = at
    BY <1>6, <2>1, <2>2
  <2>4. next \in DownloadState
    BY <1>2, <1>7, <1>9, <1>11, <2>1, <2>2, <2>3 DEF DownloadState
  <2>5. /\ next.pos = pos /\ next.remaining = remaining /\ next.read = <<>> /\ next.at = at
        /\ next.resume = h.resume
    BY <1>2, <1>7, <2>1, <2>3 DEF DownloadState
  <2>6. Ahead(next) = remaining
    BY <2>5 DEF Ahead
  <2>7. pos = 0 => remaining = <<>>
    <3>1. ASSUME pos = 0 PROVE remaining = <<>>
      <4>1. h.pos = 0 /\ Len(data) = 0
        BY <1>2, <1>3, <3>1
      <4>2. ahead = <<>> /\ Len(ahead) = 0
        BY <1>2, <4>1
      <4> QED BY <1>2, <1>3, <4>1, <4>2
    <3> QED BY <3>1
  <2>8. SourceOK(next)
    BY <1>2, <1>10, <2>5, <2>6, <2>7 DEF SourceOK, NoneAhead
  <2> QED BY <1>3, <1>8, <2>4, <2>5, <2>8
<1> QED BY <1>12, <1>13

(* The limit of a window is a number, and no more than was asked for. *)
LEMMA WindowFacts ==
    ASSUME NEW h \in DownloadState, quota \in Nat, NEW expired \in BOOLEAN
    PROVE  LET window == D!Window(h, expired)
           IN  /\ window.total \in Nat /\ window.soFar \in Nat
               /\ \A size \in Nat : D!Limit(window, size) \in Nat /\ D!Limit(window, size) <= size
<1>1. h.total \in Nat /\ h.soFar \in Nat
  BY DEF DownloadState
<1>2. PICK window : window = D!Window(h, expired)
  OBVIOUS
<1>3. D!Count(quota + D!Count(h.total - h.soFar)) \in Nat
  <2>1. h.total - h.soFar \in Int
    BY <1>1
  <2>2. D!Count(h.total - h.soFar) \in Nat
    BY <2>1, Counts
  <2>3. quota + D!Count(h.total - h.soFar) \in Int
    BY <2>2
  <2> QED BY <2>3, Counts
<1>4. window.total \in Nat /\ window.soFar \in Nat
  BY <1>1, <1>2, <1>3 DEF D!Window
<1>5. D!Left(window) \in Nat
  <2>1. window.total - window.soFar \in Int
    BY <1>4
  <2> QED BY <2>1, Counts DEF D!Left
<1>6. \A size \in Nat : D!Limit(window, size) \in Nat /\ D!Limit(window, size) <= size
  BY <1>5 DEF D!Limit, D!Smaller
<1> QED BY <1>2, <1>4, <1>6

(* DownloadChunks() keeps the invariant. *)
LEMMA DownloadIsServed ==
    ASSUME DownloadInv, NEW s \in D!Sessions, D!DownloadChunks(s)
    PROVE  DownloadInv'
<1>0. /\ AnswerOK /\ SourcesOK /\ DOMAIN info = D!Sessions /\ request[s].type = "chunks"
      /\ (info[s] = D!NoDownload \/ info[s] \in DownloadState) /\ quota \in Nat
      /\ request[s].pos \in Nat /\ request[s].size \in Nat /\ request[s].waited \in BOOLEAN
      /\ client.pos \in Nat /\ client.used \in Nat
      /\ UNCHANGED <<client, handle, file, quota>>
  BY DownloadFacts DEF D!DownloadChunks, DownRequestOK
<1>1. s = client.session =>
          /\ client.pc = "asked" /\ request[s].pos = client.pos
          /\ client.pos + request[s].size <= Last
          /\ ClientQuota # 0 => client.used + request[s].size <= ClientQuota
  BY <1>0 DEF AnswerOK, Exchange
<1>2. D!None.type = "none"
  BY DEF D!None
<1>3. CASE ~info[s].open \/ request[s].pos # info[s].pos
  <2>1. PICK answer : answer = [type |-> "exception"]
    OBVIOUS
  <2>2. info' = info /\ D!Answer(s, answer)
    BY <1>3, <2>1 DEF D!DownloadChunks
  <2>3. answer.type = "exception" /\ DownReplyOK(answer)
    BY <2>1 DEF DownReplyOK
  <2>4. PICK i : i = info[s]
    OBVIOUS
  <2>5. s = client.session => Exchange(client, D!None, answer, i)
    BY <1>1, <1>2, <2>3 DEF Exchange
  <2>6. (i = D!NoDownload \/ i \in DownloadState) /\ (i.open => SourceOK(i))
    BY <1>0, <2>4 DEF SourcesOK
  <2>7. DOMAIN info' = D!Sessions /\ \A t \in D!Sessions : info'[t] = IF t = s THEN i ELSE info[t]
    BY <1>0, <2>2, <2>4
  <2> QED BY <1>0, <2>2, <2>3, <2>5, <2>6, <2>7, SessionSteps
<1>4. CASE info[s].open /\ request[s].pos = info[s].pos
  <2>1. info[s] \in DownloadState /\ SourceOK(info[s])
    BY <1>0, <1>4 DEF D!NoDownload, SourcesOK
  <2>2. PICK expired \in BOOLEAN :
            LET window == D!Window(info[s], expired)
                h == D!Opened(info[s])
                data == D!Chunk(h, D!Limit(window, request[s].size))
                next == [D!AfterChunk(h, data, request[s].size) EXCEPT
                              !.total = window.total, !.soFar = D!Count(window.soFar + Len(data))]
                completed == next.pos = Size
            IN  /\ info' = [info EXCEPT ![s] = IF completed THEN D!NoDownload ELSE next]
                /\ D!Answer(s, [type |-> "chunk", data |-> data,
                                wait |-> quota # 0 /\ D!Left(window) < request[s].size])
    BY <1>4 DEF D!DownloadChunks
  <2>3. PICK window, h : window = D!Window(info[s], expired) /\ h = D!Opened(info[s])
    OBVIOUS
  <2>4. PICK size, limit : size = request[s].size /\ limit = D!Limit(window, size)
    OBVIOUS
  <2>5. PICK data : data = D!Chunk(h, limit)
    OBVIOUS
  <2>6. PICK after : after = D!AfterChunk(h, data, size)
    OBVIOUS
  <2>7. PICK soFar : soFar = D!Count(window.soFar + Len(data))
    OBVIOUS
  <2>8. PICK next : next = [after EXCEPT !.total = window.total, !.soFar = soFar]
    OBVIOUS
  <2>9. PICK i : i = IF next.pos = Size THEN D!NoDownload ELSE next
    OBVIOUS
  <2>10. PICK wait \in BOOLEAN : wait <=> (quota # 0 /\ D!Left(window) < size)
    OBVIOUS
  <2>11. PICK answer : answer = [type |-> "chunk", data |-> data, wait |-> wait]
    OBVIOUS
  <2>12. info' = [info EXCEPT ![s] = i] /\ D!Answer(s, answer)
    <3>1. (quota # 0 /\ D!Left(window) < size) = wait
      BY <2>10
    <3> QED BY <2>2, <2>3, <2>4, <2>5, <2>6, <2>7, <2>8, <2>9, <2>11, <3>1
  <2>13. /\ window.total \in Nat /\ window.soFar \in Nat
         /\ limit \in Nat /\ limit <= size /\ size \in Nat
    BY <1>0, <2>1, <2>3, <2>4, WindowFacts
  <2>14. ReadTo(h) /\ h.pos = info[s].pos /\ h.pos \in Nat
    BY <2>1, <2>3, OpenedReadsOn DEF DownloadState
  <2>15. /\ AreBlocks(data, h.pos, Size) /\ Len(data) <= limit
         /\ Ahead(h) # <<>> => Len(data) <= Len(Ahead(h))
    BY <2>5, <2>13, <2>14, ChunkFollows
  <2>16. data \in Seq(Nat) /\ Len(data) \in Nat
    BY <2>15 DEF AreBlocks
  <2>17. after \in DownloadState /\ SourceOK(after)
    BY <2>6, <2>13, <2>14, <2>15, ReadsOnAfter
  <2>18. soFar \in Nat
    <3>1. window.soFar + Len(data) \in Int
      BY <2>13, <2>16
    <3> QED BY <2>7, <3>1, Counts
  <2>19. next \in DownloadState
    BY <2>8, <2>13, <2>17, <2>18 DEF DownloadState
  <2>20. /\ next.pos = after.pos /\ next.read = after.read /\ next.at = after.at
         /\ next.remaining = after.remaining /\ next.resume = after.resume
    BY <2>8, <2>17 DEF DownloadState
  <2>21. SourceOK(next)
    BY <2>17, <2>20 DEF SourceOK, Ahead, NoneAhead
  <2>22. (i = D!NoDownload \/ i \in DownloadState) /\ (i.open => SourceOK(i))
    BY <2>9, <2>19, <2>21 DEF D!NoDownload
  <2>23. answer.type = "chunk" /\ answer.data = data /\ DownReplyOK(answer)
    BY <2>11, <2>16 DEF DownReplyOK
  <2>24. ASSUME s = client.session PROVE Exchange(client, D!None, answer, i)
    <3>1. h.pos = client.pos /\ client.pos + size <= Last
      BY <1>1, <1>4, <2>4, <2>14, <2>24
    <3>2. client.pos + Len(data) <= Last
      BY <1>0, <2>13, <2>15, <2>16, <3>1, DownloadConstants
    <3>3. AreBlocks(data, client.pos, Last)
      BY <2>15, <3>1, <3>2 DEF AreBlocks
    <3>4. ClientQuota # 0 => client.used + Len(data) <= ClientQuota
      <4>1. ClientQuota # 0 => client.used + size <= ClientQuota
        BY <1>1, <2>4, <2>24
      <4>2. Len(data) <= size
        BY <2>13, <2>15, <2>16
      <4> QED BY <1>0, <2>13, <2>16, <4>1, <4>2, DownloadConstants
    <3> QED BY <1>1, <1>2, <2>23, <2>24, <3>3, <3>4 DEF Exchange
  <2>25. DOMAIN info' = D!Sessions /\ \A t \in D!Sessions : info'[t] = IF t = s THEN i ELSE info[t]
    BY <1>0, <2>12
  <2> QED BY <1>0, <2>12, <2>22, <2>23, <2>24, <2>25, SessionSteps
<1> QED BY <1>3, <1>4

-----------------------------------------------------------------------------
(* The invariant holds at first. *)
LEMMA DownloadAtFirst == ASSUME D!Init PROVE DownloadInv
<1>1. /\ client = [pc |-> "idle", session |-> 1, attempts |-> 0, pos |-> 0, used |-> 0,
                   wait |-> FALSE, waited |-> FALSE]
      /\ request = [s \in D!Sessions |-> D!None] /\ reply = D!None
      /\ info = [s \in D!Sessions |-> D!NoDownload]
      /\ handle = [a \in D!Attempts |-> [append |-> FALSE, at |-> 0, op |-> <<>>]]
      /\ file = <<>> /\ quota \in Quotas
  BY DEF D!Init
<1>2. 1 \in D!Sessions /\ 0 \in 0 .. MaxAttempts
  BY DownloadConstants DEF D!Sessions
<1>3. <<>> \in Seq(Nat) /\ Len(<<>>) = 0
  OBVIOUS
<1>4. D!None.type = "none" /\ DownRequestOK(D!None) /\ DownReplyOK(D!None) /\ ~D!NoDownload.open
  BY DEF D!None, DownRequestOK, DownReplyOK, D!NoDownload
<1>5. client \in DownloaderState
  BY <1>1, <1>2 DEF DownloaderState
<1>6. /\ client.pc = "idle" /\ client.used = 0
      /\ \A s \in D!Sessions : request[s] = D!None /\ info[s] = D!NoDownload
  BY <1>1
<1>7. \A a \in D!Attempts : handle[a].op = <<>>
  BY <1>1
<1>8. handle \in [D!Attempts -> HandleState]
  BY <1>1, <1>3 DEF HandleState
<1>9. DownTypes
  BY <1>1, <1>4, <1>5, <1>6, <1>8, DownloadConstants DEF DownTypes
<1>10. SourcesOK
  BY <1>4, <1>6 DEF SourcesOK
<1>11. AnswerOK
  <2>1. client.session \in D!Sessions
    BY <1>1, <1>2
  <2> QED BY <1>1, <1>4, <1>6, <2>1, DownloadConstants DEF AnswerOK, Exchange
<1>12. WriterOK
  <2>1. AreBlocks(file, First, Last)
    BY <1>1, NoBlocks, DownloadConstants
  <2> QED BY <1>6, <1>7, <2>1 DEF WriterOK
<1> QED BY <1>9, <1>10, <1>11, <1>12 DEF DownloadInv

(* Every step keeps it, unless a download goes on while one before is     *)
(* still to write.                                                        *)
LEMMA DownloadInductive == ASSUME DownloadInv, raced' = {}, D!Next PROVE DownloadInv'
<1>1. CASE D!Download
  BY <1>1, DownloadStarts
<1>2. CASE D!Client
  <2>1. CASE D!Begun
    <3>1. \A a \in D!Attempts : handle[a].op = <<>>
      BY <2>1 DEF D!Begun
    <3> QED BY <2>1, <3>1, DownloadBegun
  <2> QED BY <1>2, <2>1, DownloadTrimmed, DownloadAsks, DownloadReceived, DownloadCloses,
             DownloadRefused DEF D!Client
<1>3. CASE D!ConnectionLost
  BY <1>3, DownloadLost
<1>4. CASE D!SetQuota
  BY <1>4, DownloadQuotaChanges
<1>5. ASSUME NEW a \in D!Attempts, D!IoTask(a) PROVE DownloadInv'
  BY <1>5, DownloadWritten
<1>6. ASSUME NEW s \in D!Sessions, D!Server(s) PROVE DownloadInv'
  BY <1>6, DownloadBegins, DownloadIsTrimmed, DownloadIsServed DEF D!Server
<1>7. ASSUME NEW s \in D!Sessions, D!SessionEnds(s) PROVE DownloadInv'
  BY <1>7, DownloadSessionEnds
<1> QED BY <1>1, <1>2, <1>3, <1>4, <1>5, <1>6, <1>7 DEF D!Next

(* That one has gone on so is not forgotten. *)
LEMMA RacedStays == ASSUME D!Next PROVE raced \subseteq raced'
<1>1. CASE D!Download \/ D!ConnectionLost \/ D!SetQuota
  BY <1>1 DEF D!Download, D!ConnectionLost, D!SetQuota
<1>2. CASE D!Client
  BY <1>2 DEF D!Client, D!Begun, D!Trimmed, D!Ask, D!Received, D!Close, D!Refused
<1>3. ASSUME NEW a \in D!Attempts, D!IoTask(a) PROVE raced \subseteq raced'
  BY <1>3 DEF D!IoTask
<1>4. ASSUME NEW s \in D!Sessions, D!Server(s) \/ D!SessionEnds(s) PROVE raced \subseteq raced'
  BY <1>4 DEF D!Server, D!BeginDownload, D!TrimDownload, D!DownloadChunks, D!SessionEnds
<1> QED BY <1>1, <1>2, <1>3, <1>4 DEF D!Next

(* So does a step of others. *)
LEMMA DownloadStutters == ASSUME DownloadInv, UNCHANGED D!vars PROVE DownloadInv'
<1>1. /\ DownTypes /\ SourcesOK /\ AnswerOK /\ WriterOK
      /\ UNCHANGED <<client, request, reply, info, handle, file, quota>>
  BY DownloadFacts DEF D!vars
<1>2. DownTypes' /\ SourcesOK'
  BY <1>1 DEF DownTypes, SourcesOK
<1>3. AnswerOK' /\ WriterOK'
  BY <1>1 DEF AnswerOK, WriterOK
<1> QED BY <1>2, <1>3 DEF DownloadInv

(* Blocks of the file from the first on are the beginning of what is wanted. *)
LEMMA DownloadedIsWanted == ASSUME DownloadInv PROVE D!DownloadIntact
<1>1. AreBlocks(file, First, Last) /\ (client.pc = "done" => First + Len(file) = Last)
  BY DownloadFacts DEF WriterOK
<1>2. file \in Seq(Nat) /\ Len(file) \in 0 .. Last - First
  BY <1>1, DownloadConstants DEF AreBlocks
<1>3. /\ D!Wanted \in Seq(Nat) /\ Len(D!Wanted) = Last - First
      /\ \A i \in 1 .. Last - First : D!Wanted[i] = First + i
  BY DownloadConstants DEF D!Wanted
<1>4. PICK begun : begun = SubSeq(D!Wanted, 1, Len(file))
  OBVIOUS
<1>5. /\ begun \in Seq(Nat) /\ Len(begun) = Len(file)
      /\ \A i \in 1 .. Len(file) : begun[i] = D!Wanted[i]
  BY <1>2, <1>3, <1>4
<1>6. \A i \in 1 .. Len(file) : begun[i] = file[i]
  BY <1>1, <1>2, <1>3, <1>5 DEF AreBlocks
<1>7. begun = file
  BY <1>2, <1>5, <1>6, SeqEqual
<1>8. ASSUME client.pc = "done" PROVE file = D!Wanted
  <2>1. Len(file) = Last - First
    BY <1>1, <1>2, <1>8, DownloadConstants
  <2>2. \A i \in 1 .. Len(file) : D!Wanted[i] = file[i]
    BY <1>1, <1>2, <1>3, <2>1 DEF AreBlocks
  <2> QED BY <1>2, <1>3, <2>1, <2>2
<1> QED BY <1>2, <1>3, <1>4, <1>7, <1>8 DEF D!DownloadIntact

(* What the client has is the beginning of what it wants, and all of it    *)
(* when downloadFile() returns, however often the connection is lost and   *)
(* the rate changes, unless a download went on while one before was still  *)
(* to write.                                                               *)
THEOREM DownloadedIsIntact == D!Spec => []DownloadIntact
<1> DEFINE Inv == raced # {} \/ DownloadInv
<1>1. D!Init => Inv
  BY DownloadAtFirst
<1>2. Inv /\ [D!Next]_(D!vars) => Inv'
  <2> SUFFICES ASSUME Inv, [D!Next]_(D!vars), raced' = {} PROVE DownloadInv'
    OBVIOUS
  <2>1. raced = {}
    BY RacedStays DEF D!vars
  <2> QED BY <2>1, DownloadInductive, DownloadStutters
<1>3. Inv => DownloadIntact
  BY DownloadedIsWanted DEF DownloadIntact, D!DownloadIntact
<1> HIDE DEF Inv
<1> QED BY <1>1, <1>2, <1>3, PTL DEF D!Spec

-----------------------------------------------------------------------------
(* The client                                                              *)
-----------------------------------------------------------------------------
(* A part runs as it does alone, and does nothing while another runs.      *)
LEMMA PartsRun == ClientSpec => Spec /\ C!Spec /\ R!Spec
<1>1. ClientInit => Init /\ C!Init /\ R!Init
  BY DEF ClientInit
<1>2. [ClientNext]_allVars => [Next]_vars
  BY DEF ClientNext, Subscribing, Calling, Retrying, Uploading, Downloading, allVars
<1>3. [ClientNext]_allVars => [C!Next]_(C!vars)
  BY DEF ClientNext, Subscribing, Calling, Retrying, Uploading, Downloading, allVars, callVars,
     C!vars
<1>4. [ClientNext]_allVars => [R!Next]_(R!vars)
  BY DEF ClientNext, Subscribing, Calling, Retrying, Uploading, Downloading, allVars, retryVars,
     R!vars
<1> QED
  BY <1>1, <1>2, <1>3, <1>4, PTL DEF ClientSpec, Spec, C!Spec, R!Spec

(* The client as a whole keeps what its parts promise: no call after       *)
(* close(), closed when gone, the answer of the call that was made, and no *)
(* call performed again unless an answer was lost.                         *)
THEOREM ClientKeepsPromises ==
    ClientSpec => []( /\ NoCallAfterClose /\ GoneIsClosed
                      /\ AnswerIsOwn /\ AgainOnlyIfLost)
  BY PartsRun, ClosedIsQuiet, EndedIsClosed, AnswersAreOwn, TriesAgainOnlyIfLost, PTL

(* What the client has of files and what it has sent of them is intact,    *)
(* whatever else it does: UploadIntact and DownloadIntact hold in every    *)
(* state of the client as a whole.                                         *)
THEOREM FilesAreIntact == ClientSpec => [](UploadIntact /\ DownloadIntact)
<1> DEFINE FilesInv ==
    (part = "upload" => UploadInv) /\ (part = "download" => raced # {} \/ DownloadInv)
<1>1. ClientInit => FilesInv
  BY UploadBegins, DownloadAtFirst DEF ClientInit
<1>2. FilesInv /\ [ClientNext]_allVars => FilesInv'
  <2> SUFFICES ASSUME FilesInv, [ClientNext]_allVars PROVE FilesInv'
    OBVIOUS
  <2>1. CASE part = "upload"
    <3>1. part' = part /\ [U!Next]_(U!vars)
      BY <2>1 DEF ClientNext, Subscribing, Calling, Retrying, Uploading, Downloading, allVars,
         fileVars, uploadOnly, U!vars
    <3> QED BY <2>1, <3>1, UploadSteps
  <2>2. CASE part = "download"
    <3>1. part' = part /\ [D!Next]_(D!vars)
      BY <2>2 DEF ClientNext, Subscribing, Calling, Retrying, Uploading, Downloading, allVars,
         fileVars, downloadOnly, D!vars
    <3>2. ASSUME raced' = {} PROVE DownloadInv'
      <4>1. raced = {}
        BY <3>1, <3>2, RacedStays DEF D!vars
      <4> QED BY <2>2, <3>1, <3>2, <4>1, DownloadInductive, DownloadStutters
    <3> QED BY <2>2, <3>1, <3>2
  <2>3. CASE part \notin {"upload", "download"}
    <3>1. part' = part
      BY DEF ClientNext, Subscribing, Calling, Retrying, Uploading, Downloading, allVars
    <3> QED BY <2>3, <3>1
  <2> QED BY <2>1, <2>2, <2>3
<1>3. FilesInv => UploadIntact /\ DownloadIntact
  BY DownloadedIsWanted
     DEF UploadInv, FilesOK, UploadIntact, U!UploadIntact, DownloadIntact, D!DownloadIntact
<1> HIDE DEF FilesInv
<1> QED BY <1>1, <1>2, <1>3, PTL DEF ClientSpec
=============================================================================
