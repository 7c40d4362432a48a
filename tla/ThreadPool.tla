----------------------------- MODULE ThreadPool -----------------------------
(***************************************************************************)
(* ThreadPool of RCF: threads that run the handlers of an io service.      *)
(*                                                                         *)
(* A thread that begins a call says that it is busy; if that leaves no     *)
(* thread for the next call, it launches another.  A thread that has been  *)
(* idle too long leaves, unless it is needed.  A timer posts handlers that *)
(* do nothing, so that idle threads look at the time.  stop() waits until  *)
(* the threads have removed themselves from the pool.                      *)
(*                                                                         *)
(* A region under mThreadsMutex is one step.                               *)
(***************************************************************************)
EXTENDS Integers, FiniteSets

CONSTANTS
    Threads,        \* thread objects, used again
    MinCount,       \* mThreadMinCount
    MaxCount,       \* mThreadMaxCount
    ReserveLast,    \* mReserveLastThread
    MayThrow,       \* handlers may throw
    MaxCalls        \* bound: calls that arrive

ASSUME PoolAssumption ==
    /\ IsFiniteSet(Threads)
    /\ MinCount \in Nat \ {0} /\ MaxCount \in Nat /\ MinCount <= MaxCount
    /\ ReserveLast \in BOOLEAN
    /\ MaxCalls \in Nat

VARIABLES
    threads,    \* the keys of mThreads
    busyCount,  \* mBusyCount
    pc,         \* where each thread is
    busy,       \* ThreadInfo::mBusy
    leaving,    \* ThreadInfo::mStopFlag and mAlreadyRemovedFromThreadPool
    idle,       \* ThreadInfo::mTouchTimer has elapsed
    stopFlag,   \* mStopFlag
    owner,      \* where start() and stop() are
    calls,      \* handlers of calls in the io service
    arrived,    \* how many have arrived
    dummies,    \* handlers that do nothing
    tick        \* the timer's handler is in the io service

info == <<busy, leaving, idle>>
io == <<calls, arrived, dummies, tick>>
vars == <<threads, busyCount, pc, info, stopFlag, owner, io>>

Size == Cardinality(threads)

Goto(t, label) == pc' = [pc EXCEPT ![t] = label]

ShouldStop(t) == leaving[t] \/ stopFlag

-----------------------------------------------------------------------------
(* The io service *)

(* A client calls. *)
CallArrives ==
    /\ arrived < MaxCalls
    /\ arrived' = arrived + 1 /\ calls' = calls + 1
    /\ UNCHANGED <<threads, busyCount, pc, info, stopFlag, owner, dummies, tick>>

(* The cycle timer expires; bound: the handlers it posted before have run. *)
TimerExpires ==
    /\ owner # "stopped" /\ ~tick /\ dummies = 0
    /\ tick' = TRUE
    /\ UNCHANGED <<threads, busyCount, pc, info, stopFlag, owner, calls, arrived, dummies>>

(* A thread has done nothing for mThreadIdleTimeoutMs. *)
IdleTimePasses(t) ==
    /\ pc[t] \in {"loop", "wait", "ready"} /\ ~idle[t]
    /\ idle' = [idle EXCEPT ![t] = TRUE]
    /\ UNCHANGED <<threads, busyCount, pc, busy, leaving, stopFlag, owner, io>>

-----------------------------------------------------------------------------
(* repeatTask() *)

(* cycle() waits for a handler. *)
Cycle(t) ==
    /\ pc[t] = "loop"
    /\ Goto(t, IF ShouldStop(t) THEN "exit" ELSE "wait")
    /\ UNCHANGED <<threads, busyCount, info, stopFlag, owner, io>>

(* run_one() runs the handler of a call. *)
RunCall(t) ==
    /\ pc[t] = "wait" /\ calls > 0
    /\ calls' = calls - 1 /\ Goto(t, "call")
    /\ UNCHANGED <<threads, busyCount, info, stopFlag, owner, arrived, dummies, tick>>

(* ... or one that does nothing ... *)
RunDummy(t) ==
    /\ pc[t] = "wait" /\ dummies > 0
    /\ dummies' = dummies - 1 /\ Goto(t, "ready")
    /\ UNCHANGED <<threads, busyCount, info, stopFlag, owner, calls, arrived, tick>>

(* ... or onTimer(), which posts one of those for every other thread ...   *)
RunTimer(t) ==
    /\ pc[t] = "wait" /\ tick
    /\ tick' = FALSE /\ dummies' = dummies + Size - 1 /\ Goto(t, "ready")
    /\ UNCHANGED <<threads, busyCount, info, stopFlag, owner, calls, arrived>>

(* ... or returns because the service was stopped. *)
RunNothing(t) ==
    /\ pc[t] = "wait" /\ owner = "waiting"
    /\ Goto(t, "ready")
    /\ UNCHANGED <<threads, busyCount, info, stopFlag, owner, io>>

(* notifyBusy(), up to its decision to launch a thread *)
NotifyBusy(t) ==
    /\ pc[t] = "call"
    /\ idle' = [idle EXCEPT ![t] = FALSE]
    /\ busy' = [busy EXCEPT ![t] = TRUE]
    /\ busyCount' = IF busy[t] THEN busyCount ELSE busyCount + 1
    /\ Goto(t, IF ~busy[t] /\ busyCount' = Size THEN "launch" ELSE "work")
    /\ UNCHANGED <<threads, leaving, stopFlag, owner, io>>

(* A new thread: it is in the map before it runs. *)
Launched(n) == 
    /\ threads' = threads \union {n}
    /\ busy' = [busy EXCEPT ![n] = FALSE]
    /\ leaving' = [leaving EXCEPT ![n] = FALSE]
    /\ idle' = [idle EXCEPT ![n] = FALSE]

(* launchThread(1), by a thread that became busy.  If the last thread is   *)
(* reserved the call is refused with an exception; it is ready then.       *)
LaunchThread(t) ==
    /\ pc[t] = "launch"
    /\ IF stopFlag \/ Size = MaxCount
         THEN /\ Goto(t, IF ReserveLast /\ ~stopFlag THEN "ready" ELSE "work")
              /\ UNCHANGED <<threads, info>>
         ELSE \E n \in Threads :
                  /\ pc[n] = "absent"
                  /\ Launched(n)
                  /\ pc' = [pc EXCEPT ![t] = "work", ![n] = "loop"]
    /\ UNCHANGED <<busyCount, stopFlag, owner, io>>

(* The call ends; if it throws, notifyReady() is passed over.              *)
WorkEnds(t) ==
    /\ pc[t] = "work"
    /\ idle' = [idle EXCEPT ![t] = FALSE]
    /\ Goto(t, "ready") \/ (MayThrow /\ Goto(t, "loop"))
    /\ UNCHANGED <<threads, busyCount, busy, leaving, stopFlag, owner, io>>

(* notifyReady(), first region *)
NotifyReady(t) ==
    /\ pc[t] = "ready"
    /\ busy' = [busy EXCEPT ![t] = FALSE]
    /\ busyCount' = IF busy[t] THEN busyCount - 1 ELSE busyCount
    /\ Goto(t, IF idle[t] THEN "idle" ELSE "loop")
    /\ UNCHANGED <<threads, leaving, idle, stopFlag, owner, io>>

(* Mutant: it is enough that one thread is not busy. *)
MayLeaveLast == ~stopFlag /\ Size > MinCount /\ busyCount < Size

(* notifyReady(): a thread that has been idle too long is not needed. *)
MayLeave == ~stopFlag /\ Size > MinCount /\ busyCount < Size - 1

(* notifyReady(), second region: the thread removes itself from the map,   *)
(* lest another one leaves because of it.                                  *)
LeavePool(t) ==
    /\ pc[t] = "idle"
    /\ Goto(t, "loop")
    /\ IF MayLeave
         THEN /\ threads' = threads \ {t}
              /\ leaving' = [leaving EXCEPT ![t] = TRUE]
         ELSE UNCHANGED <<threads, leaving>>
    /\ UNCHANGED <<busyCount, busy, idle, stopFlag, owner, io>>

(* onDeinit(), which uses the pool *)
Deinit(t) ==
    /\ pc[t] = "exit"
    /\ Goto(t, IF leaving[t] THEN "absent" ELSE "remove")
    /\ UNCHANGED <<threads, busyCount, info, stopFlag, owner, io>>

(* A thread that stops because the pool does removes itself from the map.  *)
RemoveMyself(t) ==
    /\ pc[t] = "remove"
    /\ Goto(t, "absent")
    /\ threads' = threads \ {t}
    /\ UNCHANGED <<busyCount, info, stopFlag, owner, io>>

-----------------------------------------------------------------------------
(* start() and stop(), called by the pool's owner *)

(* stop(): the flag is set without the mutex ... *)
Stop ==
    /\ owner = "started"
    /\ stopFlag' = TRUE
    /\ owner' = "stopping"
    /\ UNCHANGED <<threads, busyCount, pc, info, io>>

(* ... then run_one() is made to return everywhere ... *)
StopCycle ==
    /\ owner = "stopping"
    /\ owner' = "waiting"
    /\ UNCHANGED <<threads, busyCount, pc, info, stopFlag, io>>

(* ... and then the owner waits until the map is empty.                    *)
Stopped ==
    /\ owner = "waiting" /\ threads = {}
    /\ owner' = "stopped"
    /\ UNCHANGED <<threads, busyCount, pc, info, stopFlag, io>>

-----------------------------------------------------------------------------
(* start() has launched MinCount threads. *)
Init ==
    /\ threads \in SUBSET Threads /\ Size = MinCount
    /\ busyCount = 0
    /\ pc = [t \in Threads |-> IF t \in threads THEN "loop" ELSE "absent"]
    /\ busy = [t \in Threads |-> FALSE]
    /\ leaving = [t \in Threads |-> FALSE]
    /\ idle = [t \in Threads |-> FALSE]
    /\ stopFlag = FALSE /\ owner = "started"
    /\ calls = 0 /\ arrived = 0 /\ dummies = 0 /\ tick = FALSE

Thread(t) ==
    \/ Cycle(t) \/ RunCall(t) \/ RunDummy(t) \/ RunTimer(t) \/ RunNothing(t) \/ NotifyBusy(t) \/ LaunchThread(t)
    \/ WorkEnds(t) \/ NotifyReady(t) \/ LeavePool(t) \/ Deinit(t) \/ RemoveMyself(t)

Next ==
    \/ \E t \in Threads : Thread(t) \/ IdleTimePasses(t)
    \/ CallArrives \/ TimerExpires
    \/ Stop \/ StopCycle \/ Stopped

Spec == Init /\ [][Next]_vars

-----------------------------------------------------------------------------
(* Properties *)

Labels == {"absent", "loop", "wait", "call", "launch", "work", "ready", "idle", "exit", "remove"}

(* The type invariant; the threads in the map are those that run and have  *)
(* not left it.                                                            *)
TypeOK ==
    /\ threads = {t \in Threads : pc[t] # "absent" /\ ~leaving[t]}
    /\ Size <= MaxCount
    /\ pc \in [Threads -> Labels]
    /\ busy \in [Threads -> BOOLEAN] /\ leaving \in [Threads -> BOOLEAN]
    /\ idle \in [Threads -> BOOLEAN]
    /\ busyCount \in Nat
    /\ stopFlag \in BOOLEAN
    /\ owner \in {"started", "stopping", "waiting", "stopped"}
    /\ calls \in Nat /\ arrived \in Nat /\ dummies \in Nat /\ tick \in BOOLEAN

(* The busy count is the number of threads of the pool that are busy,      *)
(* although handlers may throw and threads leave (ThreadPool.cpp:493-568). *)
BusyCountIsRight == ~stopFlag => busyCount = Cardinality({t \in threads : busy[t]})

(* While the pool is not at its limit, a call does not wait for another to *)
(* end: a thread is not busy, or one is about to launch another, whoever   *)
(* leaves at the same time (ThreadPool.cpp:493-568).                       *)
SomeoneIsFree ==
    ~stopFlag /\ Size < MaxCount =>
        \/ \E t \in threads : ~busy[t]
        \/ \E t \in threads : pc[t] = "launch"

(* Threads that leave because they are idle leave the minimum behind       *)
(* unless the pool is being stopped (ThreadPool.hpp:104-107).              *)
KeepsMinimum == ~stopFlag => Size >= MinCount
=============================================================================
