-------------------------- MODULE RcfServer_proofs --------------------------
(***************************************************************************)
(* Proofs about the parts of an RCF server, for any number of threads,     *)
(* connections, calls and subscribers: ThreadPool, ServerTransport,        *)
(* ServerSession and Publisher, as RcfServerMC puts them together.         *)
(***************************************************************************)
EXTENDS RcfServerMC, Sequences, FiniteSetTheorems, TLAPS

(* What the parts count with is what the library's theorems are about.     *)
LEMMA SameCounts ==
    \A S : /\ T!IsFiniteSet(S) <=> IsFiniteSet(S)
           /\ T!Cardinality(S) = Cardinality(S) /\ P!Cardinality(S) = Cardinality(S)
<1>1. \A S : T!IsFiniteSet(S) <=> IsFiniteSet(S)
  BY DEF T!IsFiniteSet, IsFiniteSet
<1>2. \A S : T!Cardinality(S) = Cardinality(S)
  BY DEF T!Cardinality, Cardinality
<1>3. \A S : P!Cardinality(S) = Cardinality(S)
  BY DEF P!Cardinality, Cardinality
<1> QED
  BY <1>1, <1>2, <1>3

-----------------------------------------------------------------------------
(* The thread pool                                                         *)
-----------------------------------------------------------------------------
(* The threads of the pool that are busy *)
BusyThreads == {t \in threads : busy[t]}

(* What the place of t says of it: who is outside the map is on his way    *)
(* out, and who stops although he is in it does so because the pool does.  *)
PlaceOK(t) ==
    /\ leaving[t] => pc[t] \in {"loop", "exit", "absent"}
    /\ leaving[t] /\ pc[t] # "absent" => ~busy[t]
    /\ pc[t] = "idle" => ~busy[t]
    /\ pc[t] = "exit" => leaving[t] \/ stopFlag
    /\ pc[t] = "remove" => ~leaving[t] /\ stopFlag

(* The count is never too small, and right until the pool is stopped:      *)
(* whoever removes himself then may still be counted.                      *)
CountOK ==
    /\ Cardinality(BusyThreads) <= busyCount
    /\ BusyCountIsRight

(* The inductive invariant of the pool                                     *)
PoolInv ==
    /\ TypeOK
    /\ \A t \in Threads : PlaceOK(t)
    /\ CountOK
    /\ SomeoneIsFree
    /\ KeepsMinimum

-----------------------------------------------------------------------------
(* The sets that are counted are finite. *)
LEMMA PoolFinite ==
    ASSUME TypeOK
    PROVE  /\ IsFiniteSet(threads) /\ Size \in Nat
           /\ IsFiniteSet(BusyThreads) /\ Cardinality(BusyThreads) \in Nat
           /\ Cardinality(BusyThreads) <= Size
<1>1. threads \subseteq Threads
  BY DEF TypeOK
<1>2. IsFiniteSet(threads)
  BY <1>1, PoolAssumption, FS_Subset DEF PoolAssumption
<1>3. BusyThreads \subseteq threads
  BY DEF BusyThreads
<1> QED
  BY <1>2, <1>3, FS_Subset, FS_CardinalityType DEF Size

(* If fewer are busy than there are, one is not. *)
LEMMA OneIsLeft ==
    ASSUME NEW S, NEW B \in SUBSET S, IsFiniteSet(S), Cardinality(B) < Cardinality(S)
    PROVE  \E t \in S : t \notin B
<1> SUFFICES ASSUME B = S PROVE FALSE
  OBVIOUS
<1> QED
  BY FS_CardinalityType

(* The pool starts with its minimum of threads, none of them busy.         *)
LEMMA PoolStarts == Init => PoolInv
<1> SUFFICES ASSUME Init PROVE PoolInv
  OBVIOUS
<1> USE PoolAssumption DEF PoolAssumption
<1>1. TypeOK
  BY DEF Init, TypeOK, Labels
<1>2. BusyThreads = {}
  BY <1>1 DEF Init, BusyThreads, TypeOK
<1>3. Cardinality(BusyThreads) = 0
  BY <1>2, FS_EmptySet
<1>4. CountOK
  BY <1>3 DEF Init, CountOK, BusyCountIsRight, BusyThreads
<1>5. SomeoneIsFree
  <2>1. Size > 0 /\ BusyThreads \in SUBSET threads
    BY DEF Init, BusyThreads
  <2>2. \E t \in threads : t \notin BusyThreads
    BY <1>1, <1>3, <2>1, OneIsLeft, PoolFinite DEF Size
  <2> QED
    BY <2>2 DEF BusyThreads, SomeoneIsFree
<1> QED
  BY <1>1, <1>4, <1>5 DEF Init, PoolInv, PlaceOK, KeepsMinimum, TypeOK

(* Steps that change neither the map nor who is busy or leaving in it      *)
LEMMA SameMap ==
    ASSUME PoolInv, UNCHANGED <<threads, busyCount, busy, stopFlag>>,
           \A t \in Threads : pc[t] = "launch" => pc'[t] = "launch"
    PROVE  CountOK' /\ SomeoneIsFree' /\ KeepsMinimum' /\ (Size <= MaxCount)'
<1>1. BusyThreads' = BusyThreads /\ Size' = Size
  BY DEF BusyThreads, Size
<1>2. threads \subseteq Threads
  BY DEF PoolInv, TypeOK
<1> QED
  BY <1>1, <1>2 DEF PoolInv, TypeOK, CountOK, BusyCountIsRight, BusyThreads, SomeoneIsFree,
     KeepsMinimum

(* Work that comes and goes, and threads that poll, move no place.         *)
LEMMA IoSteps ==
    ASSUME PoolInv, CallArrives \/ TimerExpires \/ StopCycle \/ Stopped
    PROVE  PoolInv'
<1>1. UNCHANGED <<threads, busyCount, pc, info, stopFlag>>
  BY DEF CallArrives, TimerExpires, StopCycle, Stopped
<1>2. CountOK' /\ SomeoneIsFree' /\ KeepsMinimum' /\ (Size <= MaxCount)'
  BY <1>1, SameMap DEF info
<1>3. calls' \in Nat /\ arrived' \in Nat /\ dummies' \in Nat /\ tick' \in BOOLEAN
  <2>1. calls \in Nat /\ arrived \in Nat /\ dummies \in Nat /\ tick \in BOOLEAN
    BY DEF PoolInv, TypeOK
  <2>2. CASE CallArrives
    BY <2>1, <2>2 DEF CallArrives
  <2>3. CASE TimerExpires
    BY <2>1, <2>3 DEF TimerExpires
  <2>4. CASE StopCycle \/ Stopped
    BY <2>1, <2>4 DEF StopCycle, Stopped, io
  <2> QED
    BY <2>2, <2>3, <2>4
<1>4. owner' \in {"started", "stopping", "waiting", "stopped"}
  BY DEF PoolInv, TypeOK, CallArrives, TimerExpires, StopCycle, Stopped
<1>5. TypeOK'
  BY <1>1, <1>2, <1>3, <1>4 DEF PoolInv, TypeOK, info
<1>6. \A t \in Threads : PlaceOK(t)'
  BY <1>1 DEF PoolInv, PlaceOK, info
<1> QED
  BY <1>2, <1>5, <1>6 DEF PoolInv

(* stop() makes the flag true: nothing is promised of the counts then. *)
LEMMA StopStep ==
    ASSUME PoolInv, Stop
    PROVE  PoolInv'
<1>1. BusyThreads' = BusyThreads /\ Size' = Size
  BY DEF Stop, info, BusyThreads, Size
<1> QED
  BY <1>1 DEF Stop, PoolInv, TypeOK, PlaceOK, CountOK, BusyCountIsRight, SomeoneIsFree,
     KeepsMinimum, info, io

(* A thread waits, takes a handler, ends a call, or goes: it moves only. *)
LEMMA MoveSteps ==
    ASSUME PoolInv, NEW t \in Threads,
           \/ Cycle(t) \/ RunCall(t) \/ RunDummy(t) \/ RunTimer(t) \/ RunNothing(t)
           \/ WorkEnds(t) \/ IdleTimePasses(t) \/ Deinit(t)
    PROVE  PoolInv'
<1> DEFINE Move ==
      \/ Cycle(t) \/ RunCall(t) \/ RunDummy(t) \/ RunTimer(t) \/ RunNothing(t)
      \/ WorkEnds(t) \/ IdleTimePasses(t) \/ Deinit(t)
<1>0. Move
  OBVIOUS
<1>1. UNCHANGED <<threads, busyCount, busy, leaving, stopFlag, owner, arrived>>
  BY <1>0 DEF Cycle, RunCall, RunDummy, RunTimer, RunNothing, WorkEnds, IdleTimePasses, Deinit,
     info, io
<1>2. /\ pc' \in [Threads -> Labels] /\ idle' \in [Threads -> BOOLEAN]
      /\ \A u \in Threads \ {t} : pc'[u] = pc[u]
      /\ pc[t] # "launch" /\ pc[t] # "absent"
      /\ pc'[t] = "absent" => leaving[t]
  BY <1>0 DEF PoolInv, TypeOK, Labels, Goto, info,
      Cycle, RunCall, RunDummy, RunTimer, RunNothing, WorkEnds, IdleTimePasses, Deinit
<1>3. CountOK' /\ SomeoneIsFree' /\ KeepsMinimum' /\ (Size <= MaxCount)'
  <2>1. \A u \in Threads : pc[u] = "launch" => pc'[u] = "launch"
    BY <1>2
  <2> QED
    BY <1>1, <2>1, SameMap
<1>4. calls' \in Nat /\ dummies' \in Nat /\ tick' \in BOOLEAN
  <2>1. CASE RunTimer(t)
    <3>1. t \in threads
      BY <2>1 DEF RunTimer, PoolInv, PlaceOK, TypeOK
    <3>2. Size \in Nat /\ Size # 0
      BY <3>1, PoolFinite, FS_EmptySet DEF PoolInv, Size
    <3>3. calls \in Nat /\ dummies \in Nat /\ dummies + Size - 1 \in Nat
      BY <3>2 DEF PoolInv, TypeOK
    <3> QED
      BY <2>1, <3>3 DEF RunTimer
  <2>2. CASE ~RunTimer(t)
    BY <2>2, <1>0 DEF PoolInv, TypeOK, Cycle, RunCall, RunDummy, RunNothing, WorkEnds,
       IdleTimePasses, Deinit, io
  <2> QED
    BY <2>1, <2>2
<1>5. TypeOK'
  <2>1. threads' = {u \in Threads : pc'[u] # "absent" /\ ~leaving'[u]}
    BY <1>1, <1>2 DEF PoolInv, TypeOK
  <2> QED
    BY <1>1, <1>2, <1>3, <1>4, <2>1 DEF PoolInv, TypeOK
<1>6. ASSUME NEW u \in Threads PROVE PlaceOK(u)'
  <2>1. CASE u = t
    BY <1>0, <1>1, <2>1 DEF PoolInv, PlaceOK, TypeOK, ShouldStop, Goto,
      Cycle, RunCall, RunDummy, RunTimer, RunNothing, WorkEnds, IdleTimePasses, Deinit
  <2>2. CASE u # t
    BY <1>1, <1>2, <2>2 DEF PoolInv, PlaceOK
  <2> QED
    BY <2>1, <2>2
<1> QED
  BY <1>3, <1>5, <1>6 DEF PoolInv

(* A thread that becomes busy is counted; if it was the last that is free, *)
(* it is about to launch another.                                          *)
LEMMA NotifyBusyStep ==
    ASSUME PoolInv, NEW t \in Threads, NotifyBusy(t)
    PROVE  PoolInv'
<1> USE DEF NotifyBusy, Goto
<1>0. t \in threads /\ pc[t] = "call"
  BY DEF PoolInv, PlaceOK, TypeOK
<1>1. IsFiniteSet(BusyThreads) /\ Size \in Nat /\ Size' = Size
  BY PoolFinite DEF PoolInv, Size
<1>2. BusyThreads' = BusyThreads \union {t}
  BY <1>0 DEF PoolInv, TypeOK, BusyThreads
<1>3. Cardinality(BusyThreads') - Cardinality(BusyThreads) = busyCount' - busyCount
  <2>1. busyCount \in Nat /\ Cardinality(BusyThreads) \in Nat /\ (t \in BusyThreads <=> busy[t])
    BY <1>0, PoolFinite DEF PoolInv, TypeOK, BusyThreads
  <2>2. Cardinality(BusyThreads') =
             IF busy[t] THEN Cardinality(BusyThreads) ELSE Cardinality(BusyThreads) + 1
    BY <1>1, <1>2, <2>1, FS_AddElement
  <2> QED
    BY <2>1, <2>2
<1>4. Cardinality(BusyThreads) \in Nat /\ busyCount \in Nat
  BY PoolFinite DEF PoolInv, TypeOK
<1>5. TypeOK'
  BY <1>1 DEF PoolInv, TypeOK, Labels, io
<1>6. ASSUME NEW u \in Threads PROVE PlaceOK(u)'
  BY DEF PoolInv, TypeOK, PlaceOK
<1>7. CountOK'
  <2>1. busyCount' \in Int /\ Cardinality(BusyThreads') \in Nat
    <3>1. (TypeOK => Cardinality(BusyThreads) \in Nat)'
      BY PoolFinite, PTL
    <3> QED
      BY <1>4, <1>5, <3>1
  <2>2. Cardinality(BusyThreads) <= busyCount /\ (~stopFlag => busyCount = Cardinality(BusyThreads))
    BY DEF PoolInv, CountOK, BusyCountIsRight, BusyThreads
  <2>3. Cardinality(BusyThreads') <= busyCount' /\ (~stopFlag =>
          busyCount' = Cardinality(BusyThreads'))
    BY <1>3, <1>4, <2>1, <2>2
  <2> QED
    BY <2>3 DEF CountOK, BusyCountIsRight, BusyThreads
<1>8. SomeoneIsFree'
  <2> SUFFICES ASSUME ~stopFlag, Size < MaxCount, \A u \in threads : pc'[u] # "launch"
               PROVE  \E u \in threads : ~busy'[u]
    BY <1>1 DEF SomeoneIsFree
  <2>1. CASE busy[t]
    BY <1>0, <2>1 DEF PoolInv, TypeOK, SomeoneIsFree
  <2>2. CASE ~busy[t]
    <3>1. busyCount' # Size
      BY <1>0, <2>2 DEF PoolInv, TypeOK
    <3>2. (Cardinality(BusyThreads) = busyCount)'
      BY <1>7 DEF CountOK, BusyCountIsRight, BusyThreads
    <3>3. BusyThreads' \in SUBSET threads /\ IsFiniteSet(threads)
      BY PoolFinite DEF PoolInv, BusyThreads
    <3>4. Cardinality(BusyThreads') <= Size
      BY <3>3, FS_Subset DEF Size
    <3>5. Cardinality(BusyThreads') < Cardinality(threads)
      BY <1>1, <1>5, <3>1, <3>2, <3>4 DEF TypeOK, Size
    <3>6. \E u \in threads : u \notin BusyThreads'
      BY <3>3, <3>5, OneIsLeft
    <3> QED
      BY <3>6 DEF BusyThreads
  <2> QED
    BY <2>1, <2>2
<1> QED
  BY <1>5, <1>6, <1>7, <1>8, <1>1 DEF PoolInv, KeepsMinimum

(* A thread is launched when the last free one becomes busy.               *)
LEMMA LaunchStep ==
    ASSUME PoolInv, NEW t \in Threads, LaunchThread(t)
    PROVE  PoolInv'
<1> USE DEF LaunchThread, Goto
<1>0. pc[t] = "launch" /\ t \in threads
  BY DEF PoolInv, PlaceOK, TypeOK
<1>1. CASE stopFlag \/ Size = MaxCount
  <2>1. UNCHANGED <<threads, info, busyCount, stopFlag, owner, io>>
    BY <1>1
  <2>2. BusyThreads' = BusyThreads /\ Size' = Size
    BY <2>1 DEF BusyThreads, Size, info
  <2>3. pc' \in [Threads -> Labels] /\ pc'[t] \in {"work", "ready"}
          /\ \A u \in Threads \ {t} : pc'[u] = pc[u]
    BY <1>1 DEF PoolInv, TypeOK, Labels
  <2>4. TypeOK'
    <3>1. threads' = {u \in Threads : pc'[u] # "absent" /\ ~leaving'[u]}
      BY <1>0, <2>1, <2>3 DEF PoolInv, TypeOK, info
    <3> QED
      BY <2>1, <2>2, <2>3, <3>1 DEF PoolInv, TypeOK, info, io
  <2>5. ASSUME NEW u \in Threads PROVE PlaceOK(u)'
    BY <1>0, <2>1, <2>3 DEF PoolInv, PlaceOK, info
  <2>6. CountOK' /\ KeepsMinimum'
    BY <2>1, <2>2 DEF PoolInv, CountOK, BusyCountIsRight, BusyThreads, KeepsMinimum, info
  <2>7. SomeoneIsFree'
    BY <1>1, <2>1, <2>2, PoolAssumption, PoolFinite DEF PoolInv, PoolAssumption, SomeoneIsFree
  <2> QED
    BY <2>4, <2>5, <2>6, <2>7 DEF PoolInv
<1>2. CASE ~(stopFlag \/ Size = MaxCount)
  <2>1. PICK n \in Threads :
            /\ pc[n] = "absent" /\ Launched(n)
            /\ pc' = [pc EXCEPT ![t] = "work", ![n] = "loop"]
    BY <1>2
  <2>2. n # t /\ n \notin threads
    BY <1>0, <2>1 DEF PoolInv, TypeOK
  <2>3. BusyThreads' = BusyThreads
    BY <2>1, <2>2 DEF PoolInv, TypeOK, Launched, BusyThreads
  <2>4. Size' = Size + 1 /\ Size \in Nat
    BY <2>1, <2>2, PoolFinite, FS_AddElement DEF PoolInv, Size, Launched
  <2>5. Size' <= MaxCount
    BY <1>2, <2>4, PoolAssumption DEF PoolInv, TypeOK, PoolAssumption
  <2>6. UNCHANGED <<busyCount, stopFlag, owner, io>>
    OBVIOUS
  <2>7. TypeOK'
    <3>1. threads' = {u \in Threads : pc'[u] # "absent" /\ ~leaving'[u]}
      BY <1>0, <2>1, <2>2 DEF PoolInv, TypeOK, Launched
    <3> QED
      BY <2>1, <2>5, <2>6, <3>1 DEF PoolInv, TypeOK, Launched, Labels, io
  <2>8. ASSUME NEW u \in Threads PROVE PlaceOK(u)'
    BY <1>0, <2>1, <2>2, <2>6 DEF PoolInv, PlaceOK, TypeOK, Launched
  <2>9. CountOK'
    BY <2>3, <2>6 DEF PoolInv, CountOK, BusyCountIsRight, BusyThreads
  <2>10. SomeoneIsFree'
    BY <2>1 DEF SomeoneIsFree, Launched, PoolInv, TypeOK
  <2>11. KeepsMinimum'
    BY <2>4, <2>6, PoolAssumption DEF PoolInv, PoolAssumption, KeepsMinimum
  <2> QED
    BY <2>7, <2>8, <2>9, <2>10, <2>11 DEF PoolInv
<1> QED
  BY <1>1, <1>2

(* A thread that is ready is free. *)
LEMMA NotifyReadyStep ==
    ASSUME PoolInv, NEW t \in Threads, NotifyReady(t)
    PROVE  PoolInv'
<1> USE DEF NotifyReady, Goto
<1>0. t \in threads /\ pc[t] = "ready"
  BY DEF PoolInv, PlaceOK, TypeOK
<1>1. IsFiniteSet(BusyThreads) /\ Cardinality(BusyThreads) \in Nat /\ Size' = Size
  BY PoolFinite DEF PoolInv, Size
<1>2. BusyThreads' = BusyThreads \ {t} /\ (t \in BusyThreads <=> busy[t])
  BY <1>0 DEF PoolInv, TypeOK, BusyThreads
<1>3. IF busy[t] THEN Cardinality(BusyThreads') = Cardinality(BusyThreads) - 1
        /\ Cardinality(BusyThreads) > 0
                 ELSE Cardinality(BusyThreads') = Cardinality(BusyThreads)
  BY <1>1, <1>2, FS_RemoveElement, FS_EmptySet
<1>4. busyCount \in Nat /\ busyCount >= Cardinality(BusyThreads)
  BY DEF PoolInv, TypeOK, CountOK
<1>5. TypeOK'
  BY <1>0, <1>1, <1>3, <1>4 DEF PoolInv, TypeOK, Labels, io
<1>6. ASSUME NEW u \in Threads PROVE PlaceOK(u)'
  BY DEF PoolInv, TypeOK, PlaceOK
<1>7. CountOK'
  BY <1>1, <1>3, <1>4 DEF PoolInv, CountOK, BusyCountIsRight, BusyThreads
<1>8. SomeoneIsFree'
  BY <1>0 DEF SomeoneIsFree, PoolInv, TypeOK
<1> QED
  BY <1>5, <1>6, <1>7, <1>8, <1>1 DEF PoolInv, KeepsMinimum

(* A thread leaves only if another is free, and the minimum stays. *)
LEMMA LeaveStep ==
    ASSUME PoolInv, NEW t \in Threads, LeavePool(t)
    PROVE  PoolInv'
<1> USE DEF LeavePool, Goto
<1>0. t \in threads /\ pc[t] = "idle" /\ ~busy[t]
  BY DEF PoolInv, PlaceOK, TypeOK
<1>1. BusyThreads' = BusyThreads
  BY <1>0 DEF BusyThreads
<1>2. CASE ~MayLeave
  <2>1. UNCHANGED <<threads, busyCount, busy, leaving, idle, stopFlag, owner, io>>
    BY <1>2
  <2>2. CountOK' /\ SomeoneIsFree' /\ KeepsMinimum' /\ (Size <= MaxCount)'
    BY <1>0, <2>1, SameMap DEF PoolInv, TypeOK
  <2>3. TypeOK'
    BY <1>0, <2>1, <2>2 DEF PoolInv, TypeOK, Labels, io
  <2>4. ASSUME NEW u \in Threads PROVE PlaceOK(u)'
    BY <1>0, <2>1 DEF PoolInv, PlaceOK, TypeOK
  <2> QED
    BY <2>2, <2>3, <2>4 DEF PoolInv
<1>3. CASE MayLeave
  <2>1. threads' = threads \ {t} /\ leaving' = [leaving EXCEPT ![t] = TRUE]
    BY <1>3
  <2>2. Size' = Size - 1 /\ Size \in Nat /\ IsFiniteSet(threads)
    BY <1>0, <2>1, PoolFinite, FS_RemoveElement DEF PoolInv, Size
  <2>3. Size' <= MaxCount /\ KeepsMinimum'
    BY <1>3, <2>2, PoolAssumption DEF MayLeave, PoolInv, TypeOK, PoolAssumption, KeepsMinimum
  <2>4. TypeOK'
    <3>1. threads' = {u \in Threads : pc'[u] # "absent" /\ ~leaving'[u]}
      BY <1>0, <2>1 DEF PoolInv, TypeOK
    <3> QED
      BY <2>1, <2>3, <3>1 DEF PoolInv, TypeOK, Labels, io
  <2>5. ASSUME NEW u \in Threads PROVE PlaceOK(u)'
    BY <1>0, <2>1 DEF PoolInv, PlaceOK, TypeOK
  <2>6. CountOK'
    BY <1>1 DEF PoolInv, CountOK, BusyCountIsRight, BusyThreads
  <2>7. Cardinality(BusyThreads') < Size'
    BY <1>1, <1>3, <2>2 DEF PoolInv, CountOK, BusyCountIsRight, MayLeave, TypeOK, BusyThreads
  <2>8. \E u \in threads' : u \notin BusyThreads
    <3>1. BusyThreads \in SUBSET threads' /\ IsFiniteSet(threads')
      BY <1>0, <2>1, <2>2, FS_Subset DEF BusyThreads
    <3> QED
      BY <1>1, <2>7, <3>1, OneIsLeft DEF Size
  <2>9. SomeoneIsFree'
    BY <2>1, <2>8 DEF SomeoneIsFree, BusyThreads
  <2> QED
    BY <2>3, <2>4, <2>5, <2>6, <2>9 DEF PoolInv
<1> QED
  BY <1>2, <1>3

(* A thread removes itself when the pool stops. *)
LEMMA RemoveStep ==
    ASSUME PoolInv, NEW t \in Threads, RemoveMyself(t)
    PROVE  PoolInv'
<1> USE DEF RemoveMyself, Goto
<1>0. t \in threads /\ pc[t] = "remove" /\ stopFlag /\ UNCHANGED <<busyCount, info, stopFlag,
                                                                   owner, io>>
  BY DEF PoolInv, PlaceOK, TypeOK
<1>1. BusyThreads' = BusyThreads \ {t}
  BY <1>0 DEF BusyThreads, info
<1>2. Cardinality(BusyThreads') <= Cardinality(BusyThreads) /\ Cardinality(BusyThreads') \in Nat
  <2>1. IsFiniteSet(BusyThreads) /\ BusyThreads' \in SUBSET BusyThreads
    BY <1>1, PoolFinite DEF PoolInv
  <2>2. IsFiniteSet(BusyThreads')
    BY <2>1, FS_Subset
  <2> QED
    BY <2>1, <2>2, FS_Subset, FS_CardinalityType
<1>3. Size' <= Size /\ Size' \in Nat /\ Size \in Nat
  <2>1. IsFiniteSet(threads) /\ threads' \in SUBSET threads
    BY PoolFinite DEF PoolInv
  <2>2. IsFiniteSet(threads')
    BY <2>1, FS_Subset
  <2> QED
    BY <2>1, <2>2, FS_Subset, FS_CardinalityType DEF Size
<1>4. TypeOK'
  <2>1. threads' = {u \in Threads : pc'[u] # "absent" /\ ~leaving'[u]}
    BY <1>0 DEF PoolInv, TypeOK, info
  <2>2. Size' <= MaxCount
    BY <1>3, PoolAssumption DEF PoolInv, TypeOK, PoolAssumption
  <2> QED
    BY <1>0, <2>1, <2>2 DEF PoolInv, TypeOK, Labels, info, io
<1>5. ASSUME NEW u \in Threads PROVE PlaceOK(u)'
  BY <1>0 DEF PoolInv, PlaceOK, TypeOK, info
<1>6. CountOK' /\ SomeoneIsFree' /\ KeepsMinimum'
  BY <1>0, <1>2, PoolFinite DEF PoolInv, TypeOK, CountOK, BusyCountIsRight, SomeoneIsFree,
     KeepsMinimum
<1> QED
  BY <1>4, <1>5, <1>6 DEF PoolInv

(* Every step of the pool keeps the invariant.                             *)
LEMMA PoolStep == PoolInv /\ [Next]_vars => PoolInv'
<1> SUFFICES ASSUME PoolInv, [Next]_vars PROVE PoolInv'
  OBVIOUS
<1>1. ASSUME NEW t \in Threads, Thread(t) \/ IdleTimePasses(t) PROVE PoolInv'
  BY <1>1, MoveSteps, NotifyBusyStep, LaunchStep, NotifyReadyStep, LeaveStep, RemoveStep DEF Thread
<1>2. CASE UNCHANGED vars
  <2>1. UNCHANGED <<threads, busyCount, pc, busy, leaving, idle, stopFlag, owner, calls, arrived,
                    dummies, tick>>
    BY <1>2 DEF vars, info, io
  <2>2. Size' = Size /\ BusyThreads' = BusyThreads
    BY <2>1 DEF Size, BusyThreads
  <2> QED
    BY <2>1, <2>2 DEF PoolInv, TypeOK, PlaceOK, CountOK, BusyCountIsRight, SomeoneIsFree,
       KeepsMinimum, BusyThreads
<1> QED
  BY <1>1, <1>2, IoSteps, StopStep DEF Next

(* The invariant holds in every state.                                     *)
LEMMA PoolInvariant == Spec => []PoolInv
  BY PoolStarts, PoolStep, PTL DEF Spec

(* The types of the pool (ThreadPool.cpp), for any minimum and maximum of  *)
(* threads.                                                                *)
THEOREM PoolTypes == Spec => []TypeOK
  BY PoolInvariant, PTL DEF PoolInv

(* While the pool runs and may grow, someone is free to take what arrives: *)
(* who becomes busy last has launched another thread first                 *)
(* (notifyThreadBusy).                                                     *)
THEOREM PoolHasAFreeThread == Spec => []SomeoneIsFree
  BY PoolInvariant, PTL DEF PoolInv

(* The count of busy threads that the pool keeps is right, and a reserve   *)
(* thread never leaves a pool that is at its minimum.                      *)
THEOREM PoolCounts == Spec => [](BusyCountIsRight /\ KeepsMinimum)
  BY PoolInvariant, PTL DEF PoolInv, CountOK

-----------------------------------------------------------------------------
(* The connections                                                         *)
-----------------------------------------------------------------------------
(* Where a session of the transport is                                     *)
Phases == {"none", "accepting", "reading", "held", "busy", "visited", "dying"}

(* While the server runs somebody accepts, and a thread that has accepted  *)
(* a connection has it for itself.                                         *)
TransportInv ==
    /\ phase \in [Sessions -> Phases]
    /\ tpc \in [IoThreads \union Others -> {"idle", "accepted", "waiting"}]
    /\ job \in [IoThreads -> Sessions \union {None}]
    /\ visited \in Sessions \union {None} /\ todo \subseteq Sessions
    /\ visited # None => server = "cancelling"
    /\ mSessions = {s \in Sessions : phase[s] # "none"}
    /\ socket \subseteq mSessions
    /\ server \in {"started", "joining"} => T!In("accepting") # {}
    /\ \A t \in IoThreads : tpc[t] = "accepted" =>
           /\ server \in {"started", "joining"}
           /\ job[t] \in T!In("busy")
           /\ \A u \in IoThreads \ {t} : tpc[u] = "accepted" => job[u] # job[t]
    /\ T!LimitKept

-----------------------------------------------------------------------------
(* Two new elements make a finite set larger by two.                       *)
LEMMA TwoMore ==
    ASSUME NEW S, IsFiniteSet(S), NEW a, NEW b, a \notin S, b \notin S, a # b
    PROVE  Cardinality(S \union {a, b}) = Cardinality(S) + 2
<1>1. IsFiniteSet(S \union {a}) /\ Cardinality(S \union {a}) = Cardinality(S) + 1
  BY FS_AddElement
<1>2. b \notin S \union {a} /\ S \union {a, b} = (S \union {a}) \union {b}
  OBVIOUS
<1>3. Cardinality(S) \in Nat
  BY FS_CardinalityType
<1>4. \A B : IsFiniteSet(B) /\ b \notin B => Cardinality(B \union {b}) = Cardinality(B) + 1
  BY FS_AddElement
<1> QED
  BY <1>1, <1>2, <1>3, <1>4

(* A step that establishes no connection keeps the limit. *)
LEMMA NoneEstablished ==
    ASSUME TransportInv, T!Established' \subseteq T!Established
    PROVE  T!LimitKept'
<1>1. IsFiniteSet(Sessions) /\ T!Established \in SUBSET Sessions /\ connectionLimit \in Nat
  BY PartsAssumption, SameCounts DEF T!TransportAssumption, T!Established, TransportInv
<1>2. IsFiniteSet(T!Established) /\ IsFiniteSet(T!Established')
  BY <1>1, FS_Subset
<1>3. Cardinality(T!Established') <= Cardinality(T!Established)
  BY <1>2, FS_Subset
<1> QED
  BY <1>1, <1>2, <1>3, FS_CardinalityType, SameCounts DEF TransportInv, T!LimitKept

(* Besides those established, a session that accepts and the one that was  *)
(* accepted are registered when the limit is checked.                      *)
LEMMA CheckKeepsLimit ==
    ASSUME TransportInv, NEW t \in IoThreads, T!Check(t), T!LimitAllows
    PROVE  T!LimitKept'
<1>1. /\ job[t] \in Sessions /\ phase[job[t]] = "busy"
      /\ phase' = [phase EXCEPT ![job[t]] = "reading"] /\ socket' = socket
  BY DEF TransportInv, T!Check, T!In
<1>2. PICK a \in Sessions : phase[a] = "accepting"
  BY DEF TransportInv, T!Check, T!In
<1>3. T!Established' \subseteq T!Established \union {job[t]}
  BY <1>1 DEF TransportInv, T!Established
<1>4. IsFiniteSet(Sessions) /\ connectionLimit \in Nat
  BY PartsAssumption, SameCounts DEF T!TransportAssumption
<1>5. /\ T!Established \in SUBSET Sessions /\ mSessions \in SUBSET Sessions
      /\ job[t] \notin T!Established /\ a \notin T!Established /\ a # job[t]
  BY <1>1, <1>2 DEF TransportInv, T!Established
<1>6. IsFiniteSet(T!Established) /\ IsFiniteSet(mSessions) /\ Cardinality(T!Established) \in Nat
  BY <1>4, <1>5, FS_Subset, FS_CardinalityType
<1>7. /\ IsFiniteSet(T!Established \union {job[t]})
      /\ Cardinality(T!Established \union {job[t]}) = Cardinality(T!Established) + 1
  BY <1>5, <1>6, FS_AddElement
<1>8. Cardinality(T!Established \union {job[t], a}) = Cardinality(T!Established) + 2
  BY <1>5, <1>6, TwoMore
<1>9. Cardinality(T!Established) + 2 <= Cardinality(mSessions) /\ Cardinality(mSessions) \in Nat
  <2>1. T!Established \union {job[t], a} \in SUBSET mSessions
    BY <1>1, <1>2 DEF TransportInv, T!Established
  <2> QED
    BY <1>6, <1>8, <2>1, FS_Subset, FS_CardinalityType
<1>10. Cardinality(T!Established') <= Cardinality(T!Established) + 1
        /\ Cardinality(T!Established') \in Nat
  BY <1>3, <1>7, FS_Subset, FS_CardinalityType
<1> QED
  BY <1>4, <1>6, <1>9, <1>10, SameCounts DEF T!LimitKept, T!LimitAllows

(* The transport starts without sessions.                                  *)
LEMMA TransportStarts == T!Init => TransportInv
<1> SUFFICES ASSUME T!Init PROVE TransportInv
  OBVIOUS
<1>1. T!Established = {} /\ connectionLimit \in Nat
  BY PartsAssumption DEF T!Init, T!Established, T!TransportAssumption
<1>2. T!LimitKept
  BY <1>1, FS_EmptySet, SameCounts DEF T!LimitKept
<1> QED
  BY <1>2 DEF T!Init, TransportInv, Phases, T!In

(* open() makes the sessions that accept.                                  *)
LEMMA ListenStep ==
    ASSUME TransportInv, T!Start
    PROVE  TransportInv'
<1>1. PICK new \in SUBSET T!In("none") :
         /\ Cardinality(new) = initialNumberOfConnections
         /\ phase' = [s \in Sessions |-> IF s \in new THEN "accepting" ELSE phase[s]]
         /\ mSessions' = mSessions \union new /\ socket' = socket \union new
  BY SameCounts DEF T!Start
<1>2. new # {}
  BY <1>1, PartsAssumption, FS_EmptySet, SameCounts DEF T!TransportAssumption
<1>3. T!Established' \subseteq T!Established
  BY <1>1 DEF T!Established, TransportInv, T!In
<1>4. T!LimitKept'
  BY <1>3, NoneEstablished
<1> QED
  BY <1>1, <1>2, <1>4 DEF T!Start, TransportInv, Phases, T!In

(* stop(), whose threads have left when sessions are visited *)
LEMMA StoppingStep ==
    ASSUME TransportInv, T!Stop \/ T!Stopping
    PROVE  TransportInv'
<1>1. T!Established' \subseteq T!Established
  BY DEF T!Stop, T!Stopping, T!Close, T!Visit, T!CloseSocket, T!Leave, T!ResetMuxers,
     T!Established, TransportInv, Phases
<1>2. T!LimitKept'
  BY <1>1, NoneEstablished
<1>3. CASE T!Stop
  BY <1>2, <1>3 DEF T!Stop, TransportInv, Phases, T!In
<1>4. CASE T!Close
  BY <1>2, <1>4 DEF T!Close, TransportInv, Phases, T!In
<1>5. CASE T!Visit \/ T!CloseSocket
  BY <1>2, <1>5 DEF T!Visit, T!CloseSocket, TransportInv, Phases, T!In
<1>6. CASE T!Leave
  BY <1>2, <1>6, PartsAssumption DEF T!Leave, TransportInv, Phases, T!In
<1>7. CASE T!ResetMuxers
  BY <1>2, <1>7 DEF T!ResetMuxers, TransportInv, Phases, T!In
<1> QED
  BY <1>3, <1>4, <1>5, <1>6, <1>7 DEF T!Stopping

(* A connection is accepted, and handed to the thread that checks it.      *)
LEMMA AcceptStep ==
    ASSUME TransportInv, NEW t \in IoThreads, T!Accept(t)
    PROVE  TransportInv'
<1>1. PICK s \in T!In("accepting"), new \in T!In("none") :
         /\ phase' = [phase EXCEPT ![s] = "busy", ![new] = "accepting"]
         /\ mSessions' = mSessions \union {new} /\ socket' = socket \union {new}
         /\ job' = [job EXCEPT ![t] = s]
  BY DEF T!Accept
<1>2. T!Established' \subseteq T!Established
  BY <1>1 DEF T!Established, TransportInv, T!In
<1>3. T!LimitKept'
  BY <1>2, NoneEstablished
<1>4. /\ s # new /\ s \in Sessions /\ new \in Sessions /\ phase[s] = "accepting"
      /\ phase[new] = "none"
      /\ tpc' = [tpc EXCEPT ![t] = "accepted"] /\ server = "started"
      /\ UNCHANGED <<server, todo, visited>>
  BY <1>1 DEF T!Accept, T!In
<1>5. /\ phase' \in [Sessions -> Phases] /\ phase'[s] = "busy" /\ phase'[new] = "accepting"
      /\ \A r \in Sessions \ {s, new} : phase'[r] = phase[r]
  BY <1>1, <1>4 DEF TransportInv, Phases
<1>6. mSessions' = {r \in Sessions : phase'[r] # "none"}
  BY <1>1, <1>4, <1>5 DEF TransportInv
<1>7. \A u \in IoThreads : tpc'[u] = "accepted" =>
         /\ job'[u] \in Sessions /\ phase'[job'[u]] = "busy"
         /\ \A v \in IoThreads \ {u} : tpc'[v] = "accepted" => job'[v] # job'[u]
  BY <1>1, <1>4, <1>5 DEF TransportInv, T!In
<1> QED
  BY <1>1, <1>3, <1>4, <1>5, <1>6, <1>7 DEF TransportInv, T!In

(* The limit is checked: the session goes on, or is dropped; another       *)
(* accepts.                                                                *)
LEMMA LimitStep ==
    ASSUME TransportInv, NEW t \in IoThreads, T!Check(t)
    PROVE  TransportInv'
<1>1. T!LimitKept'
  <2>1. CASE T!LimitAllows
    BY <2>1, CheckKeepsLimit
  <2>2. CASE ~T!LimitAllows
    <3>1. T!Established' \subseteq T!Established
      BY <2>2 DEF T!Check, T!Established, TransportInv, T!In
    <3> QED
      BY <3>1, NoneEstablished
  <2> QED
    BY <2>1, <2>2
<1>2. PICK p \in {"reading", "dying"} : phase' = [phase EXCEPT ![job[t]] = p]
  BY DEF T!Check
<1>3. /\ tpc[t] = "accepted" /\ job[t] \in Sessions /\ phase[job[t]] = "busy"
      /\ socket' \subseteq socket
      /\ tpc' = [tpc EXCEPT ![t] = "idle"] /\ job' = [job EXCEPT ![t] = None]
      /\ UNCHANGED <<mSessions, server, todo, visited>>
  BY DEF T!Check, TransportInv, T!In
<1>4. \A u \in IoThreads \ {t} : tpc[u] = "accepted" => job[u] # job[t]
  BY <1>3 DEF TransportInv
<1>5. /\ phase' \in [Sessions -> Phases] /\ phase'[job[t]] = p
      /\ \A r \in Sessions \ {job[t]} : phase'[r] = phase[r]
  BY <1>2, <1>3 DEF TransportInv, Phases
<1>6. \A u \in IoThreads : tpc'[u] = "accepted" =>
         /\ job'[u] \in Sessions /\ phase'[job'[u]] = "busy"
         /\ \A v \in IoThreads \ {u} : tpc'[v] = "accepted" => job'[v] # job'[u]
  BY <1>2, <1>3, <1>4, <1>5 DEF TransportInv, T!In
<1>7. mSessions' = {r \in Sessions : phase'[r] # "none"}
  BY <1>3, <1>5 DEF TransportInv
<1> QED
  BY <1>1, <1>3, <1>5, <1>6, <1>7 DEF TransportInv, T!In

(* Calls, clients and contexts concern established sessions only. *)
LEMMA ConnectionStep ==
    ASSUME TransportInv,
           \/ \E t \in IoThreads : T!Call(t) \/ T!PeerCloses(t)
           \/ \E s \in Sessions : T!Commit(s)
    PROVE  TransportInv'
<1>1. PICK s \in Sessions, p \in Phases :
          /\ phase[s] \in {"reading", "held"} /\ phase' = [phase EXCEPT ![s] = p]
          /\ p \in {"reading", "held"} => s \in socket
          /\ p \notin {"none", "accepting", "busy"}
  BY DEF T!Call, T!PeerCloses, T!Commit, TransportInv, T!Established, T!In, Phases, T!Dropped
<1>2. socket' \subseteq socket /\ UNCHANGED <<mSessions, job, tpc, server, todo, visited>>
  BY DEF T!Call, T!PeerCloses, T!Commit
<1>3. T!Established' \subseteq T!Established
  BY <1>1, <1>2 DEF T!Established, TransportInv
<1>4. T!LimitKept'
  BY <1>3, NoneEstablished
<1> QED
  BY <1>1, <1>2, <1>4 DEF TransportInv, T!In

(* A session that nobody holds is destroyed.                               *)
LEMMA DestroyStep ==
    ASSUME TransportInv, NEW s \in Sessions, T!Destroy(s)
    PROVE  TransportInv'
<1>1. T!Established' \subseteq T!Established
  BY DEF T!Destroy, T!Established, TransportInv
<1>2. T!LimitKept'
  BY <1>1, NoneEstablished
<1> QED
  BY <1>2 DEF T!Destroy, TransportInv, Phases, T!In

(* Threads outside wait for the server to stop.                            *)
LEMMA WaiterStep ==
    ASSUME TransportInv, (\E t \in Waiters : T!WaitForStop(t)) \/ T!Connect \/ UNCHANGED T!vars
    PROVE  TransportInv'
<1>1. UNCHANGED <<phase, socket, mSessions, job, server, todo, visited>>
  BY DEF T!WaitForStop, T!Connect, T!vars
<1>2. /\ tpc' \in [IoThreads \union Others -> {"idle", "accepted", "waiting"}]
      /\ \A t \in IoThreads : tpc'[t] = "accepted" => tpc[t] = "accepted"
  BY PartsAssumption DEF T!WaitForStop, T!Connect, T!vars, TransportInv, T!TransportAssumption
<1>3. T!Established' = T!Established
  BY <1>1 DEF T!Established
<1>4. T!LimitKept'
  BY <1>3, NoneEstablished
<1> QED
  BY <1>1, <1>2, <1>4 DEF TransportInv, T!In

(* Every step of the transport keeps the invariant.                        *)
LEMMA TransportStep == TransportInv /\ [T!Next]_(T!vars) => TransportInv'
  BY ListenStep, StoppingStep, AcceptStep, LimitStep, ConnectionStep, DestroyStep, WaiterStep
     DEF T!Next

(* The invariant holds in every state.                                     *)
LEMMA TransportInvariant == T!Spec => []TransportInv
  BY TransportStarts, TransportStep, PTL DEF T!Spec

(* AsioServerTransport::isConnectionLimitReached: there are never more     *)
(* established connections than the limit allows, whatever threads accept  *)
(* and check at the same time.                                             *)
THEOREM LimitIsKept == T!Spec => []LimitKept
  BY TransportInvariant, PTL DEF TransportInv, LimitKept

-----------------------------------------------------------------------------
(* A session                                                               *)
-----------------------------------------------------------------------------
(* The part of the session that a call, or the reading of one, goes        *)
(* through: thread t has it                                                *)
HasCall(t) ==
    \/ spc[t] \in {"read", "request", "register", "registered", "servant", "send", "write"}
    \/ spc[t] \in {"served", "returned"} /\ autoSend
    \/ spc[t] = "written" /\ ~pinging

(* Where a thread may be                                                   *)
SessionLabels ==
    {"idle", "read", "request", "register", "registered", "servant", "served", "returned", "send",
     "write", "written", "leave"}

(* The types of a session                                                  *)
SessionTypes ==
    /\ sent \in Seq(N!Call) /\ inbox \in Seq(Nat) /\ received \in Seq(N!Message)
    /\ consumed \in Nat /\ readLeft \in Nat /\ reading \in Nat /\ writing \in Nat
    /\ request \in Nat /\ clock \in Nat /\ entry \in Nat /\ heap \subseteq 0..clock
    /\ expired \in Nat \union {None}
    /\ autoSend \in BOOLEAN /\ pinging \in BOOLEAN /\ closing \in BOOLEAN /\ zeroByte \in BOOLEAN
    /\ mutex \in N!AllThreads \union {None}
    /\ spc \in [N!AllThreads -> SessionLabels]
    /\ DOMAIN msg = N!AllThreads

(* Answers have been sent for calls up to the n-th. *)
AnsweredUpTo(n) == \A k \in DOMAIN received : received[k].type # "ping" => received[k].of <= n

(* The response to the call in progress, or the error *)
IsResponse(m) == \E type \in {"response", "error"} : m = N!Response(type)

(* The call in progress, which is not answered *)
Serves == request \in DOMAIN sent /\ AnsweredUpTo(request - 1)
(* and one whose request is fine                                           *)
ServesFine == Serves /\ N!Current.form = "fine"

(* Requests that were read, and the one that waits for the mutex *)
InboxOK(waiting) ==
    /\ Len(inbox) = Len(sent) - request - waiting
    /\ \A i \in 1..Len(inbox) : inbox[i] = request + waiting + i

(* Who goes on with the connection: a read, a write, a thread, a context   *)
(* or the response that waits for a ping                                   *)
Kinds == {"nobody", "read", "write", "thread", "context", "queue"}

(* A ping may be sent while the call is made. *)
PingMay(kind, who) ==
    /\ kind \in {"thread", "context", "queue"}
    /\ kind = "thread" => spc[who] \in {"registered", "servant", "served", "returned", "send"}
    /\ request \in DOMAIN sent /\ N!Current.ping /\ ~N!Current.oneway

(* Exactly one goes on, and the others are as they would be without a call.*)
GoesOn(kind, who) ==
    /\ \A t \in N!AllThreads : HasCall(t) <=> kind = "thread" /\ who = t
    /\ kind = "thread" => who \in N!AllThreads
    /\ contexts = IF kind = "context" THEN {request} ELSE {}
    /\ IF kind = "queue" THEN IsResponse(queued) ELSE queued = None
    /\ reading = IF kind = "read" THEN 1 ELSE 0
    /\ kind # "nobody" => InboxOK(IF kind = "thread" /\ spc[who] = "read" THEN 1 ELSE 0)
    /\ kind = "read" => AnsweredUpTo(request) /\ (zeroByte \/ readLeft > 0)
    /\ kind \in {"context", "queue"} => ServesFine
    /\ kind = "queue" => pinging /\ heap = {} /\ ~N!Current.oneway

(* A write that is not a ping is of the answer; a ping alone may be written*)
(* meanwhile.                                                              *)
WriteOK(kind) ==
    /\ ~pinging => writing = IF kind = "write" THEN 1 ELSE 0
    /\ kind = "write" =>
           /\ ~pinging /\ writeBuf \in N!Message /\ writeBuf.type # "ping"
           /\ AnsweredUpTo(writeBuf.of - 1)
           /\ writeBuf.of \in DOMAIN sent /\ N!IsAnswered(sent[writeBuf.of])
           /\ closing \/ writeBuf.of = request
    /\ pinging =>
           /\ writing <= 1
           /\ writing = 1 => writeBuf \in N!Message /\ writeBuf.type = "ping"
              /\ \A t \in N!AllThreads : spc[t] # "written"
           /\ \A t, u \in N!AllThreads : spc[t] = "written" /\ spc[u] = "written" => t = u

(* The entry of the ping timer belongs to the call in progress.            *)
PingOK(kind, who) ==
    /\ pinging \/ heap # {} => PingMay(kind, who)
    /\ IF kind = "thread" /\ spc[who] = "registered"
         THEN msg[who] = clock /\ heap = {clock} /\ expired # clock
         ELSE heap \subseteq {entry}
    /\ expired # None => expired <= clock

(* What thread t has done of the call *)
CallOK(t) ==
    /\ spc[t] \in {"request", "register", "registered", "servant", "served", "returned"} =>
       mutex = t
    /\ spc[t] \in {"register", "registered", "servant"} => autoSend
    /\ spc[t] = "read" => AnsweredUpTo(request) /\ request + 1 \in DOMAIN sent
    /\ spc[t] = "request" => Serves
    /\ spc[t] = "register" => N!Current.ping /\ ~N!Current.oneway
    /\ spc[t] \in {"register", "registered", "servant", "send", "write"} => ServesFine
    /\ spc[t] \in {"served", "returned"} /\ autoSend => ServesFine
    /\ spc[t] \in {"send", "write"} => IsResponse(msg[t]) /\ N!IsAnswered(N!Current)
    /\ spc[t] = "written" /\ ~pinging => AnsweredUpTo(request)

(* Answers are to calls that were made. *)
AnswersKnown == \A k \in DOMAIN received : received[k].type # "ping" =>
    received[k].of \in DOMAIN sent

(* The invariant, with kind and who as the one that goes on                *)
SessionAt(kind, who) ==
    /\ kind \in Kinds /\ who \in N!AllThreads \union {None}
    /\ SessionTypes
    /\ N!InOrder /\ AnswersKnown
    /\ \A t \in N!AllThreads : CallOK(t)
    /\ GoesOn(kind, who) /\ WriteOK(kind) /\ PingOK(kind, who)

(* ... until a call is answered twice *)
SessionInv == twice \/ \E kind \in Kinds, who \in N!AllThreads \union {None} : SessionAt(kind, who)

-----------------------------------------------------------------------------
(* What is said of calls and answers depends on these only. *)
LEMMA SameAnswers ==
    ASSUME UNCHANGED <<sent, received, request>>
    PROVE  /\ N!InOrder <=> N!InOrder'
           /\ AnswersKnown <=> AnswersKnown'
           /\ \A n : AnsweredUpTo(n)' <=> AnsweredUpTo(n)
           /\ Serves' <=> Serves
           /\ ServesFine' <=> ServesFine
           /\ N!Current' = N!Current
           /\ \A m : IsResponse(m)' <=> IsResponse(m)
  BY DEF N!InOrder, AnswersKnown, AnsweredUpTo, Serves, ServesFine, N!Current, N!Response,
     IsResponse

(* A response is a message about the call in progress.                     *)
LEMMA ResponseIs ==
    ASSUME SessionTypes, NEW m, IsResponse(m)
    PROVE  m \in N!Message /\ m.type # "ping" /\ m.of = request /\ m # None
<1>1. PICK type \in {"response", "error"} : m = [type |-> type, of |-> request]
  BY DEF IsResponse, N!Response
<1>2. m \in N!Message
  BY <1>1 DEF N!Message, SessionTypes
<1> QED
  BY <1>1, <1>2, PartsAssumption DEF N!SessionAssumption

(* A step of t leaves the others where they are. *)
LEMMA OtherThreads ==
    ASSUME \A u \in N!AllThreads : CallOK(u),
           NEW t \in N!AllThreads,
           UNCHANGED <<sent, received, request, autoSend, pinging>>,
           \A u \in N!AllThreads \ {t} :
               spc'[u] = spc[u] /\ msg'[u] = msg[u] /\ (mutex = u => mutex' = u)
    PROVE  \A u \in N!AllThreads \ {t} : CallOK(u)' /\ (HasCall(u)' <=> HasCall(u))
  BY SameAnswers DEF CallOK, HasCall

(* A session starts with a read.                                           *)
LEMMA SessionStarts == N!Init => SessionInv
<1> SUFFICES ASSUME N!Init PROVE SessionAt("read", None)
  BY DEF SessionInv, Kinds
<1> USE DEF N!Init
<1>1. SessionTypes
  <2>1. sent \in Seq(N!Call) /\ inbox \in Seq(Nat) /\ received \in Seq(N!Message)
          /\ heap \subseteq 0..clock
    OBVIOUS
  <2> QED
    BY <2>1, PartsAssumption DEF SessionTypes, SessionLabels, N!SessionAssumption
<1>2. N!InOrder /\ AnswersKnown /\ \A n : AnsweredUpTo(n)
  BY DEF N!InOrder, AnswersKnown, AnsweredUpTo
<1>3. \A t \in N!AllThreads : CallOK(t) /\ ~HasCall(t)
  BY DEF CallOK, HasCall
<1>4. GoesOn("read", None)
  BY <1>2, <1>3 DEF GoesOn, InboxOK
<1>5. WriteOK("read") /\ PingOK("read", None)
  BY PartsAssumption DEF WriteOK, PingOK, N!SessionAssumption
<1> QED
  BY <1>1, <1>2, <1>3, <1>4, <1>5 DEF SessionAt, Kinds

(* Steps of the client, the timeout service, and time *)
LEMMA QuietStep ==
    ASSUME NEW kind, NEW who, SessionAt(kind, who),
           N!ReaperLooks \/ N!ReaperDecides \/ N!ReaperCloses \/ N!TimePasses \/ N!ClientCloses
               \/ UNCHANGED N!vars
    PROVE  SessionAt(kind, who)'
<1>1. UNCHANGED <<sent, received, inbox, consumed, closing, zeroByte, readLeft, reading, writeBuf,
                  writing, request, autoSend, contexts, mutex, entry, heap, clock, pinging,
                  queued, spc, msg, expired>>
  BY DEF N!ReaperLooks, N!ReaperDecides, N!ReaperCloses, N!TimePasses, N!ClientCloses, N!vars,
         N!client, N!channel, N!reads, N!writes, N!net, N!call, N!idling, N!pings, N!sending
<1>2. SessionTypes' /\ N!InOrder' /\ AnswersKnown'
  BY <1>1, SameAnswers DEF SessionAt, SessionTypes
<1>3. \A t \in N!AllThreads : CallOK(t)' /\ (HasCall(t)' <=> HasCall(t))
  BY <1>1, SameAnswers DEF SessionAt, CallOK, HasCall
<1>4. GoesOn(kind, who)'
  BY <1>1, <1>3, SameAnswers DEF SessionAt, GoesOn, InboxOK
<1>5. WriteOK(kind)' /\ PingOK(kind, who)'
  BY <1>1, SameAnswers DEF SessionAt, WriteOK, PingOK, PingMay
<1> QED
  BY <1>2, <1>3, <1>4, <1>5 DEF SessionAt

(* The client makes another call; those it has made stay as they are. *)
LEMMA ClientStep ==
    ASSUME NEW kind, NEW who, SessionAt(kind, who), N!ClientCalls
    PROVE  SessionAt(kind, who)'
<1>1. UNCHANGED <<received, consumed, closing, zeroByte, readLeft, reading, writeBuf, writing,
                  request, autoSend, contexts, mutex, entry, heap, clock, pinging, queued, spc,
                  msg, expired>>
  BY DEF N!ClientCalls, N!client, N!channel, N!reads, N!writes, N!net, N!call, N!idling, N!pings,
     N!sending
<1>2. PICK c \in N!Call : sent' = Append(sent, c) /\ inbox' = Append(inbox, Len(sent) + 1)
  BY PartsAssumption DEF N!ClientCalls, N!SessionAssumption
<1>3. /\ sent' \in Seq(N!Call) /\ inbox' \in Seq(Nat) /\ Len(sent') = Len(sent) + 1
      /\ Len(inbox') = Len(inbox) + 1
      /\ \A i \in DOMAIN sent : i \in DOMAIN sent' /\ sent'[i] = sent[i]
      /\ \A i \in 1..Len(inbox) : inbox'[i] = inbox[i]
      /\ inbox'[Len(inbox) + 1] = Len(sent) + 1
  BY <1>2 DEF SessionAt, SessionTypes
<1>4. SessionTypes'
  BY <1>1, <1>3 DEF SessionAt, SessionTypes
<1>5. N!InOrder' /\ AnswersKnown'
  BY <1>1, <1>3 DEF SessionAt, N!InOrder, AnswersKnown
<1>6. /\ \A n : AnsweredUpTo(n)' <=> AnsweredUpTo(n)
      /\ Serves => Serves' /\ N!Current' = N!Current
  BY <1>1, <1>3 DEF AnsweredUpTo, Serves, N!Current
<1>7. \A t \in N!AllThreads : CallOK(t)'
  BY <1>1, <1>3, <1>6 DEF SessionAt, CallOK, ServesFine, N!Response, IsResponse
<1>8. ASSUME NEW w \in {0, 1}, InboxOK(w) PROVE InboxOK(w)'
  <2>1. Len(inbox) \in Nat /\ Len(sent) \in Nat /\ request \in Nat
    BY DEF SessionAt, SessionTypes
  <2>2. Len(inbox) = Len(sent) - request - w /\ \A i \in 1..Len(inbox) : inbox[i] = request + w + i
    BY <1>8 DEF InboxOK
  <2>3. Len(inbox') = Len(sent') - request - w
    BY <1>3, <2>1, <2>2
  <2>4. ASSUME NEW i \in 1..Len(inbox') PROVE inbox'[i] = request + w + i
    <3>1. CASE i \in 1..Len(inbox)
      BY <1>3, <2>2, <3>1
    <3>2. CASE i = Len(inbox) + 1
      BY <1>3, <2>1, <2>2, <3>2
    <3> QED
      BY <1>3, <2>1, <3>1, <3>2
  <2> QED
    BY <1>1, <2>3, <2>4 DEF InboxOK
<1>9. GoesOn(kind, who)'
  BY <1>1, <1>6, <1>8 DEF SessionAt, GoesOn, HasCall, ServesFine, N!Response, IsResponse
<1>10. WriteOK(kind)'
  BY <1>1, <1>3, <1>6 DEF SessionAt, WriteOK
<1>11. PingOK(kind, who)'
  BY <1>1, <1>3 DEF SessionAt, PingOK, PingMay, N!Current
<1> QED
  BY <1>4, <1>5, <1>7, <1>9, <1>10, <1>11 DEF SessionAt

-----------------------------------------------------------------------------
(* Steps of the thread that has the call *)

(* The thread takes the mutex of the session for the request it has read.  *)
LEMMA EnterStep ==
    ASSUME NEW kind, NEW who, SessionAt(kind, who), NEW t \in N!AllThreads, N!Enter(t)
    PROVE  SessionAt("thread", t)'
<1> USE DEF SessionAt
<1>1. kind = "thread" /\ who = t
  BY DEF N!Enter, GoesOn, HasCall
<1>2. UNCHANGED <<sent, received, inbox, consumed, closing, zeroByte, readLeft, reading, writeBuf,
                  writing, autoSend, contexts, entry, heap, clock, pinging, queued, msg, expired>>
  BY DEF N!Enter, N!client, N!channel, N!reads, N!writes, N!net, N!call, N!idling, N!pings,
     N!sending
<1>3. /\ spc[t] = "read" /\ mutex = None /\ mutex' = t /\ spc' = [spc EXCEPT ![t] = "request"]
      /\ request' = request + 1 /\ request \in Nat
  BY DEF N!Enter, N!Goto, SessionTypes
<1>4. SessionTypes' /\ N!InOrder' /\ AnswersKnown'
  BY <1>2, <1>3 DEF SessionTypes, SessionLabels, N!InOrder, AnswersKnown
<1>5. Serves'
  BY <1>2, <1>3 DEF CallOK, Serves, AnsweredUpTo
<1>6. \A u \in N!AllThreads \ {t} : ~HasCall(u) /\ spc'[u] = spc[u]
  BY <1>1, <1>3 DEF GoesOn, SessionTypes
<1>7. ~pinging /\ heap = {}
  BY <1>1, <1>3 DEF PingOK, PingMay, SessionTypes
<1>8. \A u \in N!AllThreads : CallOK(u)' /\ (HasCall(u)' <=> u = t)
  BY <1>2, <1>3, <1>5, <1>6, PartsAssumption
     DEF CallOK, HasCall, SessionTypes, N!SessionAssumption, N!AllThreads
<1>9. GoesOn("thread", t)'
  BY <1>1, <1>2, <1>3, <1>8 DEF GoesOn, InboxOK, SessionTypes
<1>10. WriteOK("thread")' /\ PingOK("thread", t)'
  BY <1>1, <1>2, <1>3, <1>7 DEF WriteOK, PingOK, SessionTypes
<1> QED
  BY <1>4, <1>8, <1>9, <1>10 DEF Kinds

(* An answer to the next call keeps the answers in order.                  *)
LEMMA AnsweredMore ==
    ASSUME SessionTypes, Serves
    PROVE  AnsweredUpTo(request)
<1>1. \A k \in DOMAIN received : received[k] \in N!Message
  BY DEF SessionTypes
<1>2. \A k \in DOMAIN received : received[k].of \in Nat
  BY <1>1 DEF N!Message
<1> QED
  BY <1>2 DEF Serves, AnsweredUpTo, SessionTypes

(* A thread that has the call is alone with it. *)
LEMMA Alone ==
    ASSUME NEW kind, NEW who, SessionAt(kind, who), NEW t \in N!AllThreads, HasCall(t)
    PROVE  /\ kind = "thread" /\ who = t
           /\ \A u \in N!AllThreads \ {t} : ~HasCall(u)
           /\ reading = 0 /\ contexts = {} /\ queued = None
           /\ InboxOK(IF spc[t] = "read" THEN 1 ELSE 0)
           /\ ~pinging => writing = 0
           /\ pinging \/ heap # {} =>
                  spc[t] \in {"registered", "servant", "served", "returned", "send"}
                      /\ N!Current.ping /\ ~N!Current.oneway
           /\ CallOK(t)
  BY DEF SessionAt, GoesOn, WriteOK, PingOK, PingMay, SessionTypes

(* postWrite() of an answer, when nothing else is written *)
LEMMA AnswerIsWritten ==
    ASSUME NEW kind, NEW who, SessionAt(kind, who), NEW t \in N!AllThreads, HasCall(t),
           spc[t] \in {"request", "write"},
           ServesFine \/ (Serves /\ N!Current.form = "newer"), N!IsAnswered(N!Current),
           NEW m \in N!Message, m.type # "ping", m.of = request,
           N!PostWrite(m, writing), spc' = [spc EXCEPT ![t] = "leave"],
           UNCHANGED <<sent, received, inbox, consumed, closing, zeroByte, readLeft, reading,
                       request, autoSend, contexts, mutex, entry, heap, clock, pinging, queued,
                       msg, expired>>
    PROVE  SessionInv'
<1>1. /\ ~pinging /\ heap = {} /\ writing = 0 /\ reading = 0 /\ contexts = {} /\ queued = None
      /\ InboxOK(0)
      /\ \A u \in N!AllThreads \ {t} : ~HasCall(u)
  BY Alone
<1>2. \A u \in N!AllThreads : CallOK(u)' /\ ~HasCall(u)'
  BY <1>1, OtherThreads DEF SessionAt, SessionTypes, CallOK, HasCall
<1>3. writing' = 0 \/ (writing' = 1 /\ writeBuf' = m)
  BY <1>1 DEF N!PostWrite, N!BeginWrite
<1>4. SessionTypes' /\ N!InOrder' /\ AnswersKnown'
  BY <1>3, SameAnswers DEF SessionAt, SessionTypes, SessionLabels
<1>5. InboxOK(0)'
  BY <1>1 DEF InboxOK
<1>6. CASE writing' = 0
  <2>1. GoesOn("nobody", None)' /\ WriteOK("nobody")'
    BY <1>1, <1>2, <1>6 DEF GoesOn, WriteOK
  <2>2. PingOK("nobody", None)'
    BY <1>1 DEF SessionAt, PingOK
  <2> QED
    BY <1>2, <1>4, <2>1, <2>2 DEF SessionAt, SessionInv, Kinds
<1>7. CASE writing' = 1 /\ writeBuf' = m
  <2>1. GoesOn("write", None)'
    BY <1>1, <1>2, <1>5 DEF GoesOn
  <2>2. request \in DOMAIN sent /\ AnsweredUpTo(request - 1)
    BY DEF ServesFine, Serves
  <2>3. WriteOK("write")'
    BY <1>1, <1>7, <2>2, SameAnswers DEF WriteOK, N!Current
  <2>4. PingOK("write", None)'
    BY <1>1 DEF SessionAt, PingOK
  <2> QED
    BY <1>2, <1>4, <2>1, <2>3, <2>4 DEF SessionAt, SessionInv, Kinds
<1> QED
  BY <1>3, <1>6, <1>7

(* The request is decoded, and answered at once if it is not fine.         *)
LEMMA DecodeStep ==
    ASSUME NEW kind, NEW who, SessionAt(kind, who), NEW t \in N!AllThreads, N!Decode(t)
    PROVE  SessionInv'
<1>1. UNCHANGED <<sent, received, inbox, consumed, closing, zeroByte, readLeft, reading, request,
                  contexts, mutex, entry, heap, clock, pinging, queued, msg, expired>>
  BY DEF N!Decode, N!client, N!channel, N!reads, N!writes, N!net, N!call, N!idling, N!pings,
     N!sending
<1>2. spc[t] = "request" /\ HasCall(t) /\ Serves /\ mutex = t
  BY DEF N!Decode, HasCall, SessionAt, CallOK
<1>3. /\ ~pinging /\ heap = {} /\ writing = 0 /\ reading = 0 /\ contexts = {} /\ queued = None
      /\ InboxOK(0)
      /\ \A u \in N!AllThreads \ {t} : ~HasCall(u)
  BY <1>2, Alone
<1>4. InboxOK(0)'
  BY <1>1, <1>3 DEF InboxOK
<1>5. Serves' /\ N!Current' = N!Current
  BY <1>1, <1>2, SameAnswers
<1>6. N!InOrder' /\ AnswersKnown'
  BY <1>1, SameAnswers DEF SessionAt
<1>7. CASE N!Current.form = "newer" /\ N!Current.oneway
  <2>1. spc' = [spc EXCEPT ![t] = "written"] /\ UNCHANGED <<state, N!writes, autoSend>>
    BY <1>2, <1>7 DEF N!Decode, N!Goto
  <2>2. SessionTypes'
    BY <1>1, <2>1 DEF SessionAt, SessionTypes, SessionLabels, N!writes
  <2>3. AnsweredUpTo(request)'
    BY <1>1, <1>2, AnsweredMore, SameAnswers DEF SessionAt
  <2>4. \A u \in N!AllThreads : CallOK(u)' /\ (HasCall(u)' <=> u = t)
    BY <1>1, <1>3, <2>1, <2>3, OtherThreads DEF SessionAt, SessionTypes, CallOK, HasCall
  <2>5. GoesOn("thread", t)' /\ WriteOK("thread")' /\ PingOK("thread", t)'
    BY <1>1, <1>3, <1>4, <2>1, <2>4 DEF SessionAt, SessionTypes, GoesOn, WriteOK, PingOK, N!writes
  <2> QED
    BY <1>6, <2>2, <2>4, <2>5 DEF SessionAt, SessionInv, Kinds
<1>8. CASE N!Current.form = "newer" /\ ~N!Current.oneway
  <2>1. spc' = [spc EXCEPT ![t] = "leave"] /\ N!PostWrite(N!Response("error"), writing)
          /\ UNCHANGED autoSend
    BY <1>2, <1>8 DEF N!Decode, N!Goto
  <2>2. N!Response("error") \in N!Message /\ N!Response("error").type # "ping"
          /\ N!Response("error").of = request
    BY DEF N!Response, N!Message, SessionAt, SessionTypes
  <2> QED
    BY <1>1, <1>2, <1>8, <2>1, <2>2, AnswerIsWritten DEF N!IsAnswered, N!WantsAnswer
<1>9. CASE N!Current.form = "close"
  <2>1. spc' = [spc EXCEPT ![t] = "leave"] /\ UNCHANGED <<state, N!writes, autoSend>>
    BY <1>2, <1>9 DEF N!Decode, N!Goto
  <2>2. SessionTypes'
    BY <1>1, <2>1 DEF SessionAt, SessionTypes, SessionLabels, N!writes
  <2>3. \A u \in N!AllThreads : CallOK(u)' /\ ~HasCall(u)'
    BY <1>1, <1>3, <2>1, OtherThreads DEF SessionAt, SessionTypes, CallOK, HasCall
  <2>4. GoesOn("nobody", None)' /\ WriteOK("nobody")' /\ PingOK("nobody", None)'
    BY <1>1, <1>3, <2>1, <2>3 DEF SessionAt, GoesOn, WriteOK, PingOK, N!writes
  <2> QED
    BY <1>6, <2>2, <2>3, <2>4 DEF SessionAt, SessionInv, Kinds
<1>10. CASE N!Current.form = "fine"
  <2>1. /\ spc' = [spc EXCEPT ![t] = IF N!Current.ping
          /\ ~N!Current.oneway THEN "register" ELSE "servant"]
        /\ autoSend' = TRUE /\ UNCHANGED <<state, N!writes>>
    BY <1>2, <1>10 DEF N!Decode, N!Goto
  <2>2. SessionTypes'
    BY <1>1, <2>1 DEF SessionAt, SessionTypes, SessionLabels, N!writes
  <2>3. ServesFine'
    BY <1>5, <1>10 DEF ServesFine
  <2>4. \A u \in N!AllThreads \ {t} : spc'[u] = spc[u] /\ spc[u] \notin {"served", "returned"}
    BY <1>2, <2>1 DEF SessionAt, SessionTypes, CallOK
  <2>5. \A u \in N!AllThreads : CallOK(u)' /\ (HasCall(u)' <=> u = t)
    BY <1>1, <1>2, <1>3, <2>1, <2>3, <2>4, SameAnswers DEF SessionAt, SessionTypes, CallOK, HasCall
  <2>6. GoesOn("thread", t)' /\ WriteOK("thread")' /\ PingOK("thread", t)'
    BY <1>1, <1>3, <1>4, <2>1, <2>5 DEF SessionAt, SessionTypes, GoesOn, WriteOK, PingOK, N!writes
  <2> QED
    BY <1>6, <2>2, <2>5, <2>6 DEF SessionAt, SessionInv, Kinds
<1> QED
  BY <1>7, <1>8, <1>9, <1>10 DEF N!Decode

(* registerForPingBacks() *)
LEMMA RegisterStep ==
    ASSUME NEW kind, NEW who, SessionAt(kind, who), NEW t \in N!AllThreads, N!Register(t)
    PROVE  SessionAt("thread", t)'
<1>1. UNCHANGED <<sent, received, inbox, consumed, closing, zeroByte, readLeft, reading, writeBuf,
                  writing, request, autoSend, contexts, mutex, entry, pinging, queued, expired>>
  BY DEF N!Register, N!client, N!channel, N!reads, N!writes, N!net, N!call, N!idling, N!pings,
     N!sending
<1>2. /\ spc[t] = "register" /\ HasCall(t) /\ spc' = [spc EXCEPT ![t] = "registered"]
      /\ heap' = heap \union {clock + 1} /\ clock' = clock + 1
      /\ msg' = [msg EXCEPT ![t] = clock + 1]
  BY DEF N!Register, HasCall, N!Goto
<1>3. /\ ~pinging /\ heap = {} /\ writing = 0 /\ reading = 0 /\ contexts = {} /\ queued = None
      /\ InboxOK(0)
      /\ \A u \in N!AllThreads \ {t} : ~HasCall(u)
  BY <1>2, Alone
<1>4. SessionTypes' /\ N!InOrder' /\ AnswersKnown'
  <2>1. clock \in Nat /\ heap' \subseteq 0..clock'
    BY <1>2, <1>3 DEF SessionAt, SessionTypes
  <2> QED
    BY <1>1, <1>2, <2>1, SameAnswers DEF SessionAt, SessionTypes, SessionLabels
<1>5. \A u \in N!AllThreads : CallOK(u)' /\ (HasCall(u)' <=> u = t)
  BY <1>1, <1>2, <1>3, OtherThreads, SameAnswers DEF SessionAt, SessionTypes, CallOK, HasCall
<1>6. GoesOn("thread", t)'
  BY <1>1, <1>2, <1>3, <1>5 DEF SessionAt, SessionTypes, GoesOn, InboxOK
<1>7. N!Current.ping /\ ~N!Current.oneway /\ request \in DOMAIN sent
  BY <1>2 DEF SessionAt, CallOK, ServesFine, Serves
<1>8. WriteOK("thread")'
  BY <1>1, <1>3 DEF WriteOK
<1>9. PingOK("thread", t)'
  <2>1. clock' \in Nat /\ expired' # clock' /\ (expired' # None =>
          expired' <= clock') /\ heap' = {clock'}
    BY <1>1, <1>2, <1>3, PartsAssumption DEF SessionAt, SessionTypes, PingOK, N!SessionAssumption
  <2>2. PingMay("thread", t)'
    BY <1>1, <1>2, <1>7, SameAnswers DEF PingMay, SessionAt, SessionTypes
  <2> QED
    BY <1>2, <2>1, <2>2 DEF PingOK, SessionAt, SessionTypes
<1> QED
  BY <1>4, <1>5, <1>6, <1>8, <1>9 DEF SessionAt, Kinds

(* The entry is kept where the servant finds it.                           *)
LEMMA KeepEntryStep ==
    ASSUME NEW kind, NEW who, SessionAt(kind, who), NEW t \in N!AllThreads, N!KeepEntry(t)
    PROVE  SessionAt("thread", t)'
<1>1. UNCHANGED <<sent, received, inbox, consumed, closing, zeroByte, readLeft, reading, writeBuf,
                  writing, request, autoSend, contexts, mutex, heap, clock, pinging, queued,
                  expired>>
  BY DEF N!KeepEntry, N!client, N!channel, N!reads, N!writes, N!net, N!call, N!idling, N!pings,
     N!sending
<1>2. /\ spc[t] = "registered" /\ HasCall(t) /\ spc' = [spc EXCEPT ![t] = "servant"]
      /\ entry' = msg[t] /\ msg' = [msg EXCEPT ![t] = None]
  BY DEF N!KeepEntry, HasCall, N!Goto
<1>3. /\ kind = "thread" /\ who = t /\ reading = 0 /\ contexts = {} /\ queued = None /\ InboxOK(0)
      /\ \A u \in N!AllThreads \ {t} : ~HasCall(u)
  BY <1>2, Alone
<1>4. heap = {clock} /\ msg[t] = clock /\ clock \in Nat /\ PingMay("thread", t)
  BY <1>2, <1>3 DEF SessionAt, SessionTypes, PingOK
<1>5. SessionTypes' /\ N!InOrder' /\ AnswersKnown'
  BY <1>1, <1>2, <1>4, SameAnswers DEF SessionAt, SessionTypes, SessionLabels
<1>6. \A u \in N!AllThreads : CallOK(u)' /\ (HasCall(u)' <=> u = t)
  BY <1>1, <1>2, <1>3, OtherThreads, SameAnswers DEF SessionAt, SessionTypes, CallOK, HasCall
<1>7. GoesOn("thread", t)'
  BY <1>1, <1>2, <1>3, <1>6 DEF SessionAt, SessionTypes, GoesOn, InboxOK
<1>8. WriteOK("thread")'
  BY <1>1, <1>2, <1>3 DEF SessionAt, SessionTypes, WriteOK
<1>9. PingOK("thread", t)'
  BY <1>1, <1>2, <1>3, <1>4, SameAnswers DEF SessionAt, SessionTypes, PingOK, PingMay
<1> QED
  BY <1>5, <1>6, <1>7, <1>8, <1>9 DEF SessionAt, Kinds

(* The servant returns, throws, or keeps a context.                        *)
LEMMA ServantStep ==
    ASSUME NEW kind, NEW who, SessionAt(kind, who), NEW t \in N!AllThreads, N!Servant(t)
    PROVE  SessionInv'
<1>1. UNCHANGED <<sent, received, inbox, consumed, closing, zeroByte, readLeft, reading, writeBuf,
                  writing, request, mutex, entry, heap, clock, pinging, queued, msg, expired>>
  BY DEF N!Servant, N!client, N!channel, N!reads, N!writes, N!net, N!call, N!idling, N!pings,
     N!sending
<1>2. /\ spc[t] = "servant" /\ HasCall(t) /\ spc' = [spc EXCEPT ![t] = "served"]
      /\ mutex = t /\ autoSend /\ ServesFine
  BY DEF N!Servant, HasCall, N!Goto, SessionAt, CallOK
<1>3. /\ kind = "thread" /\ who = t /\ reading = 0 /\ contexts = {} /\ queued = None /\ InboxOK(0)
      /\ \A u \in N!AllThreads \ {t} : ~HasCall(u) /\ spc'[u] = spc[u]
         /\ spc[u] \notin {"served", "returned"}
  BY <1>2, Alone DEF SessionAt, SessionTypes, CallOK
<1>4. PingOK(kind, who) /\ WriteOK(kind)
  BY DEF SessionAt
<1>5. CASE N!Current.async
  <2>1. autoSend' = FALSE /\ contexts' = {request}
    BY <1>3, <1>5 DEF N!Servant
  <2>2. SessionTypes' /\ N!InOrder' /\ AnswersKnown'
    BY <1>1, <1>2, <2>1, SameAnswers DEF SessionAt, SessionTypes, SessionLabels
  <2>3. \A u \in N!AllThreads : CallOK(u)' /\ ~HasCall(u)'
    BY <1>1, <1>2, <1>3, <2>1, SameAnswers DEF SessionAt, SessionTypes, CallOK, HasCall
  <2>4. GoesOn("context", None)'
    BY <1>1, <1>2, <1>3, <2>1, <2>3, SameAnswers DEF GoesOn, InboxOK
  <2>5. WriteOK("context")'
    BY <1>1, <1>2, <1>3, <1>4 DEF SessionAt, SessionTypes, WriteOK
  <2>6. PingOK("context", None)'
    BY <1>1, <1>2, <1>3, <1>4, SameAnswers DEF PingOK, PingMay
  <2> QED
    BY <2>2, <2>3, <2>4, <2>5, <2>6 DEF SessionAt, SessionInv, Kinds
<1>6. CASE ~N!Current.async
  <2>1. UNCHANGED <<autoSend, contexts>>
    BY <1>6 DEF N!Servant
  <2>2. SessionTypes' /\ N!InOrder' /\ AnswersKnown'
    BY <1>1, <1>2, <2>1, SameAnswers DEF SessionAt, SessionTypes, SessionLabels
  <2>3. \A u \in N!AllThreads : CallOK(u)' /\ (HasCall(u)' <=> u = t)
    BY <1>1, <1>2, <1>3, <2>1, OtherThreads, SameAnswers
       DEF SessionAt, SessionTypes, CallOK, HasCall
  <2>4. GoesOn("thread", t)'
    BY <1>1, <1>2, <1>3, <2>1, <2>3 DEF SessionAt, SessionTypes, GoesOn, InboxOK
  <2>5. WriteOK("thread")'
    BY <1>1, <1>2, <1>3, <1>4 DEF SessionAt, SessionTypes, WriteOK
  <2>6. PingOK("thread", t)'
    BY <1>1, <1>2, <1>3, <1>4, SameAnswers DEF SessionAt, SessionTypes, PingOK, PingMay
  <2> QED
    BY <2>2, <2>3, <2>4, <2>5, <2>6 DEF SessionAt, SessionInv, Kinds
<1> QED
  BY <1>5, <1>6

(* A thread moves on: with the call, from one step of it to the next, or   *)
(* without it.                                                             *)
LEMMA MoveStep ==
    ASSUME NEW kind, NEW who, SessionAt(kind, who), NEW t \in N!AllThreads,
           N!Served(t) \/ N!Leave(t) \/ (N!Returned(t) /\ ~autoSend /\ N!Current.fate # "other")
    PROVE  SessionAt(kind, who)'
<1>1. UNCHANGED <<sent, received, inbox, consumed, closing, zeroByte, readLeft, reading, writeBuf,
                  writing, request, autoSend, contexts, entry, heap, clock, pinging, queued,
                  expired>>
  BY DEF N!Served, N!Leave, N!Returned, N!client, N!channel, N!reads, N!writes, N!net, N!call,
     N!idling, N!pings, N!sending
<1>2. /\ spc' \in [N!AllThreads -> SessionLabels] /\ DOMAIN msg' = N!AllThreads
      /\ mutex' \in N!AllThreads \union {None}
      /\ \A u \in N!AllThreads \ {t} : spc'[u] = spc[u] /\ msg'[u] = msg[u] /\ (mutex = u =>
         mutex' = u)
      /\ \/ spc[t] = "served" /\ spc'[t] = "returned" /\ mutex' = mutex /\ msg' = msg
         \/ spc[t] = "leave" /\ spc'[t] = "idle"
         \/ spc[t] = "returned" /\ spc'[t] = "leave" /\ ~autoSend
  BY DEF N!Served, N!Leave, N!Returned, N!Goto, SessionAt, SessionTypes, SessionLabels
<1>3. SessionTypes' /\ N!InOrder' /\ AnswersKnown'
  BY <1>1, <1>2, SameAnswers DEF SessionAt, SessionTypes
<1>4. HasCall(t)' <=> HasCall(t)
  BY <1>1, <1>2 DEF HasCall
<1>5. CallOK(t)'
  BY <1>1, <1>2, SameAnswers DEF SessionAt, CallOK
<1>6. \A u \in N!AllThreads : CallOK(u)' /\ (HasCall(u)' <=> HasCall(u))
  BY <1>1, <1>2, <1>4, <1>5, OtherThreads DEF SessionAt
<1>7. kind = "thread" => (spc'[who] = spc[who] \/ (spc[who] = "served" /\ spc'[who] = "returned"))
  BY <1>2, <1>6 DEF SessionAt, GoesOn, HasCall
<1>8. GoesOn(kind, who)'
  BY <1>1, <1>6, <1>7, SameAnswers DEF SessionAt, GoesOn, InboxOK
<1>9. WriteOK(kind)'
  BY <1>1, <1>2, SameAnswers DEF SessionAt, WriteOK
<1>10. PingOK(kind, who)'
  BY <1>1, <1>2, <1>7, SameAnswers DEF SessionAt, PingOK, PingMay, GoesOn
<1> QED
  BY <1>3, <1>6, <1>8, <1>9, <1>10 DEF SessionAt

(* The answer of a thread or a context is about to be sent. *)
LEMMA AnswerStep ==
    ASSUME NEW kind, NEW who, SessionAt(kind, who), NEW t \in N!AllThreads,
           N!Commit(t) \/ (N!Returned(t) /\ autoSend)
    PROVE  SessionAt("thread", t)'
<1>1. UNCHANGED <<sent, received, inbox, consumed, closing, zeroByte, readLeft, reading, writeBuf,
                  writing, request, autoSend, mutex, entry, heap, clock, pinging, queued, expired>>
  BY DEF N!Commit, N!Returned, N!client, N!channel, N!reads, N!writes, N!net, N!call, N!idling,
     N!pings, N!sending
<1>2. /\ contexts' = {} /\ queued = None /\ reading = 0 /\ InboxOK(0) /\ ServesFine
      /\ \A u \in N!AllThreads \ {t} : ~HasCall(u)
      /\ \/ kind = "thread" /\ who = t /\ spc[t] = "returned"
         \/ kind = "context" /\ spc[t] = "idle"
  <2>1. CASE N!Returned(t) /\ autoSend
    <3>1. HasCall(t) /\ spc[t] = "returned"
      BY <2>1 DEF HasCall, N!Returned
    <3>2. ServesFine /\ contexts' = contexts
      BY <2>1, <3>1 DEF SessionAt, CallOK, N!Returned, N!call
    <3> QED
      BY <3>1, <3>2, Alone
  <2>2. CASE N!Commit(t)
    <3>1. contexts # {} /\ spc[t] = "idle" /\ \E c \in contexts : contexts' = contexts \ {c}
      BY <2>2 DEF N!Commit
    <3>2. kind = "context" /\ contexts = {request}
      BY <3>1 DEF SessionAt, GoesOn
    <3> QED
      BY <3>1, <3>2 DEF SessionAt, GoesOn
  <2> QED
    BY <2>1, <2>2
<1>3. \/ /\ N!Current.oneway
         /\ spc' = [spc EXCEPT ![t] = "written"] /\ msg' = msg
      \/ /\ ~N!Current.oneway \/ N!Current.fate = "other"
         /\ \E type \in {"response", "error"} :
                spc' = [spc EXCEPT ![t] = "send"] /\ msg' = [msg EXCEPT ![t] = N!Response(type)]
  <2>1. CASE N!Returned(t) /\ autoSend
    BY <2>1 DEF N!Returned, N!Goto
  <2>2. CASE N!Commit(t)
    BY <2>2 DEF N!Commit, N!Goto
  <2> QED
    BY <2>1, <2>2
<1>4. N!Current.oneway => ~pinging /\ heap = {}
  BY DEF SessionAt, PingOK, PingMay, SessionTypes
<1>5. SessionTypes' /\ N!InOrder' /\ AnswersKnown'
  BY <1>1, <1>3, SameAnswers DEF SessionAt, SessionTypes, SessionLabels
<1>6. /\ \A u \in N!AllThreads \ {t} : spc'[u] = spc[u] /\ msg'[u] = msg[u]
      /\ \/ N!Current.oneway /\ spc'[t] = "written"
         \/ (~N!Current.oneway \/ N!Current.fate = "other") /\ spc'[t] = "send"
            /\ IsResponse(msg'[t])
  BY <1>3 DEF SessionAt, SessionTypes, IsResponse
<1>7. HasCall(t)' /\ CallOK(t)'
  BY <1>1, <1>2, <1>4, <1>6, AnsweredMore, SameAnswers
  DEF SessionAt, SessionTypes, ServesFine, CallOK, HasCall, N!IsAnswered, N!WantsAnswer
<1>8. \A u \in N!AllThreads : CallOK(u)' /\ (HasCall(u)' <=> u = t)
  BY <1>1, <1>2, <1>6, <1>7, OtherThreads DEF SessionAt
<1>9. GoesOn("thread", t)'
  BY <1>1, <1>2, <1>6, <1>8 DEF SessionAt, SessionTypes, GoesOn, InboxOK
<1>10. WriteOK("thread")'
  BY <1>1, <1>2, <1>4, <1>6 DEF SessionAt, SessionTypes, WriteOK
<1>11. PingOK("thread", t)'
  BY <1>1, <1>2, <1>4, <1>6, SameAnswers DEF SessionAt, SessionTypes, PingOK, PingMay
<1> QED
  BY <1>5, <1>8, <1>9, <1>10, <1>11 DEF SessionAt, Kinds

(* The response goes into the queue while a ping is sent. *)
LEMMA SendStep ==
    ASSUME NEW kind, NEW who, SessionAt(kind, who), NEW t \in N!AllThreads, N!Send(t)
    PROVE  SessionInv'
<1>1. UNCHANGED <<sent, received, inbox, consumed, closing, zeroByte, readLeft, reading, writeBuf,
                  writing, request, autoSend, contexts, mutex, clock, pinging, msg, expired>>
  BY DEF N!Send, N!client, N!channel, N!reads, N!writes, N!net, N!call, N!idling
<1>2. spc[t] = "send" /\ HasCall(t) /\ ServesFine /\ N!IsAnswered(N!Current) /\ IsResponse(msg[t])
  BY DEF N!Send, HasCall, SessionAt, CallOK
<1>3. /\ kind = "thread" /\ who = t /\ reading = 0 /\ contexts = {} /\ queued = None /\ InboxOK(0)
      /\ \A u \in N!AllThreads \ {t} : ~HasCall(u)
      /\ pinging \/ heap # {} => N!Current.ping /\ ~N!Current.oneway
  BY <1>2, Alone
<1>4. heap' = {} /\ entry' \in Nat
  BY <1>2, <1>3 DEF N!Send, SessionAt, SessionTypes, PingOK
<1>5. WriteOK(kind) /\ PingOK(kind, who)
  BY DEF SessionAt
<1>6. N!InOrder' /\ AnswersKnown' /\ InboxOK(0)'
  BY <1>1, <1>3, SameAnswers DEF SessionAt, InboxOK
<1>7. CASE pinging
  <2>1. queued' = msg[t] /\ spc' = [spc EXCEPT ![t] = "leave"]
    BY <1>2, <1>7 DEF N!Send, N!Goto
  <2>2. SessionTypes'
    BY <1>1, <1>4, <2>1 DEF SessionAt, SessionTypes, SessionLabels
  <2>3. \A u \in N!AllThreads : CallOK(u)' /\ ~HasCall(u)'
    BY <1>1, <1>3, <2>1, OtherThreads DEF SessionAt, SessionTypes, CallOK, HasCall
  <2>4. GoesOn("queue", None)'
    BY <1>1, <1>2, <1>3, <1>4, <1>6, <1>7, <2>1, <2>3, SameAnswers DEF GoesOn
  <2>5. WriteOK("queue")'
    BY <1>1, <1>5, <1>7, <2>1 DEF WriteOK, SessionAt, SessionTypes
  <2>6. PingOK("queue", None)'
    BY <1>1, <1>2, <1>3, <1>4, <1>5, <1>7, SameAnswers DEF PingOK, PingMay, ServesFine, Serves
  <2> QED
    BY <1>6, <2>2, <2>3, <2>4, <2>5, <2>6 DEF SessionAt, SessionInv, Kinds
<1>8. CASE ~pinging
  <2>1. queued' = queued /\ spc' = [spc EXCEPT ![t] = "write"]
    BY <1>2, <1>8 DEF N!Send, N!Goto
  <2>2. SessionTypes'
    BY <1>1, <1>4, <2>1 DEF SessionAt, SessionTypes, SessionLabels
  <2>3. \A u \in N!AllThreads : CallOK(u)' /\ (HasCall(u)' <=> u = t)
    BY <1>1, <1>2, <1>3, <2>1, OtherThreads, SameAnswers
       DEF SessionAt, SessionTypes, CallOK, HasCall
  <2>4. GoesOn("thread", t)'
    BY <1>1, <1>3, <1>6, <2>1, <2>3 DEF GoesOn, SessionAt, SessionTypes
  <2>5. WriteOK("thread")'
    BY <1>1, <1>3, <1>5, <1>8, <2>1 DEF WriteOK
  <2>6. PingOK("thread", t)'
    BY <1>1, <1>4, <1>5, <1>8, <2>1 DEF PingOK, SessionAt, SessionTypes
  <2> QED
    BY <1>6, <2>2, <2>3, <2>4, <2>5, <2>6 DEF SessionAt, SessionInv, Kinds
<1> QED
  BY <1>7, <1>8

(* The answer of a call is written.                                        *)
LEMMA WriteStep ==
    ASSUME NEW kind, NEW who, SessionAt(kind, who), NEW t \in N!AllThreads, N!Write(t)
    PROVE  SessionInv'
<1>1. UNCHANGED <<sent, received, inbox, consumed, closing, zeroByte, readLeft, reading, request,
                  autoSend, contexts, mutex, entry, heap, clock, pinging, queued, msg, expired>>
  BY DEF N!Write, N!client, N!channel, N!reads, N!net, N!call, N!idling, N!pings, N!sending
<1>2. /\ spc[t] = "write" /\ HasCall(t) /\ ServesFine /\ N!IsAnswered(N!Current)
      /\ IsResponse(msg[t])
      /\ spc' = [spc EXCEPT ![t] = "leave"] /\ N!PostWrite(msg[t], writing)
  BY DEF N!Write, N!Goto, HasCall, SessionAt, CallOK
<1>3. msg[t] \in N!Message /\ msg[t].type # "ping" /\ msg[t].of = request
  BY <1>2, ResponseIs DEF SessionAt
<1> QED
  BY <1>1, <1>2, <1>3, AnswerIsWritten

(* onWriteCompleted() of an answer, or for a call without one: the next    *)
(* request is read, unless the connection is lost.                         *)
LEMMA WrittenCallStep ==
    ASSUME NEW kind, NEW who, SessionAt(kind, who), NEW t \in N!AllThreads, N!Written(t), ~pinging
    PROVE  SessionInv'
<1>1. UNCHANGED <<sent, received, inbox, consumed, closing, writeBuf, writing, msg, request,
                  autoSend, contexts, mutex, entry, heap, clock, pinging, queued, expired>>
  BY DEF N!Written, N!client, N!channel, N!writes, N!call, N!idling, N!pings, N!sending
<1>2. spc[t] = "written" /\ HasCall(t) /\ spc' = [spc EXCEPT ![t] = "leave"]
        /\ N!PostRead(reading) /\ AnsweredUpTo(request)
  BY DEF N!Written, N!Goto, HasCall, SessionAt, CallOK
<1>3. /\ heap = {} /\ writing = 0 /\ reading = 0 /\ contexts = {} /\ queued = None /\ InboxOK(0)
      /\ \A u \in N!AllThreads \ {t} : ~HasCall(u)
  BY <1>2, Alone
<1>4. reading' = 0 \/ (reading' = 1 /\ zeroByte')
  BY <1>2, <1>3 DEF N!PostRead, N!BeginRead
<1>5. SessionTypes' /\ N!InOrder' /\ AnswersKnown' /\ InboxOK(0)' /\ AnsweredUpTo(request)'
  <2>1. zeroByte' \in BOOLEAN /\ readLeft' \in Nat
    <3>1. zeroByte \in BOOLEAN /\ readLeft \in Nat
      BY DEF SessionAt, SessionTypes
    <3>2. (zeroByte' = zeroByte /\ readLeft' = readLeft) \/ (zeroByte' = TRUE /\ readLeft' = 0)
      BY <1>2 DEF N!PostRead
    <3>3. zeroByte' \in BOOLEAN
      BY <3>1, <3>2
    <3>4. readLeft' \in Nat
      BY <3>1, <3>2
    <3> QED
      BY <3>3, <3>4
  <2> QED
    BY <1>1, <1>2, <1>3, <1>4, <2>1, SameAnswers DEF SessionAt, SessionTypes, SessionLabels, InboxOK
<1>6. \A u \in N!AllThreads : CallOK(u)' /\ ~HasCall(u)'
  BY <1>1, <1>2, <1>3, OtherThreads DEF SessionAt, SessionTypes, CallOK, HasCall
<1>7. CASE reading' = 0
  <2>1. GoesOn("nobody", None)' /\ WriteOK("nobody")' /\ PingOK("nobody", None)'
    BY <1>1, <1>3, <1>6, <1>7 DEF SessionAt, GoesOn, WriteOK, PingOK
  <2> QED
    BY <1>5, <1>6, <2>1 DEF SessionAt, SessionInv, Kinds
<1>8. CASE reading' = 1 /\ zeroByte'
  <2>1. GoesOn("read", None)' /\ WriteOK("read")' /\ PingOK("read", None)'
    BY <1>1, <1>3, <1>5, <1>6, <1>8 DEF SessionAt, GoesOn, WriteOK, PingOK
  <2> QED
    BY <1>5, <1>6, <2>1 DEF SessionAt, SessionInv, Kinds
<1> QED
  BY <1>4, <1>7, <1>8

(* onWriteCompleted() of a ping: a response that waited is written. *)
LEMMA WrittenPingStep ==
    ASSUME NEW kind, NEW who, SessionAt(kind, who), NEW t \in N!AllThreads, N!Written(t), pinging
    PROVE  SessionInv'
<1>1. UNCHANGED <<sent, received, inbox, consumed, closing, zeroByte, readLeft, reading, writeBuf,
                  writing, request, autoSend, contexts, mutex, entry, heap, clock, expired>>
  BY DEF N!Written, N!client, N!channel, N!reads, N!writes, N!call, N!idling, N!pings
<1>2. /\ spc[t] = "written" /\ pinging' = FALSE /\ queued' = None
      /\ IF queued = None THEN spc' = [spc EXCEPT ![t] = "leave"] /\ msg' = msg
                          ELSE spc' = [spc EXCEPT ![t] = "write"]
                              /\ msg' = [msg EXCEPT ![t] = queued]
  BY DEF N!Written, N!Goto
<1>3. /\ ~HasCall(t) /\ writing = 0 /\ \A u \in N!AllThreads \ {t} : spc[u] # "written"
  BY <1>2 DEF HasCall, SessionAt, SessionTypes, WriteOK
<1>4. SessionTypes' /\ N!InOrder' /\ AnswersKnown' /\ \A w : InboxOK(w)' <=> InboxOK(w)
  BY <1>1, <1>2, SameAnswers DEF SessionAt, SessionTypes, SessionLabels, InboxOK
<1>5. \A u \in N!AllThreads \ {t} : spc'[u] = spc[u] /\ msg'[u] = msg[u] /\ CallOK(u)'
        /\ (HasCall(u)' <=> HasCall(u))
  BY <1>1, <1>2, <1>3, SameAnswers DEF SessionAt, SessionTypes, CallOK, HasCall
<1>6. WriteOK(kind) /\ PingOK(kind, who) /\ GoesOn(kind, who)
  BY DEF SessionAt
<1>7. CASE queued = None
  <2>1. spc'[t] = "leave" /\ ~HasCall(t)' /\ CallOK(t)'
    BY <1>2, <1>7 DEF SessionAt, SessionTypes, HasCall, CallOK
  <2>2. kind # "queue" /\ kind # "write" /\ (kind = "thread" => who # t)
    BY <1>3, <1>6, <1>7, ResponseIs DEF GoesOn, WriteOK, SessionAt
  <2>3. GoesOn(kind, who)'
    BY <1>1, <1>2, <1>3, <1>4, <1>5, <1>6, <1>7, <2>1, <2>2, SameAnswers DEF GoesOn
  <2>4. WriteOK(kind)'
    BY <1>1, <1>2, <1>3, <2>2 DEF WriteOK
  <2>5. PingOK(kind, who)'
    BY <1>1, <1>2, <1>5, <1>6, <1>7, <2>2, SameAnswers DEF PingOK, PingMay, GoesOn
  <2> QED
    BY <1>4, <1>5, <2>1, <2>3, <2>4, <2>5 DEF SessionAt, SessionInv
<1>8. CASE queued # None
  <2>1. kind = "queue" /\ IsResponse(queued) /\ heap = {} /\ ServesFine /\ N!IsAnswered(N!Current)
    BY <1>6, <1>8 DEF GoesOn, ServesFine, N!IsAnswered, N!WantsAnswer
  <2>2. spc'[t] = "write" /\ msg'[t] = queued /\ HasCall(t)'
    BY <1>2, <1>8, <2>1 DEF SessionAt, SessionTypes, HasCall
  <2>3. CallOK(t)'
    BY <1>1, <2>1, <2>2, SameAnswers DEF CallOK
  <2>4. GoesOn("thread", t)'
    BY <1>1, <1>2, <1>4, <1>5, <1>6, <2>1, <2>2 DEF GoesOn
  <2>5. WriteOK("thread")' /\ PingOK("thread", t)'
    BY <1>1, <1>2, <1>3, <1>6, <2>1, <2>2 DEF WriteOK, PingOK
  <2> QED
    BY <1>4, <1>5, <2>2, <2>3, <2>4, <2>5 DEF SessionAt, SessionInv, Kinds
<1> QED
  BY <1>7, <1>8

-----------------------------------------------------------------------------
(* Pings *)

(* The only entry there is expires, once the session knows it. *)
LEMMA ExpiresStep ==
    ASSUME NEW kind, NEW who, SessionAt(kind, who), N!Expires, ~MayStall
    PROVE  SessionAt(kind, who)'
<1>1. UNCHANGED <<sent, received, inbox, consumed, closing, zeroByte, readLeft, reading, writeBuf,
                  writing, request, autoSend, contexts, mutex, entry, heap, clock, pinging,
                  queued, spc, msg>>
  BY DEF N!Expires, N!client, N!channel, N!reads, N!writes, N!net, N!call, N!idling, N!pings,
     N!sending
<1>2. heap = {entry} /\ entry \in 0..clock /\ \A t \in N!AllThreads : spc[t] # "registered"
  BY DEF N!Expires, SessionAt, SessionTypes, PingOK, GoesOn
<1>3. expired' = entry
  <2>1. (CHOOSE e \in {entry} : \A f \in {entry} : e <= f) = entry
    BY <1>2 DEF SessionAt, SessionTypes
  <2> QED
    BY <1>2, <2>1 DEF N!Expires
<1>4. SessionTypes' /\ N!InOrder' /\ AnswersKnown'
  BY <1>1, <1>3, SameAnswers DEF SessionAt, SessionTypes
<1>5. \A t \in N!AllThreads : CallOK(t)' /\ (HasCall(t)' <=> HasCall(t))
  BY <1>1, SameAnswers DEF SessionAt, CallOK, HasCall
<1>6. GoesOn(kind, who)'
  BY <1>1, <1>5, SameAnswers DEF SessionAt, GoesOn, InboxOK
<1>7. WriteOK(kind)'
  BY <1>1, SameAnswers DEF SessionAt, WriteOK
<1>8. PingOK(kind, who)'
  BY <1>1, <1>2, <1>3, SameAnswers DEF SessionAt, PingOK, PingMay, GoesOn, SessionTypes
<1> QED
  BY <1>4, <1>5, <1>6, <1>7, <1>8 DEF SessionAt

(* A ping is sent for a call in progress only, when nothing else is. *)
LEMMA PingStep ==
    ASSUME NEW kind, NEW who, SessionAt(kind, who), N!Ping
    PROVE  SessionAt(kind, who)'
<1>1. UNCHANGED <<sent, received, inbox, consumed, closing, zeroByte, readLeft, reading, request,
                  autoSend, contexts, mutex, queued, spc, msg>>
  BY DEF N!Ping, N!client, N!channel, N!reads, N!call, N!idling
<1>2. expired # None /\ expired' = None /\ expired \in Nat
  BY DEF N!Ping, SessionAt, SessionTypes
<1>3. WriteOK(kind) /\ PingOK(kind, who) /\ GoesOn(kind, who)
  BY DEF SessionAt
<1>4. CASE ~(expired \in heap /\ (\A f \in heap : expired <= f))
  <2>1. UNCHANGED <<entry, heap, clock, pinging, writeBuf, writing>>
    BY <1>4 DEF N!Ping, N!pings, N!writes
  <2>2. SessionTypes' /\ N!InOrder' /\ AnswersKnown'
    BY <1>1, <1>2, <2>1, SameAnswers DEF SessionAt, SessionTypes
  <2>3. \A t \in N!AllThreads : CallOK(t)' /\ (HasCall(t)' <=> HasCall(t))
    BY <1>1, <2>1, SameAnswers DEF SessionAt, CallOK, HasCall
  <2>4. GoesOn(kind, who)'
    BY <1>1, <2>1, <2>3, SameAnswers DEF SessionAt, GoesOn, InboxOK
  <2>5. WriteOK(kind)'
    BY <1>1, <2>1, SameAnswers DEF SessionAt, WriteOK
  <2>6. PingOK(kind, who)'
    BY <1>1, <1>2, <2>1, PartsAssumption, SameAnswers
    DEF SessionAt, PingOK, PingMay, SessionTypes, N!SessionAssumption
  <2> QED
    BY <2>2, <2>3, <2>4, <2>5, <2>6 DEF SessionAt
<1>5. CASE expired \in heap /\ (\A f \in heap : expired <= f)
  <2>1. /\ heap' = (heap \ {expired}) \union {clock + 1}
        /\ clock' = clock + 1 /\ entry' = clock + 1 /\ pinging' = TRUE
    BY <1>5 DEF N!Ping
  <2>2. PingMay(kind, who) /\ ~(kind = "thread" /\ spc[who] = "registered") /\ heap = {expired}
          /\ kind # "queue"
    BY <1>3, <1>5 DEF PingOK, GoesOn
  <2>3. heap' = {entry'} /\ clock' \in Nat /\ entry' \in Nat /\ heap' \subseteq 0..clock'
    BY <2>1, <2>2 DEF SessionAt, SessionTypes
  <2>4. \A t \in N!AllThreads : spc[t] = "written" => pinging
    BY <1>3, <2>2 DEF PingMay, GoesOn, HasCall
  <2>5. \/ pinging /\ writing' = writing /\ writeBuf' = writeBuf
        \/ ~pinging /\ writing' = 0
        \/ ~pinging /\ writing' = 1 /\ writeBuf' = [type |-> "ping", of |-> request]
    BY <1>3, <1>5, <2>2 DEF N!Ping, N!PostWrite, N!BeginWrite, WriteOK, PingMay, SessionAt,
       SessionTypes, N!writes
  <2>6. SessionTypes' /\ N!InOrder' /\ AnswersKnown'
    BY <1>1, <1>2, <2>1, <2>3, <2>5, SameAnswers DEF SessionAt, SessionTypes
  <2>7. \A t \in N!AllThreads : CallOK(t)' /\ (HasCall(t)' <=> HasCall(t))
    BY <1>1, <2>1, <2>4, SameAnswers DEF SessionAt, CallOK, HasCall
  <2>8. GoesOn(kind, who)'
    BY <1>1, <1>3, <2>2, <2>7, SameAnswers DEF GoesOn, InboxOK
  <2>9. WriteOK(kind)'
    <3>1. [type |-> "ping", of |-> request] \in N!Message
      BY DEF N!Message, SessionAt, SessionTypes
    <3> QED
      BY <1>1, <1>3, <2>1, <2>2, <2>4, <2>5, <3>1 DEF WriteOK, PingMay, SessionAt, SessionTypes
  <2>10. PingOK(kind, who)'
    BY <1>1, <1>2, <2>2, <2>3, SameAnswers DEF PingOK, PingMay
  <2> QED
    BY <2>6, <2>7, <2>8, <2>9, <2>10 DEF SessionAt
<1> QED
  BY <1>4, <1>5

-----------------------------------------------------------------------------
(* The io service *)

(* A read or write fails: nothing goes on.                                 *)
LEMMA FailStep ==
    ASSUME NEW kind, NEW who, SessionAt(kind, who), NEW t \in N!AllThreads, N!Fails(t)
    PROVE  SessionInv'
<1>1. UNCHANGED <<sent, received, inbox, consumed, closing, zeroByte, readLeft, writeBuf, request,
                  autoSend, contexts, mutex, entry, heap, clock, pinging, queued, spc, msg,
                  expired>>
  BY DEF N!Fails, N!client, N!channel, N!call, N!idling, N!pings, N!sending
<1>2. \/ reading > 0 /\ reading' = reading - 1 /\ writing' = writing
      \/ writing > 0 /\ writing' = writing - 1 /\ reading' = reading
  BY DEF N!Fails
<1>3. reading \in Nat /\ writing \in Nat /\ GoesOn(kind, who) /\ WriteOK(kind) /\ PingOK(kind, who)
  BY DEF SessionAt, SessionTypes
<1>4. SessionTypes' /\ N!InOrder' /\ AnswersKnown'
  BY <1>1, <1>2, SameAnswers DEF SessionAt, SessionTypes
<1>5. \A u \in N!AllThreads : CallOK(u)' /\ (HasCall(u)' <=> HasCall(u))
  BY <1>1, SameAnswers DEF SessionAt, CallOK, HasCall
<1>6. CASE pinging /\ reading' = reading
  <2>1. GoesOn(kind, who)'
    BY <1>1, <1>3, <1>5, <1>6, SameAnswers DEF GoesOn, InboxOK
  <2>2. WriteOK(kind)' /\ PingOK(kind, who)'
    BY <1>1, <1>2, <1>3, <1>6, SameAnswers DEF WriteOK, PingOK, PingMay
  <2> QED
    BY <1>4, <1>5, <2>1, <2>2 DEF SessionAt, SessionInv
<1>7. CASE ~(pinging /\ reading' = reading)
  <2>1. kind \in {"read", "write"} /\ ~pinging /\ heap = {} /\ reading' = 0 /\ writing' = 0
    BY <1>2, <1>3, <1>7 DEF GoesOn, WriteOK, PingOK, PingMay, SessionAt, SessionTypes
  <2>2. GoesOn("nobody", None)' /\ WriteOK("nobody")' /\ PingOK("nobody", None)'
    BY <1>1, <1>3, <1>5, <2>1 DEF GoesOn, WriteOK, PingOK
  <2> QED
    BY <1>4, <1>5, <2>2 DEF SessionAt, SessionInv, Kinds
<1> QED
  BY <1>6, <1>7

(* What the client has got, with one message more *)
LEMMA PingArrives ==
    ASSUME SessionTypes, N!InOrder, AnswersKnown, NEW m \in N!Message, m.type = "ping",
           received' = Append(received, m), sent' = sent
    PROVE  /\ received' \in Seq(N!Message) /\ N!InOrder' /\ AnswersKnown'
           /\ \A n : AnsweredUpTo(n)' <=> AnsweredUpTo(n)
<1>1. /\ received \in Seq(N!Message) /\ received' \in Seq(N!Message)
      /\ Len(received') = Len(received) + 1
      /\ \A k \in DOMAIN received : received'[k] = received[k] /\ k \in DOMAIN received'
      /\ received'[Len(received) + 1] = m
      /\ \A k \in DOMAIN received' : k \in DOMAIN received \/ k = Len(received) + 1
  BY DEF SessionTypes
<1>2. N!InOrder'
  BY <1>1 DEF N!InOrder
<1>3. AnswersKnown' /\ \A n : AnsweredUpTo(n)' <=> AnsweredUpTo(n)
  BY <1>1 DEF AnswersKnown, AnsweredUpTo
<1> QED
  BY <1>1, <1>2, <1>3

(* The answer to the call in progress arrives.                             *)
LEMMA AnswerArrives ==
    ASSUME SessionTypes, N!InOrder, AnswersKnown, NEW m \in N!Message, m.type # "ping",
           AnsweredUpTo(m.of - 1), m.of \in DOMAIN sent, N!IsAnswered(sent[m.of]),
           received' = Append(received, m), sent' = sent
    PROVE  received' \in Seq(N!Message) /\ N!InOrder' /\ AnswersKnown' /\ AnsweredUpTo(m.of)'
<1>1. /\ received \in Seq(N!Message) /\ received' \in Seq(N!Message)
      /\ Len(received') = Len(received) + 1
      /\ \A k \in DOMAIN received : received'[k] = received[k] /\ k \in DOMAIN received'
      /\ received'[Len(received) + 1] = m
      /\ \A k \in DOMAIN received' : k \in DOMAIN received \/ k = Len(received) + 1
  BY SMTT(30) DEF SessionTypes
<1>2. m.of \in Nat /\ \A k \in DOMAIN received : received[k].of \in Nat
  <2>1. \A x \in N!Message : x.of \in Nat
    BY DEF N!Message
  <2>2. \A k \in DOMAIN received : received[k] \in N!Message
    BY <1>1
  <2> QED
    BY <2>1, <2>2
<1>3. \A k \in DOMAIN received : received[k].type # "ping" => received[k].of < m.of
  BY <1>2 DEF AnsweredUpTo
<1>4. N!InOrder'
  <2>1. ASSUME NEW j \in DOMAIN received', NEW k \in DOMAIN received', j < k,
          received'[k].type # "ping"
        PROVE  received'[j].of < received'[k].of \/ received'[j].type = "ping"
    <3>1. j \in DOMAIN received
      BY <1>1, <2>1
    <3> QED
      BY <1>1, <1>3, <2>1, <3>1 DEF N!InOrder
  <2>2. ASSUME NEW k \in DOMAIN received', received'[k].type # "ping"
        PROVE  N!IsAnswered(sent[received'[k].of])
    BY <1>1, <2>2 DEF N!InOrder
  <2> QED
    BY <2>1, <2>2 DEF N!InOrder
<1>5. AnswersKnown' /\ AnsweredUpTo(m.of)'
  BY <1>1, <1>2, <1>3 DEF AnswersKnown, AnsweredUpTo
<1> QED
  BY <1>1, <1>4, <1>5

(* A write completes, and its thread goes on with what was written.        *)
LEMMA WriteCompletesStep ==
    ASSUME NEW kind, NEW who, SessionAt(kind, who), NEW t \in N!AllThreads, N!WriteCompletes(t)
    PROVE  SessionInv'
<1>1. UNCHANGED <<sent, inbox, consumed, closing, zeroByte, readLeft, reading, writeBuf, request,
                  autoSend, contexts, mutex, entry, heap, clock, pinging, queued, msg, expired>>
  BY DEF N!WriteCompletes, N!channel, N!reads, N!call, N!idling, N!pings, N!sending
<1>2. GoesOn(kind, who) /\ WriteOK(kind) /\ PingOK(kind, who) /\ SessionTypes /\ N!InOrder
        /\ AnswersKnown
  BY DEF SessionAt
<1>3. spc[t] = "idle" /\ writing = 1 /\ open
  BY <1>2 DEF N!WriteCompletes, WriteOK, SessionTypes
<1>4. CASE UNCHANGED <<received, spc, writing>>
  <2>1. SessionTypes' /\ N!InOrder' /\ AnswersKnown'
    BY <1>1, <1>4, SameAnswers DEF SessionAt, SessionTypes
  <2>2. \A u \in N!AllThreads : CallOK(u)' /\ (HasCall(u)' <=> HasCall(u))
    BY <1>1, <1>4, SameAnswers DEF SessionAt, CallOK, HasCall
  <2>3. GoesOn(kind, who)'
    BY <1>1, <1>2, <1>4, <2>2, SameAnswers DEF GoesOn, InboxOK
  <2>4. WriteOK(kind)' /\ PingOK(kind, who)'
    BY <1>1, <1>2, <1>4, SameAnswers DEF WriteOK, PingOK, PingMay
  <2> QED
    BY <2>1, <2>2, <2>3, <2>4 DEF SessionAt, SessionInv
<1>5. CASE /\ writing' = 0 /\ received' = Append(received, writeBuf)
           /\ spc' = IF closing THEN spc ELSE [spc EXCEPT ![t] = "written"]
  <2>1. \A u \in N!AllThreads \ {t} : spc'[u] = spc[u]
    BY <1>2, <1>5 DEF SessionTypes
  <2>2. spc'[t] = (IF closing THEN "idle" ELSE "written")
          /\ spc' \in [N!AllThreads -> SessionLabels]
    BY <1>2, <1>3, <1>5 DEF SessionTypes, SessionLabels
  <2>3. CASE pinging
    <3>1. writeBuf \in N!Message /\ writeBuf.type = "ping"
            /\ \A u \in N!AllThreads : spc[u] # "written"
      BY <1>2, <1>3, <2>3 DEF WriteOK
    <3>2. /\ received' \in Seq(N!Message) /\ N!InOrder' /\ AnswersKnown'
          /\ \A n : AnsweredUpTo(n)' <=> AnsweredUpTo(n)
      BY <1>1, <1>2, <1>5, <3>1, PingArrives
    <3>3. SessionTypes'
      BY <1>1, <1>2, <1>5, <2>2, <3>2 DEF SessionTypes
    <3>4. /\ Serves' <=> Serves
          /\ N!Current' = N!Current
          /\ ServesFine' <=> ServesFine
          /\ \A m : IsResponse(m)' <=> IsResponse(m)
      BY <1>1, <3>2 DEF Serves, ServesFine, N!Current, N!Response, IsResponse
    <3>5. \A u \in N!AllThreads : CallOK(u)' /\ (HasCall(u)' <=> HasCall(u))
      <4>1. CallOK(t)' /\ ~HasCall(t)' /\ ~HasCall(t)
        BY <1>1, <1>3, <2>2, <2>3 DEF CallOK, HasCall
      <4>2. ASSUME NEW u \in N!AllThreads \ {t} PROVE CallOK(u)' /\ (HasCall(u)' <=> HasCall(u))
        <5>1. CallOK(u) /\ spc'[u] = spc[u]
          BY <2>1 DEF SessionAt
        <5> QED
          BY <1>1, <3>2, <3>4, <5>1 DEF CallOK, HasCall
      <4> QED
        BY <4>1, <4>2
    <3>6. kind = "thread" => spc'[who] = spc[who]
      BY <1>2, <1>3, <2>1 DEF GoesOn, HasCall
    <3>7. GoesOn(kind, who)'
      <4>1. \A w : InboxOK(w)' <=> InboxOK(w)
        BY <1>1 DEF InboxOK
      <4>2. kind = "read" => AnsweredUpTo(request)'
        BY <1>1, <1>2, <3>2 DEF GoesOn
      <4>3. kind \in {"context", "queue"} => ServesFine'
        BY <1>2, <3>4 DEF GoesOn
      <4> QED
        BY <1>1, <1>2, <3>4, <3>5, <3>6, <4>1, <4>2, <4>3 DEF GoesOn
    <3>8. WriteOK(kind)'
      BY <1>1, <1>2, <1>5, <2>1, <2>2, <2>3, <3>1 DEF WriteOK
    <3>9. PingOK(kind, who)'
      <4>1. PingMay(kind, who) => PingMay(kind, who)'
        BY <1>1, <3>4, <3>6 DEF PingMay
      <4> QED
        BY <1>1, <1>2, <3>6, <4>1 DEF PingOK
    <3> QED
      BY <3>2, <3>3, <3>5, <3>7, <3>8, <3>9 DEF SessionAt, SessionInv
  <2>4. CASE ~pinging
    <3>1. /\ kind = "write" /\ writeBuf \in N!Message /\ writeBuf.type # "ping"
          /\ AnsweredUpTo(writeBuf.of - 1) /\ writeBuf.of \in DOMAIN sent
          /\ N!IsAnswered(sent[writeBuf.of])
          /\ closing \/ writeBuf.of = request
      BY <1>2, <1>3, <2>4 DEF WriteOK
    <3>2. received' \in Seq(N!Message) /\ N!InOrder' /\ AnswersKnown' /\ AnsweredUpTo(writeBuf.of)'
      BY <1>1, <1>2, <1>5, <3>1, AnswerArrives
    <3>3. SessionTypes'
      BY <1>1, <1>2, <1>5, <2>2, <3>2 DEF SessionTypes
    <3>4. heap = {} /\ reading = 0 /\ contexts = {} /\ queued = None /\ InboxOK(0)
            /\ \A u \in N!AllThreads : ~HasCall(u)
      BY <1>2, <3>1 DEF GoesOn, PingOK, PingMay
    <3>5. \A u \in N!AllThreads \ {t} : CallOK(u)' /\ ~HasCall(u)'
      BY <1>1, <2>1, <2>4, <3>4 DEF SessionAt, CallOK, HasCall
    <3>6. InboxOK(0)'
      BY <1>1, <3>4 DEF InboxOK
    <3>7. CASE closing
      <4>1. CallOK(t)' /\ ~HasCall(t)'
        BY <2>2, <3>7 DEF CallOK, HasCall
      <4>2. GoesOn("nobody", None)' /\ WriteOK("nobody")' /\ PingOK("nobody", None)'
        BY <1>1, <1>2, <1>5, <2>4, <3>4, <3>5, <4>1 DEF GoesOn, WriteOK, PingOK
      <4> QED
        BY <3>2, <3>3, <3>5, <4>1, <4>2 DEF SessionAt, SessionInv, Kinds
    <3>8. CASE ~closing
      <4>1. CallOK(t)' /\ HasCall(t)'
        BY <1>1, <2>2, <2>4, <3>1, <3>2, <3>8 DEF CallOK, HasCall
      <4>2. GoesOn("thread", t)'
        BY <1>1, <2>2, <3>4, <3>5, <3>6, <3>8, <4>1 DEF GoesOn
      <4>3. WriteOK("thread")' /\ PingOK("thread", t)'
        BY <1>1, <1>2, <1>5, <2>2, <2>4, <3>4, <3>8 DEF WriteOK, PingOK
      <4> QED
        BY <3>2, <3>3, <3>5, <4>1, <4>2, <4>3 DEF SessionAt, SessionInv, Kinds
    <3> QED
      BY <3>7, <3>8
  <2> QED
    BY <2>3, <2>4
<1> QED
  BY <1>3, <1>4, <1>5 DEF N!WriteCompletes, N!BeginWrite, N!Goto

(* A read that leaves something to read, or begins with the next piece *)
LEMMA ReadsOn ==
    ASSUME NEW who, SessionAt("read", who), reading' \in {0, 1}, consumed' \in Nat,
           zeroByte' \in BOOLEAN, readLeft' \in Nat, zeroByte' \/ readLeft' > 0,
           UNCHANGED <<sent, received, inbox, closing, writeBuf, writing, request, autoSend,
                       contexts, mutex, entry, heap, clock, pinging, queued, spc, msg, expired>>
    PROVE  SessionInv'
<1>1. GoesOn("read", who) /\ WriteOK("read") /\ PingOK("read", who)
  BY DEF SessionAt
<1>2. SessionTypes' /\ N!InOrder' /\ AnswersKnown' /\ \A n : InboxOK(n)' <=> InboxOK(n)
  BY SameAnswers DEF SessionAt, SessionTypes, InboxOK
<1>3. \A u \in N!AllThreads : CallOK(u)' /\ (HasCall(u)' <=> HasCall(u))
  BY SameAnswers DEF SessionAt, CallOK, HasCall
<1>4. ~pinging /\ heap = {} /\ writing = 0
  BY <1>1 DEF PingOK, PingMay, WriteOK, SessionAt, SessionTypes
<1>5. CASE reading' = 0
  <2>1. GoesOn("nobody", None)' /\ WriteOK("nobody")' /\ PingOK("nobody", None)'
    BY <1>1, <1>3, <1>4, <1>5 DEF GoesOn, WriteOK, PingOK
  <2> QED
    BY <1>2, <1>3, <2>1 DEF SessionAt, SessionInv, Kinds
<1>6. CASE reading' = 1
  <2>1. GoesOn("read", None)' /\ WriteOK("read")' /\ PingOK("read", None)'
    BY <1>1, <1>2, <1>3, <1>4, <1>6, SameAnswers DEF GoesOn, WriteOK, PingOK
  <2> QED
    BY <1>2, <1>3, <2>1 DEF SessionAt, SessionInv, Kinds
<1> QED
  BY <1>5, <1>6

(* A read completes, with a request or a part of one.                      *)
LEMMA ReadCompletesStep ==
    ASSUME NEW kind, NEW who, SessionAt(kind, who), NEW t \in N!AllThreads, N!ReadCompletes(t)
    PROVE  SessionInv'
<1>1. UNCHANGED <<sent, received, request, autoSend, contexts, mutex, entry, heap, clock, pinging,
                  queued, msg, expired>>
  BY DEF N!ReadCompletes, N!client, N!call, N!idling, N!pings, N!sending
<1>2. SessionTypes /\ GoesOn(kind, who) /\ WriteOK(kind) /\ PingOK(kind, who)
  BY DEF SessionAt
<1>3. kind = "read" /\ reading = 1 /\ AnsweredUpTo(request) /\ (zeroByte \/ readLeft > 0)
        /\ InboxOK(0)
  BY <1>2 DEF N!ReadCompletes, GoesOn
<1>4. /\ ~pinging /\ heap = {} /\ writing = 0 /\ contexts = {} /\ queued = None /\ spc[t] = "idle"
      /\ \A u \in N!AllThreads : ~HasCall(u)
  BY <1>2, <1>3 DEF N!ReadCompletes, PingOK, PingMay, WriteOK, GoesOn, SessionTypes
<1>5. N!InOrder' /\ AnswersKnown'
  BY <1>1, SameAnswers DEF SessionAt
<1>6. CASE N!ReadsNothing
  <2>1. UNCHANGED <<inbox, consumed, writeBuf, writing, closing, spc>>
    BY <1>6 DEF N!ReadsNothing, N!channel, N!writes
  <2>2. reading' \in {0, 1} /\ readLeft' = 2
    BY <1>3, <1>6 DEF N!ReadsNothing, N!BeginRead, N!HeaderLength
  <2>3. zeroByte' \in BOOLEAN
    BY <1>6 DEF N!ReadsNothing
  <2> QED
    BY <1>1, <1>2, <1>3, <2>1, <2>2, <2>3, ReadsOn DEF SessionTypes
<1>7. CASE N!ReadsSome
  <2>1. UNCHANGED <<inbox, zeroByte, writeBuf, writing, closing, spc>>
    BY <1>7 DEF N!ReadsSome, N!writes
  <2>2. reading' \in {0, 1} /\ readLeft' \in Nat \ {0} /\ consumed' \in Nat
    BY <1>2, <1>3, <1>7 DEF N!ReadsSome, N!BeginRead, SessionTypes
  <2> QED
    BY <1>1, <1>2, <1>3, <2>1, <2>2, ReadsOn DEF SessionTypes
<1>8. ASSUME ~zeroByte, readLeft <= N!Arrived
      PROVE  /\ inbox # <<>> /\ Len(inbox) > 0 /\ inbox[1] = request + 1
             /\ request + 1 \in DOMAIN sent /\ consumed + readLeft \in Nat
  <2>1. consumed \in Nat /\ readLeft \in Nat /\ readLeft > 0 /\ Len(inbox) \in Nat
          /\ Len(sent) \in Nat /\ request \in Nat
    BY <1>2, <1>3, <1>8 DEF SessionTypes
  <2>2. Len(inbox) * 4 - consumed > 0
    BY <1>8, <2>1 DEF N!Arrived, N!HeaderLength, N!BodyLength
  <2>3. Len(inbox) > 0
    BY <2>1, <2>2
  <2> QED
    BY <1>2, <1>3, <2>1, <2>3 DEF InboxOK, SessionTypes
<1>9. CASE N!ReadsHeader
  <2>1. inbox' = inbox /\ zeroByte' = zeroByte /\ spc' = spc /\ consumed' = consumed + readLeft
          /\ ~zeroByte /\ readLeft <= N!Arrived
    BY <1>9 DEF N!ReadsHeader
  <2>2. CASE sent[inbox[1]].form = "long"
    <3>1. /\ closing' = TRUE /\ N!PostWrite([type |-> "error", of |-> request + 1], writing)
          /\ reading' = 0 /\ readLeft' = 0
      BY <1>3, <1>8, <1>9, <2>1, <2>2 DEF N!ReadsHeader
    <3>2. PICK m \in N!Message : m = [type |-> "error", of |-> request + 1]
      <4>1. request + 1 \in Nat
        BY <1>2 DEF SessionTypes
      <4> QED
        BY <4>1 DEF N!Message
    <3>3. writing' = 0 \/ (writing' = 1 /\ writeBuf' = m)
      BY <1>4, <3>1, <3>2 DEF N!PostWrite, N!BeginWrite
    <3>4. SessionTypes' /\ InboxOK(0)'
      BY SMTT(30), <1>1, <1>2, <1>3, <1>8, <2>1, <3>1, <3>3 DEF SessionTypes, InboxOK
    <3>5. \A u \in N!AllThreads : CallOK(u)' /\ ~HasCall(u)'
      BY <1>1, <1>4, <2>1, SameAnswers DEF SessionAt, CallOK, HasCall
    <3>6. CASE writing' = 0
      <4>1. GoesOn("nobody", None)' /\ WriteOK("nobody")' /\ PingOK("nobody", None)'
        BY <1>1, <1>2, <1>4, <3>1, <3>5, <3>6 DEF GoesOn, WriteOK, PingOK
      <4> QED
        BY <1>5, <3>4, <3>5, <4>1 DEF SessionAt, SessionInv, Kinds
    <3>7. CASE writing' = 1 /\ writeBuf' = m
      <4>1. GoesOn("write", None)' /\ PingOK("write", None)'
        BY <1>1, <1>2, <1>4, <3>1, <3>4, <3>5 DEF GoesOn, PingOK
      <4>2. AnsweredUpTo(m.of - 1)' /\ m.of \in DOMAIN sent /\ N!IsAnswered(sent[m.of])
              /\ m.type # "ping"
        <5>1. m.of = request + 1 /\ m.of - 1 = request
          BY <1>2, <3>2 DEF SessionTypes
        <5>2. AnsweredUpTo(request)'
          BY <1>1, <1>3, SameAnswers
        <5>3. m.of \in DOMAIN sent /\ sent[m.of].form = "long"
          BY <1>8, <2>1, <2>2, <5>1
        <5> QED
          BY <1>1, <3>2, <5>1, <5>2, <5>3 DEF N!IsAnswered, N!WantsAnswer, AnsweredUpTo
      <4>3. WriteOK("write")'
        BY <1>1, <1>4, <3>1, <3>7, <4>2, SameAnswers DEF WriteOK
      <4> QED
        BY <1>5, <3>4, <3>5, <4>1, <4>3 DEF SessionAt, SessionInv, Kinds
    <3> QED
      BY <3>3, <3>6, <3>7
  <2>3. CASE sent[inbox[1]].form # "long"
    <3>1. UNCHANGED <<writeBuf, writing, closing>> /\ readLeft' = 2 /\ reading' \in {0, 1}
      BY <1>3, <1>9, <2>3 DEF N!ReadsHeader, N!writes, N!BeginRead, N!BodyLength
    <3> QED
      BY <1>1, <1>2, <1>3, <1>8, <2>1, <3>1, ReadsOn DEF SessionTypes
  <2> QED
    BY <2>2, <2>3
<1>10. CASE N!ReadsBody(t)
  <2>1. /\ ~zeroByte /\ readLeft <= N!Arrived /\ consumed' = 0 /\ inbox' = Tail(inbox)
        /\ readLeft' = 0 /\ reading' = 0 /\ spc' = [spc EXCEPT ![t] = "read"]
        /\ UNCHANGED <<zeroByte, writeBuf, writing, closing>>
    BY <1>3, <1>10 DEF N!ReadsBody, N!Goto, N!writes
  <2>2. SessionTypes'
    <3>1. inbox' \in Seq(Nat)
      BY <1>2, <1>8, <2>1 DEF SessionTypes
    <3> QED
      BY <1>1, <1>2, <2>1, <3>1 DEF SessionTypes, SessionLabels
  <2>3. InboxOK(1)'
    <3>1. /\ Len(inbox') = Len(inbox) - 1 /\ Len(inbox) \in Nat /\ Len(inbox) > 0
          /\ \A i \in 1..Len(inbox') : inbox'[i] = inbox[i + 1]
      BY <1>2, <1>8, <2>1 DEF SessionTypes
    <3> QED
      BY <1>1, <1>2, <1>3, <3>1 DEF InboxOK, SessionTypes
  <2>4. AnsweredUpTo(request)'
    BY <1>1, <1>3, SameAnswers
  <2>5. spc'[t] = "read" /\ \A u \in N!AllThreads \ {t} : spc'[u] = spc[u]
    BY <1>2, <2>1 DEF SessionTypes
  <2>6. \A u \in N!AllThreads : CallOK(u)' /\ (HasCall(u)' <=> u = t)
    BY <1>1, <1>4, <1>8, <2>1, <2>4, <2>5, OtherThreads DEF SessionAt, CallOK, HasCall
  <2>7. GoesOn("thread", t)'
    BY <1>1, <1>4, <2>1, <2>3, <2>5, <2>6 DEF GoesOn
  <2>8. WriteOK("thread")' /\ PingOK("thread", t)'
    BY <1>1, <1>2, <1>4, <2>1, <2>5 DEF WriteOK, PingOK
  <2> QED
    BY <1>5, <2>2, <2>6, <2>7, <2>8 DEF SessionAt, SessionInv, Kinds
<1> QED
  BY <1>6, <1>7, <1>9, <1>10 DEF N!ReadCompletes

-----------------------------------------------------------------------------
(* Every step of a session keeps the invariant, unless a thread stalls for *)
(* a ping interval in the middle of one.                                   *)
LEMMA SessionStep == ~MayStall /\ SessionInv /\ [N!Next]_(N!vars) => SessionInv'
<1> SUFFICES ASSUME ~MayStall, SessionInv, [N!Next]_(N!vars) PROVE SessionInv'
  OBVIOUS
<1>0. CASE twice
  <2>1. twice'
    BY <1>0 DEF N!Next, N!Run, N!vars, N!call, N!ReadCompletes, N!Fails, N!WriteCompletes, N!Enter,
       N!Decode, N!Register, N!KeepEntry,
                N!Servant, N!Served, N!Returned, N!Commit, N!Send, N!Write, N!Written, N!Leave,
                    N!Expires, N!Ping,
                N!ReaperLooks, N!ReaperDecides, N!ReaperCloses, N!TimePasses, N!ClientCalls,
                    N!ClientCloses
  <2> QED
    BY <2>1 DEF SessionInv
<1>00. SUFFICES ASSUME ~twice PROVE SessionInv'
  BY <1>0
<1>1. PICK kind \in Kinds, who \in N!AllThreads \union {None} : SessionAt(kind, who)
  BY <1>00 DEF SessionInv
<1>2. ASSUME NEW k, NEW w, SessionAt(k, w)' PROVE SessionInv'
  BY <1>2 DEF SessionInv, SessionAt
<1>3. ASSUME NEW t \in N!AllThreads, N!Run(t) PROVE SessionInv'
  <2>1. CASE N!Returned(t)
    <3>1. CASE N!Current.fate = "other" /\ ~autoSend
      BY <2>1, <3>1 DEF N!Returned, SessionInv
    <3>2. CASE autoSend \/ N!Current.fate # "other"
      BY <1>1, <1>2, <2>1, <3>2, MoveStep, AnswerStep
    <3> QED
      BY <3>1, <3>2
  <2>2. CASE N!ReadCompletes(t) \/ N!Fails(t) \/ N!WriteCompletes(t)
    BY <1>1, <2>2, ReadCompletesStep, FailStep, WriteCompletesStep
  <2>3. CASE N!Enter(t) \/ N!Register(t) \/ N!KeepEntry(t)
    BY <1>1, <1>2, <2>3, EnterStep, RegisterStep, KeepEntryStep
  <2>4. CASE N!Decode(t) \/ N!Servant(t) \/ N!Send(t) \/ N!Write(t)
    BY <1>1, <2>4, DecodeStep, ServantStep, SendStep, WriteStep
  <2>5. CASE N!Served(t) \/ N!Leave(t) \/ N!Commit(t)
    BY <1>1, <1>2, <2>5, MoveStep, AnswerStep
  <2>6. CASE N!Written(t)
    BY <1>1, <2>6, WrittenCallStep, WrittenPingStep
  <2> QED
    BY <1>3, <2>1, <2>2, <2>3, <2>4, <2>5, <2>6 DEF N!Run
<1>4. CASE N!ReaperLooks \/ N!ReaperDecides \/ N!ReaperCloses \/ N!TimePasses \/ N!ClientCloses
        \/ UNCHANGED N!vars
  BY <1>1, <1>2, <1>4, QuietStep
<1>5. CASE N!Expires \/ N!Ping \/ N!ClientCalls
  BY <1>1, <1>2, <1>5, ExpiresStep, PingStep, ClientStep
<1> QED
  BY <1>3, <1>4, <1>5 DEF N!Next

(* The invariant holds in every state.                                     *)
LEMMA SessionInvariant == ~MayStall => (N!Spec => []SessionInv)
<1> SUFFICES ASSUME ~MayStall PROVE N!Spec => []SessionInv
  OBVIOUS
<1>1. SessionInv /\ [N!Next]_(N!vars) => SessionInv'
  BY SessionStep
<1> QED
  BY <1>1, SessionStarts, PTL DEF N!Spec

(* RcfSession and AsioNetworkSession: a connection is never read or        *)
(* written by two operations at once, though a call is answered from any   *)
(* thread and a timer sends pings; until a servant leaves the answer to    *)
(* another thread and throws something that is no std::exception as well,  *)
(* which the scope guard answers.                                          *)
THEOREM OneOperationAtATime == ~MayStall => (N!Spec => []OneOperation)
<1>1. SessionInv => OneOperation
  <2> SUFFICES ASSUME NEW kind, NEW who, SessionAt(kind, who) PROVE OneOperation
    BY DEF SessionInv, OneOperation, N!OneOperation
  <2> QED
    BY DEF SessionAt, SessionTypes, GoesOn, WriteOK, PingOK, PingMay, OneOperation, N!OneOperation
<1> QED
  BY <1>1, SessionInvariant, PTL

(* Answers are sent in the order of the calls, each once, and to a oneway  *)
(* call only if its servant throws something that is no std::exception;    *)
(* until a call is answered by the scope guard and by its context.         *)
THEOREM AnswersKeepOrder == ~MayStall => (N!Spec => []AnswersInOrder)
<1>1. SessionInv => AnswersInOrder
  BY DEF SessionInv, SessionAt, AnswersInOrder, N!AnswersInOrder
<1> QED
  BY <1>1, SessionInvariant, PTL

-----------------------------------------------------------------------------
(* A publisher                                                             *)
-----------------------------------------------------------------------------
(* Nothing is being sent.                                                  *)
NotSending == send.pc = "idle"
(* A message is being sent.                                                *)
OnMessage == ~NotSending /\ send.what = "message"

(* s was sent every message since it was brought in, up to the n-th. *)
GotUpTo(s, n) == got[s] = n - due[s]

(* The types of a publisher                                                *)
PublisherTypes ==
    /\ {"pc", "what", "list", "batch", "todo", "target", "count", "kept"} = DOMAIN send
    /\ send.list \subseteq Subscribers /\ send.batch \subseteq Subscribers
    /\ send.kept \subseteq Subscribers
    /\ mAddedClientTransports \subseteq Subscribers /\ mClientTransports \subseteq Subscribers
    /\ handler \in [Subscribers -> {"none", "pending", "ok", "failed"}]
    /\ published \in Nat /\ due \in [Subscribers -> Nat] /\ got \in [Subscribers -> Nat]

(* While a message is sent, those it was sent to have it, and those that   *)
(* wait for it have all the others; a subscriber is in one of the lists.   *)
PublisherInv ==
    /\ PublisherTypes
    /\ send.pc \in {"idle", "next"} => send.batch = {}
    /\ send.pc = "cancelling" => send.target \subseteq send.batch
    /\ \A s \in Subscribers : handler[s] # "none" => s \in send.batch
    /\ \A s \in mClientTransports : GotUpTo(s, published)
    /\ OnMessage =>
           /\ mClientTransports = {} /\ published > 0
           /\ send.list \intersect send.batch = {} /\ send.list \intersect send.kept = {}
           /\ send.batch \intersect send.kept = {}
           /\ \A s \in send.kept : GotUpTo(s, published)
           /\ \A s \in send.list : GotUpTo(s, published - 1)
           /\ \A s \in send.batch :
                  /\ handler[s] = "pending" => GotUpTo(s, published - 1)
                  /\ handler[s] = "ok" => GotUpTo(s, published)

-----------------------------------------------------------------------------
(* A publisher starts without subscribers.                                 *)
LEMMA PublisherStarts == P!Init => PublisherInv
  BY DEF P!Init, PublisherInv, PublisherTypes, NotSending, OnMessage

(* The subscribers themselves *)
LEMMA SubscriberStep ==
    ASSUME PublisherInv, NEW s \in Subscribers,
           \/ P!RequestSubscription(s) \/ P!AddSubscriberTransport(s)
           \/ P!SubscriberGoes(s) \/ P!SubscriberIsSilent(s)
    PROVE  PublisherInv'
<1>1. UNCHANGED <<mClientTransports, send, handler, published, due, got>>
  BY DEF P!RequestSubscription, P!AddSubscriberTransport, P!SubscriberGoes, P!SubscriberIsSilent,
     P!messages
<1>2. mAddedClientTransports' \subseteq Subscribers
  BY DEF P!RequestSubscription, P!AddSubscriberTransport, P!SubscriberGoes, P!SubscriberIsSilent,
     PublisherInv, PublisherTypes
<1> QED
  BY <1>1, <1>2 DEF PublisherInv, PublisherTypes, NotSending, OnMessage, GotUpTo

(* Who is brought in begins with the next message. *)
LEMMA BroughtIn ==
    ASSUME PublisherInv, P!BringInNewTransports
    PROVE  /\ due' \in [Subscribers -> Nat] /\ got' \in [Subscribers -> Nat]
           /\ P!All \subseteq Subscribers
           /\ \A s \in P!All : got'[s] = published - due'[s]
  BY DEF PublisherInv, PublisherTypes, P!BringInNewTransports, P!All, GotUpTo

(* A message is published: those waiting are brought in before.            *)
LEMMA PublishStep ==
    ASSUME PublisherInv, P!Publish
    PROVE  PublisherInv'
<1>1. /\ due' \in [Subscribers -> Nat] /\ got' \in [Subscribers -> Nat]
      /\ P!All \subseteq Subscribers
      /\ \A s \in P!All : got'[s] = published - due'[s]
  BY BroughtIn DEF P!Publish
<1>2. /\ DOMAIN send' = DOMAIN send /\ send'.pc = "next" /\ send'.what = "message"
      /\ send'.list = P!All /\ send'.kept = {} /\ send'.batch = send.batch
  BY DEF P!Publish, PublisherInv, PublisherTypes
<1>3. /\ UNCHANGED handler /\ mClientTransports' = {} /\ mAddedClientTransports' = {}
      /\ published' = published + 1 /\ published \in Nat
  BY DEF P!Publish, P!BringInNewTransports, PublisherInv, PublisherTypes
<1>4. send.batch = {}
  BY DEF P!Publish, P!Unlocked, PublisherInv
<1>5. PublisherTypes'
  BY <1>1, <1>2, <1>3 DEF PublisherInv, PublisherTypes
<1>6. \A s \in P!All : GotUpTo(s, published - 1)'
  BY <1>1, <1>3 DEF GotUpTo
<1> QED
  BY <1>2, <1>3, <1>4, <1>5, <1>6 DEF PublisherInv, OnMessage, NotSending

(* A ping is published.                                                    *)
LEMMA PublisherPings ==
    ASSUME PublisherInv, P!PingAllTransports
    PROVE  PublisherInv'
<1>1. /\ due' \in [Subscribers -> Nat] /\ got' \in [Subscribers -> Nat]
      /\ P!All \subseteq Subscribers
      /\ \A s \in P!All : got'[s] = published - due'[s]
  BY BroughtIn DEF P!PingAllTransports
<1>2. /\ DOMAIN send' = DOMAIN send /\ send'.pc = "next" /\ send'.what = "ping"
      /\ send'.list \subseteq P!All /\ send'.kept = {} /\ send'.batch = send.batch
  BY DEF P!PingAllTransports, PublisherInv, PublisherTypes
<1>3. /\ UNCHANGED <<handler, published>> /\ mClientTransports' = P!All
        /\ mAddedClientTransports' = {}
      /\ send.batch = {}
  BY DEF P!PingAllTransports, P!BringInNewTransports, P!Unlocked, PublisherInv
<1>4. PublisherTypes'
  BY <1>1, <1>2, <1>3 DEF PublisherInv, PublisherTypes
<1> QED
  BY <1>1, <1>2, <1>3, <1>4 DEF PublisherInv, OnMessage, NotSending, GotUpTo

(* The next batch is sent; some transports fail at once.                   *)
LEMMA BatchBegins ==
    ASSUME PublisherInv, P!SendOnTransports
    PROVE  PublisherInv'
<1>1. PICK batch \in SUBSET send.list : \E failing \in SUBSET {s \in batch : session[s] = "gone"} :
         /\ send' = [send EXCEPT !.pc = "sending", !.list = @ \ batch, !.batch = batch,
                                 !.todo = batch, !.count = Cardinality(failing)]
         /\ handler' = [s \in Subscribers |->
                IF s \in failing THEN "failed" ELSE IF s \in batch THEN "pending" ELSE "none"]
  BY SameCounts DEF P!SendOnTransports
<1>2. /\ DOMAIN send' = DOMAIN send /\ send'.pc = "sending" /\ send'.what = send.what
      /\ send'.list = send.list \ batch /\ send'.batch = batch /\ send'.kept = send.kept
      /\ handler' \in [Subscribers -> {"none", "pending", "ok", "failed"}]
      /\ \A s \in Subscribers : handler'[s] # "ok" /\ (handler'[s] # "none" => s \in batch)
  BY <1>1 DEF PublisherInv, PublisherTypes
<1>3. send.pc = "next" /\ UNCHANGED <<mAddedClientTransports, mClientTransports, published, due,
                                      got>>
  BY DEF P!SendOnTransports, P!messages
<1>4. PublisherTypes' /\ batch \subseteq send.list /\ batch \subseteq Subscribers
  BY <1>1, <1>2, <1>3 DEF PublisherInv, PublisherTypes
<1> QED
  BY <1>2, <1>3, <1>4 DEF PublisherInv, OnMessage, NotSending, GotUpTo

(* Who completes was waiting, and is in no other list. *)
LEMMA CompletedStep ==
    ASSUME PublisherInv, NEW s \in Subscribers, P!SendCompleted(s)
    PROVE  PublisherInv'
<1>1. /\ DOMAIN send' = DOMAIN send /\ send'.pc = send.pc /\ send'.what = send.what
      /\ send'.list = send.list /\ send'.batch = send.batch /\ send'.kept = send.kept
      /\ send'.target = send.target
  BY DEF P!SendCompleted, PublisherInv, PublisherTypes
<1>2. handler[s] = "pending" /\ s \in send.batch /\ send.pc \notin {"idle", "next"}
  BY DEF P!SendCompleted, PublisherInv
<1>3. UNCHANGED <<mAddedClientTransports, mClientTransports, published, due>>
  BY DEF P!SendCompleted
<1>4. PICK h \in {"ok", "failed"} :
         /\ handler' = [handler EXCEPT ![s] = h]
         /\ got' = [got EXCEPT ![s] = IF h = "ok" /\ send.what = "message" THEN @ + 1 ELSE @]
  BY DEF P!SendCompleted, PublisherInv, PublisherTypes
<1>5. PublisherTypes'
  BY <1>1, <1>3, <1>4 DEF PublisherInv, PublisherTypes
<1>6. \A r \in Subscribers \ {s} : handler'[r] = handler[r] /\ got'[r] = got[r]
  BY <1>4 DEF PublisherInv, PublisherTypes
<1>7. CASE OnMessage
  <2>1. GotUpTo(s, published - 1)
    BY <1>2, <1>7 DEF PublisherInv
  <2>2. h = "ok" => GotUpTo(s, published)'
    BY <1>3, <1>4, <1>7, <2>1 DEF GotUpTo, OnMessage, PublisherInv, PublisherTypes
  <2>3. \A r \in Subscribers \ {s} : (GotUpTo(r, published)' <=> GotUpTo(r, published))
                                   /\ (GotUpTo(r, published - 1)' <=> GotUpTo(r, published - 1))
    BY <1>3, <1>6 DEF GotUpTo
  <2>4. handler'[s] = h
    BY <1>4 DEF PublisherInv, PublisherTypes
  <2>5. s \notin send.list /\ s \notin send.kept /\ mClientTransports = {}
    BY <1>2, <1>7 DEF PublisherInv
  <2> QED
    BY <1>1, <1>2, <1>3, <1>5, <1>6, <1>7, <2>2, <2>3, <2>4, <2>5
    DEF PublisherInv, PublisherTypes, OnMessage, NotSending
<1>8. CASE ~OnMessage
  <2>1. got' = got
    BY <1>2, <1>4, <1>8 DEF OnMessage, NotSending, PublisherInv, PublisherTypes
  <2> QED
    BY <1>1, <1>2, <1>3, <1>5, <1>6, <1>8, <2>1 DEF PublisherInv, OnMessage, NotSending, GotUpTo
<1> QED
  BY <1>7, <1>8

(* The end of a wait, and what is cancelled after it *)
LEMMA BatchWaits ==
    ASSUME PublisherInv, P!WaitEnds \/ \E s \in Subscribers : P!CancelLooks(s) \/ P!Cancel(s)
    PROVE  PublisherInv'
<1>1. /\ DOMAIN send' = DOMAIN send /\ send'.pc \notin {"idle", "next"} /\ send'.what = send.what
      /\ send'.list = send.list /\ send'.batch = send.batch /\ send'.kept = send.kept
      /\ send.pc \notin {"idle", "next"}
      /\ send'.pc = "cancelling" => send'.target \subseteq send.batch
  <2>0. DOMAIN send = {"pc", "what", "list", "batch", "todo", "target", "count", "kept"}
    BY DEF PublisherInv, PublisherTypes
  <2>1. CASE P!WaitEnds
    BY <2>0, <2>1 DEF P!WaitEnds
  <2>2. ASSUME NEW s \in Subscribers, P!CancelLooks(s) PROVE <1>1
    <3>1. handler[s] = "pending" => s \in send.batch
      BY DEF PublisherInv
    <3> QED
      BY <2>0, <2>2, <3>1 DEF P!CancelLooks
  <2>3. ASSUME NEW s \in Subscribers, P!Cancel(s) PROVE <1>1
    BY <2>0, <2>3 DEF P!Cancel
  <2> QED
    BY <2>1, <2>2, <2>3
<1>2. UNCHANGED <<mAddedClientTransports, mClientTransports, published, due, got>>
  BY DEF P!WaitEnds, P!CancelLooks, P!Cancel, P!messages
<1>3. send'.pc = "cancelling" => send'.target \subseteq send.batch
  BY <1>1
<1>4. handler' = handler \/ \E s \in send.batch : handler' = [handler EXCEPT ![s] = "failed"]
  BY DEF P!WaitEnds, P!CancelLooks, P!Cancel, PublisherInv
<1>5. /\ handler' \in [Subscribers -> {"none", "pending", "ok", "failed"}]
      /\ \A s \in Subscribers : handler'[s] \in {handler[s], "failed"} /\ (handler'[s] # "none" =>
         s \in send.batch)
  BY <1>4 DEF PublisherInv, PublisherTypes
<1>6. PublisherTypes'
  BY <1>1, <1>2, <1>5 DEF PublisherInv, PublisherTypes
<1> QED
  BY <1>1, <1>2, <1>3, <1>5, <1>6 DEF PublisherInv, PublisherTypes, OnMessage, NotSending, GotUpTo

(* Who failed or is late is left out; the others are kept.                 *)
LEMMA BatchIsOver ==
    ASSUME PublisherInv, P!BatchEnds
    PROVE  PublisherInv'
<1>1. /\ DOMAIN send' = DOMAIN send /\ send.pc = "cancel" /\ send'.pc = "next"
      /\ send'.what = send.what
      /\ send'.list = send.list /\ send'.batch = {}
      /\ send'.kept = send.kept \union {s \in send.batch : handler[s] = "ok"}
  BY DEF P!BatchEnds, P!Keeps, PublisherInv, PublisherTypes
<1>2. UNCHANGED <<mAddedClientTransports, mClientTransports, published, due, got>>
  BY DEF P!BatchEnds, P!messages
<1>3. handler' = [s \in Subscribers |-> "none"]
  BY DEF P!BatchEnds
<1> QED
  BY <1>1, <1>2, <1>3 DEF PublisherInv, PublisherTypes, OnMessage, NotSending, GotUpTo

(* Who was kept gets the next message too.                                 *)
LEMMA SendEndStep ==
    ASSUME PublisherInv, P!SendEnds
    PROVE  PublisherInv'
<1>1. /\ DOMAIN send' = DOMAIN send /\ send.pc = "next" /\ send'.pc = "idle"
      /\ send'.what = send.what
      /\ send'.list = send.list /\ send'.batch = send.batch /\ send'.kept = {}
  BY DEF P!SendEnds, PublisherInv, PublisherTypes
<1>2. UNCHANGED <<mAddedClientTransports, handler, published, due, got>>
  BY DEF P!SendEnds, P!messages
<1>3. mClientTransports' = IF send.what = "message" THEN send.kept ELSE mClientTransports
  BY DEF P!SendEnds
<1> QED
  BY <1>1, <1>2, <1>3 DEF PublisherInv, PublisherTypes, OnMessage, NotSending, GotUpTo

(* Subscribers that are gone are dropped.                                  *)
LEMMA DropStep ==
    ASSUME PublisherInv, P!DropIdleTransports
    PROVE  PublisherInv'
<1>1. /\ due' \in [Subscribers -> Nat] /\ got' \in [Subscribers -> Nat]
      /\ P!All \subseteq Subscribers
      /\ \A s \in P!All : got'[s] = published - due'[s]
  BY BroughtIn DEF P!DropIdleTransports
<1>2. NotSending /\ mClientTransports' \subseteq P!All /\ mAddedClientTransports' = {}
        /\ UNCHANGED <<send, handler, published>>
  BY DEF P!DropIdleTransports, P!BringInNewTransports, P!Unlocked, NotSending
<1> QED
  BY <1>1, <1>2 DEF PublisherInv, PublisherTypes, OnMessage, NotSending, GotUpTo

(* The publisher closes, and keeps nobody.                                 *)
LEMMA PublisherCloses ==
    ASSUME PublisherInv, P!Close \/ UNCHANGED P!vars
    PROVE  PublisherInv'
<1>1. UNCHANGED <<send, handler, published, due, got>>
  BY DEF P!Close, P!vars, P!messages
<1>2. /\ mClientTransports' \in {{}, mClientTransports}
      /\ mAddedClientTransports' \in {{}, mAddedClientTransports}
  BY DEF P!Close, P!vars
<1> QED
  BY <1>1, <1>2 DEF PublisherInv, PublisherTypes, OnMessage, NotSending, GotUpTo

(* Every step of the publisher keeps the invariant.                        *)
LEMMA PublisherStep == PublisherInv /\ [P!Next]_(P!vars) => PublisherInv'
  BY SubscriberStep, PublishStep, PublisherPings, BatchBegins, CompletedStep, BatchWaits,
     BatchIsOver, SendEndStep,
     DropStep, PublisherCloses DEF P!Next, P!Sending

(* The invariant holds in every state.                                     *)
LEMMA PublisherInvariant == P!Spec => []PublisherInv
  BY PublisherStarts, PublisherStep, PTL DEF P!Spec

(* MulticastClientTransport: a subscriber that is still kept has got every *)
(* message published since it was brought in, however the batches went.    *)
THEOREM WhoIsKeptGotAll == P!Spec => []KeptGotAll
<1>1. PublisherInv => KeptGotAll
  BY DEF PublisherInv, KeptGotAll, P!KeptGotAll, GotUpTo
<1> QED
  BY <1>1, PublisherInvariant, PTL

-----------------------------------------------------------------------------
(* The server                                                              *)
-----------------------------------------------------------------------------
(* A part runs as it does alone, and does nothing while another runs.      *)
LEMMA PartsRun == ServerSpec => Spec /\ T!Spec /\ N!Spec /\ P!Spec
<1>1. ServerInit => Init /\ T!Init /\ N!Init /\ P!Init
  BY DEF ServerInit
<1>2. [ServerNext]_allVars => [Next]_vars
  BY DEF ServerNext, Pool, Transport, Session, Publishing, allVars
<1>3. [ServerNext]_allVars => [T!Next]_(T!vars)
  BY DEF ServerNext, Pool, Transport, Session, Publishing, allVars, transportVars, T!vars
<1>4. [ServerNext]_allVars => [N!Next]_(N!vars)
  BY DEF ServerNext, SessionNext, Pool, Transport, Session, Publishing, allVars, sessionVars,
         N!vars, N!client, N!channel, N!reads, N!writes, N!net, N!call, N!idling, N!pings, N!sending
<1>5. [ServerNext]_allVars => [P!Next]_(P!vars)
  BY DEF ServerNext, Pool, Transport, Session, Publishing, allVars, publisherVars, P!vars
<1> QED
  BY <1>1, <1>2, <1>3, <1>4, <1>5, PTL DEF ServerSpec, Spec, T!Spec, N!Spec, P!Spec

(* The server as a whole keeps what its parts promise: a free thread, the  *)
(* connection limit, and no message lost to a subscriber that stays.       *)
THEOREM ServerKeepsPromises == ServerSpec => [](SomeoneIsFree /\ LimitKept /\ KeptGotAll)
  BY PartsRun, PoolHasAFreeThread, LimitIsKept, WhoIsKeptGotAll, PTL

(* Unless a thread stalls for a ping interval, its sessions read or write  *)
(* one thing at a time, and answer in order, with the same exception.      *)
THEOREM ServerAnswersInOrder == ~MayStall => (ServerSpec => [](OneOperation /\ AnswersInOrder))
<1> SUFFICES ASSUME ~MayStall PROVE ServerSpec => [](OneOperation /\ AnswersInOrder)
  OBVIOUS
<1>1. N!Spec => []OneOperation
  BY OneOperationAtATime
<1>2. N!Spec => []AnswersInOrder
  BY AnswersKeepOrder
<1> QED
  BY <1>1, <1>2, PartsRun, PTL
=============================================================================
