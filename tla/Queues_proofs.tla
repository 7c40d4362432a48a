--------------------------- MODULE Queues_proofs ---------------------------
(***************************************************************************)
(* Proofs about InputQueue, for any sets of users, packages, submitters    *)
(* and observers, any order of packages that is a strict weak order, and   *)
(* any period; and about OutputQueue, for any number of output threads and *)
(* results.  The two share nothing.                                        *)
(***************************************************************************)
EXTENDS InputQueue, OutputQueue, SequenceTheorems, FiniteSetTheorems, TLAPS

-----------------------------------------------------------------------------
(* The inductive invariant *)

HoldsMutex(t) ==
    pc[t] \in {"add_lock_user", "is_empty_one", "retrieve_check_one",
               "retrieve_select", "advance_erase", "retrieve_lock_user", "threw"}

(* u's queue holds a package, or will before its mutex can be taken again. *)
HasWork(u) == queue[u] # {} \/ \E t \in Submitters : Pushing(t, u)

WorkLeft ==
    \/ Len(userList) > 1
    \/ /\ Len(userList) = 1
       /\ queue[current] # {} \/ \E t \in Submitters : Adding(t, current)

(* Each kind of thread runs its own calls only. *)
Roles ==
    /\ \A t \in Submitters : pc[t] \in {"idle", "add_lock_user", "add_push"}
    /\ \A t \in Observers : pc[t] \in {"idle", "is_empty_one"}
    /\ pc[Worker] \notin {"add_lock_user", "add_push"}

(* Who owns a mutex is where the code says it is. *)
Locks ==
    /\ \A t \in Threads : HoldsMutex(t) <=> mutex = t
    /\ \A t \in Submitters, u \in Users : Pushing(t, u) => userMutex[u] = t
    /\ \A t \in Threads, u \in Users :
          userMutex[u] = t =>
              \/ t \in Submitters /\ Pushing(t, u)
              \/ t = Worker /\ pc[Worker] = "retrieve_pop" /\ u = current

(* A package that is being added belongs to a registered user, is being    *)
(* added once and is in no queue.                                          *)
AddsAreNew ==
    /\ \A t \in Submitters : pc[t] # "idle" =>
          /\ arg[t] \in Packages
          /\ UserOf[arg[t]] \in Registered
          /\ \A u \in Users : arg[t] \notin queue[u]
    /\ \A t, s \in Submitters :
          pc[t] # "idle" /\ pc[s] # "idle" /\ arg[t] = arg[s] => t = s

(* Queues exist for registered users and hold those users' packages. *)
QueuesFiled ==
    \A u \in Users :
        /\ queue[u] # {} => u \in Registered
        /\ \A p \in queue[u] : UserOf[p] = u

(* What the worker knows at each of its steps. *)
WorkerKnows ==
    /\ sawWork => pc[Worker] = "idle" /\ held = NoPackage /\ WorkLeft
    /\ held # NoPackage => pc[Worker] = "idle" /\ Len(userList) > 0
    /\ pc[Worker] = "retrieve_check_one" => Len(userList) = 1 /\ HasWork(current)
    /\ pc[Worker] = "retrieve_select" =>
          Len(userList) > 1 \/ (Len(userList) = 1 /\ HasWork(current))
    /\ pc[Worker] = "retrieve_lock_user" => Len(userList) > 0 /\ HasWork(current)
    /\ pc[Worker] # "threw"

EmptyKnows ==
    \A t \in Threads : pc[t] = "is_empty_one" => Len(userList) = 1

AdvanceKnows ==
    IF pc[Worker] = "advance_erase"
      THEN /\ previous \in Registered /\ current \in Registered
           /\ previous = current => Len(userList) = 1
           /\ caller = "retrieve" => HasWork(current)
      ELSE previous = NoUser

IInv ==
    /\ TypeOK /\ Roles /\ Locks /\ AddsAreNew /\ QueuesFiled
    /\ IteratorValid /\ WaitingUsersHaveWork /\ PoppedQueueHasWork
    /\ WorkerKnows /\ EmptyKnows /\ AdvanceKnows

-----------------------------------------------------------------------------
(* Lemmas on the list of users *)

(* A user in the list has a position there. *)
LEMMA PositionInList ==
    ASSUME NEW list \in Seq(Users), NEW u \in ToSet(list)
    PROVE  PositionOf(list, u) \in 1..Len(list) /\ list[PositionOf(list, u)] = u
<1>1. \E i \in 1..Len(list) : list[i] = u
  BY LenProperties DEF ToSet
<1> QED
  BY <1>1 DEF PositionOf

(* Advancing the iterator stays in the list, and leaves the user unless it *)
(* is the only one.                                                        *)
LEMMA SuccessorInList ==
    ASSUME NEW list \in Seq(Users), IsInjective(list), NEW u \in ToSet(list)
    PROVE  /\ Successor(list, u) \in ToSet(list)
           /\ Successor(list, u) = u => Len(list) = 1
<1> DEFINE i == PositionOf(list, u)
           j == IF i = Len(list) THEN 1 ELSE i + 1
<1>1. i \in 1..Len(list) /\ list[i] = u
  BY PositionInList
<1>2. j \in 1..Len(list) /\ (j = i => Len(list) = 1)
  <2>1. Len(list) \in Nat
    BY LenProperties
  <2> HIDE DEF i
  <2>2. CASE i = Len(list)
    BY <1>1, <2>1, <2>2
  <2>3. CASE i # Len(list)
    BY <1>1, <2>1, <2>3
  <2> QED
    BY <2>2, <2>3
<1>3. Successor(list, u) = list[j]
  BY DEF Successor
<1>4. list[j] \in ToSet(list)
  BY <1>2, LenProperties DEF ToSet
<1>5. list[j] = u => j = i
  BY <1>1, <1>2, LenProperties DEF IsInjective
<1> QED
  BY <1>2, <1>3, <1>4, <1>5

(* Erasing a user removes it, and only it. *)
LEMMA EraseFromList ==
    ASSUME NEW list \in Seq(Users), IsInjective(list), NEW u \in ToSet(list)
    PROVE  /\ Erase(list, u) \in Seq(Users)
           /\ IsInjective(Erase(list, u))
           /\ Len(Erase(list, u)) = Len(list) - 1
           /\ ToSet(Erase(list, u)) = ToSet(list) \ {u}
<1> DEFINE i == PositionOf(list, u)
           n == Len(list)
           e == Erase(list, u)
<1>1. i \in 1..n /\ list[i] = u /\ n \in Nat /\ DOMAIN list = 1..n
  BY PositionInList, LenProperties
<1>e. e = SubSeq(list, 1, i - 1) \o SubSeq(list, i + 1, n)
  BY DEF Erase, RemoveAt
<1> HIDE DEF i, n, e
<1>2. /\ SubSeq(list, 1, i - 1) \in Seq(Users)
      /\ Len(SubSeq(list, 1, i - 1)) = i - 1
      /\ \A k \in 1..(i - 1) : SubSeq(list, 1, i - 1)[k] = list[k]
  <2>1. \A k \in 1..(i - 1) : list[k] \in Users
    BY <1>1, ElementOfSeq
  <2> QED
    BY <1>1, <2>1, SubSeqProperties
<1>3. /\ SubSeq(list, i + 1, n) \in Seq(Users)
      /\ Len(SubSeq(list, i + 1, n)) = n - i
      /\ \A k \in 1..(n - i) : SubSeq(list, i + 1, n)[k] = list[k + i]
  <2>1. \A k \in (i + 1)..n : list[k] \in Users
    BY <1>1, ElementOfSeq
  <2>2. /\ SubSeq(list, i + 1, n) \in Seq(Users)
        /\ Len(SubSeq(list, i + 1, n)) = IF i + 1 <= n THEN n - (i + 1) + 1 ELSE 0
        /\ \A k \in 1..(n - (i + 1) + 1) :
              SubSeq(list, i + 1, n)[k] = list[(i + 1) + k - 1]
    <3>1. i + 1 \in Int /\ n \in Int
      BY <1>1
    <3> QED
      BY <2>1, <3>1, SubSeqProperties
  <2> QED
    BY <1>1, <2>2
<1>4. /\ e \in Seq(Users) /\ Len(e) = n - 1
      /\ \A k \in 1..(n - 1) : e[k] = list[IF k < i THEN k ELSE k + 1]
  <2> DEFINE a == SubSeq(list, 1, i - 1)
             b == SubSeq(list, i + 1, n)
  <2>1. e = a \o b
    BY <1>e
  <2>2. /\ a \o b \in Seq(Users)
        /\ Len(a \o b) = Len(a) + Len(b)
        /\ \A k \in 1 .. Len(a) + Len(b) :
              (a \o b)[k] = IF k <= Len(a) THEN a[k] ELSE b[k - Len(a)]
    BY <1>2, <1>3, ConcatProperties
  <2>3. Len(a) = i - 1 /\ Len(b) = n - i
    BY <1>2, <1>3
  <2> HIDE DEF a, b
  <2>4. ASSUME NEW k \in 1..(n - 1)
        PROVE  e[k] = list[IF k < i THEN k ELSE k + 1]
    <3>1. CASE k < i
      BY <1>1, <1>2, <2>1, <2>2, <2>3, <3>1 DEF a
    <3>2. CASE ~(k < i)
      <4>1. e[k] = b[k - (i - 1)] /\ k - (i - 1) \in 1..(n - i)
        BY <1>1, <2>1, <2>2, <2>3, <3>2
      <4>2. (k - (i - 1)) + i = k + 1
        BY <1>1
      <4> QED
        BY <1>3, <3>2, <4>1, <4>2 DEF b
    <3> QED
      BY <3>1, <3>2
  <2> QED
    BY <1>1, <2>1, <2>2, <2>3, <2>4
<1>5. DOMAIN e = 1..(n - 1)
  BY <1>4, LenProperties
<1>6. IsInjective(e)
  <2> SUFFICES ASSUME NEW k \in 1..(n - 1), NEW m \in 1..(n - 1), e[k] = e[m]
               PROVE  k = m
    BY <1>5 DEF IsInjective
  <2> DEFINE up(x) == IF x < i THEN x ELSE x + 1
  <2>1. up(k) \in 1..n /\ up(m) \in 1..n
    BY <1>1
  <2>2. list[up(k)] = list[up(m)]
    BY <1>4
  <2>3. up(k) = up(m)
    BY <1>1, <2>1, <2>2 DEF IsInjective
  <2> QED
    BY <1>1, <2>3
<1>7. ToSet(e) \subseteq ToSet(list) \ {u}
  <2> SUFFICES ASSUME NEW k \in 1..(n - 1)
               PROVE  e[k] \in ToSet(list) \ {u}
    BY <1>5 DEF ToSet
  <2> DEFINE m == IF k < i THEN k ELSE k + 1
  <2>1. m \in 1..n /\ m # i /\ e[k] = list[m]
    BY <1>1, <1>4
  <2>2. list[m] # u
    BY <1>1, <2>1 DEF IsInjective
  <2> QED
    BY <1>1, <2>1, <2>2 DEF ToSet
<1>8. ToSet(list) \ {u} \subseteq ToSet(e)
  <2> SUFFICES ASSUME NEW k \in 1..n, list[k] # u
               PROVE  list[k] \in ToSet(e)
    BY <1>1 DEF ToSet
  <2> DEFINE m == IF k < i THEN k ELSE k - 1
  <2>1. m \in 1..(n - 1) /\ k # i /\ e[m] = list[k]
    BY <1>1, <1>4
  <2> QED
    BY <1>5, <2>1 DEF ToSet
<1> QED
  BY <1>4, <1>6, <1>7, <1>8 DEF e, n

(* Registering a user adds it, and only it, at the end. *)
LEMMA AppendToList ==
    ASSUME NEW list \in Seq(Users), IsInjective(list),
           NEW u \in Users, u \notin ToSet(list)
    PROVE  /\ Append(list, u) \in Seq(Users)
           /\ IsInjective(Append(list, u))
           /\ Len(Append(list, u)) = Len(list) + 1
           /\ ToSet(Append(list, u)) = ToSet(list) \union {u}
<1> DEFINE n == Len(list)
           a == Append(list, u)
<1>1. /\ n \in Nat /\ DOMAIN list = 1..n
      /\ a \in Seq(Users) /\ Len(a) = n + 1 /\ DOMAIN a = 1..(n + 1)
      /\ \A i \in 1..n : a[i] = list[i]
      /\ a[n + 1] = u
  BY LenProperties, AppendProperties
<1>2. \A i \in 1..(n + 1) : i \in 1..n \/ i = n + 1
  BY <1>1
<1>3. \A i \in 1..n : a[i] # u
  BY <1>1 DEF ToSet
<1>4. IsInjective(a)
  BY <1>1, <1>2, <1>3 DEF IsInjective
<1>5. ToSet(a) = ToSet(list) \union {u}
  <2>1. ToSet(a) \subseteq ToSet(list) \union {u}
    BY <1>1, <1>2 DEF ToSet
  <2>2. ToSet(list) \union {u} \subseteq ToSet(a)
    <3>1. 1..n \subseteq 1..(n + 1) /\ n + 1 \in 1..(n + 1)
      BY <1>1
    <3> QED
      BY <1>1, <3>1 DEF ToSet
  <2> QED
    BY <2>1, <2>2
<1> QED
  BY <1>1, <1>4, <1>5

-----------------------------------------------------------------------------
(* The invariant is inductive: one lemma per action *)

(* Consequences of the type invariant *)
LEMMA ListFacts ==
    ASSUME TypeOK
    PROVE  /\ Registered \subseteq Users
           /\ Len(userList) \in Nat
           /\ Len(userList) = 0 \/ Len(userList) = 1 \/ Len(userList) > 1
           /\ Len(userList) = 0 <=> Registered = {}
           /\ Len(userList) = 1 => Registered = {userList[1]}
<1>1. userList \in Seq(Users) /\ Len(userList) \in Nat /\ DOMAIN userList = 1..Len(userList)
  BY LenProperties DEF TypeOK
<1>3. Registered = {userList[i] : i \in 1..Len(userList)}
  BY <1>1 DEF Registered, ToSet
<1>4. Registered \subseteq Users
  BY <1>1, <1>3, ElementOfSeq
<1>5. Registered = {} <=> Len(userList) = 0
  BY <1>1, <1>3
<1>6. Len(userList) = 1 => Registered = {userList[1]}
  BY <1>1, <1>3
<1>7. Len(userList) = 0 \/ Len(userList) = 1 \/ Len(userList) > 1
  <2> DEFINE n == Len(userList)
  <2>1. n \in Nat
    BY <1>1
  <2> HIDE DEF n
  <2>2. n = 0 \/ n = 1 \/ n > 1
    BY <2>1
  <2> QED
    BY <2>2 DEF n
<1> QED
  BY <1>1, <1>4, <1>5, <1>6, <1>7

(* Nobody is registered and nobody holds a mutex at first. *)
LEMMA InitEstablishes == Init => IInv
<1> SUFFICES ASSUME Init PROVE IInv
  OBVIOUS
<1>1. TypeOK
  <2>1. <<>> \in Seq(Users) /\ IsInjective(<<>>)
    BY EmptySeq, LenProperties DEF IsInjective
  <2>2. Worker \in Threads /\ NoThread \notin Threads
    BY NamesAssumption DEF Threads
  <2> QED
    BY <2>1, <2>2 DEF Init, TypeOK, Labels
<1>2. Registered = {}
  BY EmptySeq, LenProperties DEF Init, Registered, ToSet
<1> QED
  BY <1>1, <1>2, NamesAssumption
     DEF Init, IInv, Roles, Locks, AddsAreNew, QueuesFiled, IteratorValid,
         WaitingUsersHaveWork, PoppedQueueHasWork, WorkerKnows, EmptyKnows,
         AdvanceKnows, HoldsMutex, Pushing, Adding, HasWork, WorkLeft, Threads

(* The hand over from m_mutex to the mutex of the user *)
LEMMA AddLockUserKeeps ==
    ASSUME IInv, NEW t \in Submitters, AddLockUser(t)
    PROVE  IInv'
<1> USE NamesAssumption, UserOfAssumption
<1> DEFINE v == UserOf[arg[t]]
<1>1. /\ t \in Threads /\ Worker \in Threads /\ Submitters \subseteq Threads
      /\ t # Worker /\ v \in Users
      /\ pc[t] = "add_lock_user" /\ mutex = t
  BY DEF AddLockUser, IInv, AddsAreNew, Locks, HoldsMutex, Threads
<1>2. TypeOK'
  BY <1>1 DEF IInv, TypeOK, AddLockUser, Goto, queueVars, workerVars, Labels
<1>3. Roles'
  BY <1>1 DEF IInv, TypeOK, Roles, AddLockUser, Goto
<1>4. Locks'
  BY <1>1 DEF IInv, TypeOK, Roles, Locks, AddLockUser, Goto, HoldsMutex, Pushing,
     queueVars
<1>5. AddsAreNew' /\ QueuesFiled'
  BY <1>1 DEF IInv, TypeOK, AddsAreNew, QueuesFiled, AddLockUser, Goto, queueVars,
     Registered
<1>6. IteratorValid' /\ WaitingUsersHaveWork'
  BY <1>1 DEF IInv, TypeOK, IteratorValid, WaitingUsersHaveWork, Adding, AddLockUser,
     Goto, queueVars, workerVars, Registered
<1>7. PoppedQueueHasWork'
  BY <1>1 DEF IInv, TypeOK, PoppedQueueHasWork, AddLockUser, Goto, queueVars, workerVars
<1>8. WorkerKnows' /\ AdvanceKnows'
  BY <1>1 DEF IInv, TypeOK, WorkerKnows, AdvanceKnows, HasWork, WorkLeft, Adding,
     Pushing, AddLockUser, Goto, queueVars, workerVars, Registered
<1>9. EmptyKnows'
  BY <1>1 DEF IInv, TypeOK, EmptyKnows, AddLockUser, Goto, queueVars
<1> QED
  BY <1>2, <1>3, <1>4, <1>5, <1>6, <1>7, <1>8, <1>9 DEF IInv

(* A push only adds work, to a user that is registered. *)
LEMMA AddPushKeeps ==
    ASSUME IInv, NEW t \in Submitters, AddPush(t)
    PROVE  IInv'
<1> USE NamesAssumption, UserOfAssumption
<1> DEFINE u == UserOf[arg[t]]
<1>1. /\ t \in Threads /\ Worker \in Threads /\ Submitters \subseteq Threads
      /\ t # Worker /\ u \in Registered /\ u \in Users /\ arg[t] \in Packages
      /\ pc[t] = "add_push" /\ userMutex[u] = t
  BY DEF AddPush, IInv, TypeOK, AddsAreNew, Locks, Pushing, Threads
<1>h. \A v \in Users :
          /\ HasWork(v) => HasWork(v)'
          /\ queue[v] # {} \/ (\E s \in Submitters : Adding(s, v))
                => queue'[v] # {} \/ (\E s \in Submitters : Adding(s, v)')
  BY <1>1 DEF IInv, TypeOK, HasWork, Adding, Pushing, AddPush, Goto
<1>r. Registered \subseteq Users /\ (Len(userList) > 0 => current \in Users)
  BY ListFacts DEF IInv, IteratorValid
<1>2. TypeOK'
  BY <1>1 DEF IInv, TypeOK, Labels, AddPush, Goto, queueVars, workerVars
<1>3. Roles'
  BY <1>1 DEF IInv, TypeOK, Roles, AddPush, Goto, queueVars, workerVars
<1>4. Locks'
  <2>1. /\ pc' = [pc EXCEPT ![t] = pc'[t]] /\ pc'[t] \notin {"add_push", "retrieve_pop"}
        /\ HoldsMutex(t)' = HoldsMutex(t)
        /\ UNCHANGED <<mutex, current>> /\ arg' = [arg EXCEPT ![t] = NoPackage]
        /\ userMutex' = [userMutex EXCEPT ![u] = NoThread]
    BY <1>1 DEF IInv, TypeOK, HoldsMutex, AddPush, Goto, queueVars, workerVars
  <2>2. \A s \in Threads : HoldsMutex(s)' <=> mutex' = s
    BY <1>1, <2>1 DEF IInv, TypeOK, Locks, HoldsMutex
  <2>3. \A s \in Submitters, v \in Users : Pushing(s, v)' <=> s # t /\ Pushing(s, v)
    BY <1>1, <2>1 DEF IInv, TypeOK, Pushing
  <2>4. \A s \in Submitters, v \in Users : Pushing(s, v)' => userMutex'[v] = s
    BY <1>1, <2>1, <2>3 DEF IInv, TypeOK, Locks, Pushing
  <2>5. \A s \in Threads, v \in Users :
            userMutex'[v] = s =>
                \/ s \in Submitters /\ Pushing(s, v)'
                \/ s = Worker /\ pc'[Worker] = "retrieve_pop" /\ v = current'
    BY <1>1, <2>1, <2>3 DEF IInv, TypeOK, Locks, Pushing
  <2> QED
    BY <2>2, <2>4, <2>5 DEF Locks
<1>5. AddsAreNew' /\ QueuesFiled'
  BY <1>1 DEF IInv, TypeOK, AddsAreNew, QueuesFiled, Registered, AddPush, Goto,
     queueVars, workerVars
<1>6. IteratorValid' /\ WaitingUsersHaveWork'
  BY <1>1, <1>h, <1>r DEF IInv, IteratorValid, WaitingUsersHaveWork, Registered,
     AddPush, Goto, queueVars, workerVars
<1>7. PoppedQueueHasWork'
  BY <1>1 DEF IInv, TypeOK, PoppedQueueHasWork, AddPush, Goto, queueVars, workerVars
<1>l. Len(userList) \in Nat
  BY ListFacts DEF IInv
<1>w. WorkLeft => WorkLeft'
  <2> SUFFICES ASSUME WorkLeft, Len(userList) = 1 PROVE WorkLeft'
    BY DEF WorkLeft, AddPush
  <2> QED
    BY <1>h, <1>r, <1>l DEF WorkLeft, AddPush
<1>8. WorkerKnows' /\ AdvanceKnows'
  <2>1. HasWork(current) => HasWork(current)' \/ Len(userList) = 0
    BY <1>h, <1>r DEF AddPush
  <2>2. pc'[Worker] = pc[Worker]
    BY <1>1 DEF IInv, TypeOK, AddPush, Goto
  <2>3. WorkerKnows'
    <3>1. /\ sawWork' = sawWork /\ held' = held
          /\ userList' = userList /\ current' = current
      BY DEF AddPush, workerVars
    <3> QED
      BY <2>1, <2>2, <3>1, <1>w, <1>l DEF IInv, WorkerKnows
  <2>4. AdvanceKnows'
    BY <2>1, <2>2, <1>l DEF IInv, AdvanceKnows, AddPush, workerVars, Registered, ToSet
  <2> QED
    BY <2>3, <2>4
<1>9. EmptyKnows'
  BY <1>1 DEF IInv, TypeOK, EmptyKnows, AddPush, Goto, queueVars, workerVars
<1> QED
  BY <1>2, <1>3, <1>4, <1>5, <1>6, <1>7, <1>8, <1>9 DEF IInv

(* The answer for none or several users *)
LEMMA IsEmptyKeeps ==
    ASSUME IInv, NEW t \in Observers \union {Worker}, IsEmpty(t)
    PROVE  IInv'
<1> USE NamesAssumption, UserOfAssumption
<1>1. t \in Threads /\ t \notin Submitters /\ Observers \union {Worker} \subseteq Threads /\ Submitters \subseteq Threads
  BY DEF Threads
<1>2. TypeOK'
  BY <1>1 DEF IInv, TypeOK, Labels, IsEmpty, Goto, queueVars, workerVars, Answer
<1>3. Roles'
  BY <1>1 DEF IInv, TypeOK, Roles, Threads, IsEmpty, Goto, queueVars, workerVars, Answer
<1>4. Locks'
  BY <1>1 DEF IInv, TypeOK, Roles, Threads, Locks, HoldsMutex, Pushing, IsEmpty, Goto,
     queueVars, workerVars, Answer
<1>5. AddsAreNew' /\ QueuesFiled'
  BY <1>1 DEF IInv, TypeOK, AddsAreNew, QueuesFiled, Registered, IsEmpty, Goto,
     queueVars, workerVars, Answer
<1>6. IteratorValid' /\ WaitingUsersHaveWork'
  BY <1>1 DEF IInv, TypeOK, IteratorValid, WaitingUsersHaveWork, Adding, Registered,
     IsEmpty, Goto, queueVars, workerVars, Answer
<1>7. PoppedQueueHasWork'
  BY <1>1 DEF IInv, TypeOK, PoppedQueueHasWork, IsEmpty, Goto, queueVars, workerVars,
     Answer
<1>l. Len(userList) \in Nat
  BY ListFacts DEF IInv
<1>8. WorkerKnows' /\ AdvanceKnows'
  <2>1. /\ UNCHANGED <<userList, current, queue, held, previous, caller, arg>>
        /\ HasWork(current) => HasWork(current)'
        /\ \A s \in Submitters : pc'[s] = pc[s]
    BY <1>1 DEF IInv, TypeOK, HasWork, Pushing, IsEmpty, Goto, queueVars
  <2>2. WorkLeft => WorkLeft'
    BY <2>1 DEF WorkLeft, Adding
  <2>3. CASE t = Worker /\ Len(userList) = 1
    BY <1>1, <2>1, <2>3 DEF IInv, TypeOK, WorkerKnows, AdvanceKnows, IsEmpty, Goto
  <2>4. CASE t = Worker /\ Len(userList) # 1
    <3>1. sawWork' => WorkLeft'
      <4>1. sawWork' = ~(Len(userList) = 0)
        BY <2>4 DEF IsEmpty, Answer
      <4> QED
        <5>1. Len(userList) = 0 \/ Len(userList) > 1
          BY <2>4, ListFacts DEF IInv
        <5>2. Len(userList) > 1 => WorkLeft'
          BY <2>1 DEF WorkLeft
        <5> QED
          BY <4>1, <5>1, <5>2
    <3> QED
      BY <2>1, <2>4, <3>1 DEF IInv, WorkerKnows, AdvanceKnows, IsEmpty
  <2>5. CASE t # Worker
    <3>1. pc'[Worker] = pc[Worker] /\ sawWork' = sawWork
      BY <1>1, <2>5 DEF IInv, TypeOK, IsEmpty, Goto, Answer
    <3> QED
      BY <2>1, <2>2, <3>1 DEF IInv, WorkerKnows, AdvanceKnows, Registered
  <2> QED
    BY <2>3, <2>4, <2>5
<1>9. EmptyKnows'
  BY <1>1 DEF IInv, TypeOK, EmptyKnows, IsEmpty, Goto, queueVars, workerVars, Answer
<1> QED
  BY <1>2, <1>3, <1>4, <1>5, <1>6, <1>7, <1>8, <1>9 DEF IInv

(* The answer for one user, under the mutex of its queue *)
LEMMA IsEmptyOneKeeps ==
    ASSUME IInv, NEW t \in Observers \union {Worker}, IsEmptyOne(t)
    PROVE  IInv'
<1> USE NamesAssumption, UserOfAssumption
<1>1. t \in Threads /\ t \notin Submitters /\ Worker \in Threads /\ Submitters \subseteq Threads
  BY DEF Threads
<1>2. TypeOK'
  BY <1>1 DEF IInv, TypeOK, Labels, IsEmptyOne, Goto, queueVars, workerVars, Answer
<1>3. Roles'
  BY <1>1 DEF IInv, TypeOK, Roles, IsEmptyOne, Goto, queueVars, workerVars, Answer
<1>4. Locks'
  BY <1>1 DEF IInv, TypeOK, Roles, Locks, HoldsMutex, Pushing, IsEmptyOne, Goto,
     queueVars, workerVars, Answer
<1>5. AddsAreNew' /\ QueuesFiled'
  BY <1>1 DEF IInv, TypeOK, AddsAreNew, QueuesFiled, Registered, IsEmptyOne, Goto,
     queueVars, workerVars, Answer
<1>6. IteratorValid' /\ WaitingUsersHaveWork'
  BY <1>1 DEF IInv, TypeOK, IteratorValid, WaitingUsersHaveWork, Adding, Registered,
     IsEmptyOne, Goto, queueVars, workerVars, Answer
<1>7. PoppedQueueHasWork'
  BY <1>1 DEF IInv, TypeOK, PoppedQueueHasWork, IsEmptyOne, Goto, queueVars, workerVars,
     Answer
<1>l. Len(userList) = 1
  BY <1>1 DEF IInv, EmptyKnows, IsEmptyOne
<1>8. WorkerKnows' /\ AdvanceKnows'
  BY <1>1, <1>l DEF IInv, TypeOK, WorkerKnows, AdvanceKnows, HasWork, WorkLeft, Adding,
              Pushing, Registered, IsEmptyOne, Goto, queueVars, workerVars, Answer
<1>9. EmptyKnows'
  BY <1>1 DEF IInv, TypeOK, EmptyKnows, IsEmptyOne, Goto, queueVars, workerVars, Answer
<1> QED
  BY <1>2, <1>3, <1>4, <1>5, <1>6, <1>7, <1>8, <1>9 DEF IInv

(* The worker saw work, so there is a user: retrieve_work does not throw. *)
LEMMA RetrieveWorkKeeps ==
    ASSUME IInv, RetrieveWork
    PROVE  IInv'
<1> USE NamesAssumption, UserOfAssumption
<1>1. Worker \in Threads /\ Worker \notin Submitters /\ Submitters \subseteq Threads
  BY DEF Threads
<1>2. TypeOK'
  BY <1>1 DEF IInv, TypeOK, Labels, RetrieveWork, Goto, queueVars, workerVars
<1>3. Roles'
  BY <1>1 DEF IInv, TypeOK, Roles, RetrieveWork, Goto, queueVars, workerVars
<1>4. Locks'
  BY <1>1 DEF IInv, TypeOK, Roles, Locks, HoldsMutex, Pushing, RetrieveWork, Goto,
     queueVars, workerVars
<1>5. AddsAreNew' /\ QueuesFiled'
  BY <1>1 DEF IInv, TypeOK, AddsAreNew, QueuesFiled, Registered, RetrieveWork, Goto,
     queueVars, workerVars
<1>6. IteratorValid' /\ WaitingUsersHaveWork'
  BY <1>1 DEF IInv, TypeOK, IteratorValid, WaitingUsersHaveWork, Adding, Registered,
     RetrieveWork, Goto, queueVars, workerVars
<1>7. PoppedQueueHasWork'
  BY <1>1 DEF IInv, TypeOK, PoppedQueueHasWork, RetrieveWork, Goto, queueVars, workerVars
<1>8. WorkerKnows' /\ AdvanceKnows'
  <2>1. Len(userList) \in Nat
    BY ListFacts DEF IInv
  <2>2. WorkLeft
    BY DEF IInv, WorkerKnows, RetrieveWork
  <2>3. \A t \in Submitters : pc[t] # "add_lock_user"
    BY <1>1 DEF IInv, Locks, HoldsMutex, RetrieveWork
  <2>4. Len(userList) = 1 => HasWork(current)
    BY <2>2, <2>3 DEF WorkLeft, HasWork, Adding, Pushing
  <2>5. \/ Len(userList) = 1 /\ pc'[Worker] = "retrieve_check_one"
        \/ Len(userList) > 1 /\ pc'[Worker] = "retrieve_select"
    BY <1>1, <2>1, <2>2 DEF IInv, TypeOK, WorkLeft, RetrieveWork, Goto
  <2>6. HasWork(current) => HasWork(current)'
    BY <1>1 DEF IInv, TypeOK, HasWork, Pushing, RetrieveWork, Goto, queueVars
  <2>7. WorkerKnows'
    BY <2>4, <2>5, <2>6 DEF IInv, WorkerKnows, RetrieveWork, queueVars
  <2>8. AdvanceKnows'
    BY <2>5 DEF IInv, AdvanceKnows, RetrieveWork
  <2> QED
    BY <2>7, <2>8
<1>9. EmptyKnows'
  BY <1>1 DEF IInv, TypeOK, EmptyKnows, RetrieveWork, Goto, queueVars, workerVars
<1> QED
  BY <1>2, <1>3, <1>4, <1>5, <1>6, <1>7, <1>8, <1>9 DEF IInv

(* The only user has work once its mutex is free. *)
LEMMA RetrieveCheckOneKeeps ==
    ASSUME IInv, RetrieveCheckOne
    PROVE  IInv'
<1> USE NamesAssumption, UserOfAssumption
<1>1. Worker \in Threads /\ Worker \notin Submitters /\ Submitters \subseteq Threads
  BY DEF Threads
<1>u. queue[current] # {} /\ Len(userList) = 1
  <2>1. HasWork(current) /\ Len(userList) = 1
    BY DEF IInv, WorkerKnows, RetrieveCheckOne
  <2>2. current \in Users
    BY <2>1, ListFacts DEF IInv, IteratorValid
  <2> QED
    BY <1>1, <2>1, <2>2 DEF IInv, Locks, HasWork, RetrieveCheckOne
<1>2. TypeOK'
  BY <1>1 DEF IInv, TypeOK, Labels, RetrieveCheckOne, Goto, queueVars, workerVars
<1>3. Roles'
  BY <1>1 DEF IInv, TypeOK, Roles, RetrieveCheckOne, Goto, queueVars, workerVars
<1>4. Locks'
  BY <1>1 DEF IInv, TypeOK, Roles, Locks, HoldsMutex, Pushing, RetrieveCheckOne, Goto,
     queueVars, workerVars
<1>5. AddsAreNew' /\ QueuesFiled'
  BY <1>1 DEF IInv, TypeOK, AddsAreNew, QueuesFiled, Registered, RetrieveCheckOne, Goto,
     queueVars, workerVars
<1>6. IteratorValid' /\ WaitingUsersHaveWork'
  BY <1>1 DEF IInv, TypeOK, IteratorValid, WaitingUsersHaveWork, Adding, Registered,
     RetrieveCheckOne, Goto, queueVars, workerVars
<1>7. PoppedQueueHasWork'
  BY <1>1 DEF IInv, TypeOK, PoppedQueueHasWork, RetrieveCheckOne, Goto, queueVars,
     workerVars
<1>8. WorkerKnows' /\ AdvanceKnows'
  BY <1>1, <1>u DEF IInv, TypeOK, WorkerKnows, AdvanceKnows, HasWork, WorkLeft, Adding,
              Pushing, Registered, RetrieveCheckOne, Goto, queueVars, workerVars
<1>9. EmptyKnows'
  BY <1>1 DEF IInv, TypeOK, EmptyKnows, RetrieveCheckOne, Goto, queueVars, workerVars
<1> QED
  BY <1>2, <1>3, <1>4, <1>5, <1>6, <1>7, <1>8, <1>9 DEF IInv

(* The user selected has work once its mutex is free. *)
LEMMA RetrieveLockUserKeeps ==
    ASSUME IInv, RetrieveLockUser
    PROVE  IInv'
<1> USE NamesAssumption, UserOfAssumption
<1>1. Worker \in Threads /\ Worker \notin Submitters /\ Submitters \subseteq Threads
  BY DEF Threads
<1>2. TypeOK'
  BY <1>1 DEF IInv, TypeOK, Labels, RetrieveLockUser, Goto, queueVars, workerVars
<1>3. Roles'
  BY <1>1 DEF IInv, TypeOK, Roles, RetrieveLockUser, Goto, queueVars, workerVars
<1>4. Locks'
  BY <1>1 DEF IInv, TypeOK, Roles, Locks, HoldsMutex, Pushing, RetrieveLockUser, Goto,
     queueVars, workerVars
<1>5. AddsAreNew' /\ QueuesFiled'
  BY <1>1 DEF IInv, TypeOK, AddsAreNew, QueuesFiled, Registered, RetrieveLockUser, Goto,
     queueVars, workerVars
<1>6. IteratorValid' /\ WaitingUsersHaveWork'
  BY <1>1 DEF IInv, TypeOK, IteratorValid, WaitingUsersHaveWork, Adding, Registered,
     RetrieveLockUser, Goto, queueVars, workerVars
<1>7. PoppedQueueHasWork'
  <2>1. Len(userList) > 0 /\ HasWork(current)
    BY DEF IInv, WorkerKnows, RetrieveLockUser
  <2>2. current \in Users
    BY <2>1, ListFacts DEF IInv, IteratorValid
  <2>3. queue[current] # {}
    BY <1>1, <2>1, <2>2 DEF IInv, Locks, HasWork, RetrieveLockUser
  <2>4. \A u \in Users : userMutex[u] # Worker
    BY <1>1 DEF IInv, Locks, RetrieveLockUser
  <2> QED
    BY <1>1, <2>2, <2>3, <2>4 DEF IInv, TypeOK, PoppedQueueHasWork, RetrieveLockUser,
       Goto, queueVars, workerVars
<1>8. WorkerKnows' /\ AdvanceKnows'
  BY <1>1 DEF IInv, TypeOK, WorkerKnows, AdvanceKnows, HasWork, WorkLeft, Adding,
              Pushing, Registered, RetrieveLockUser, Goto, queueVars, workerVars
<1>9. EmptyKnows'
  BY <1>1 DEF IInv, TypeOK, EmptyKnows, RetrieveLockUser, Goto, queueVars, workerVars
<1> QED
  BY <1>2, <1>3, <1>4, <1>5, <1>6, <1>7, <1>8, <1>9 DEF IInv

(* The pop may drain the current user, which may be without work. *)
LEMMA RetrievePopKeeps ==
    ASSUME IInv, NEW u \in Users, RetrievePop(u)
    PROVE  IInv'
<1> USE NamesAssumption, UserOfAssumption
<1>1. Worker \in Threads /\ Worker \notin Submitters /\ Submitters \subseteq Threads
  BY DEF Threads
<1>u. u = current /\ u \in Registered /\ Len(userList) > 0 /\ queue[u] # {}
  <2>1. u = current
    BY <1>1 DEF IInv, Locks, RetrievePop
  <2>2. queue[u] # {}
    BY DEF IInv, PoppedQueueHasWork, RetrievePop
  <2>3. u \in Registered
    BY <2>2 DEF IInv, QueuesFiled
  <2> QED
    BY <2>1, <2>2, <2>3, ListFacts DEF IInv
<1>2. TypeOK'
  BY <1>1 DEF IInv, TypeOK, Labels, RetrievePop, Goto, queueVars, workerVars, Tops
<1>3. Roles'
  BY <1>1 DEF IInv, TypeOK, Roles, RetrievePop, Goto, queueVars, workerVars, Tops
<1>4. Locks'
  BY <1>1 DEF IInv, TypeOK, Roles, Locks, HoldsMutex, Pushing, RetrievePop, Goto,
     queueVars, workerVars, Tops
<1>5. AddsAreNew' /\ QueuesFiled'
  BY <1>1 DEF IInv, TypeOK, AddsAreNew, QueuesFiled, Registered, RetrievePop, Goto,
     queueVars, workerVars, Tops
<1>6. IteratorValid' /\ WaitingUsersHaveWork'
  BY <1>1, <1>u, ListFacts DEF IInv, TypeOK, IteratorValid, WaitingUsersHaveWork,
     Adding, Registered, RetrievePop, Goto, queueVars, workerVars, Tops
<1>7. PoppedQueueHasWork'
  BY <1>1 DEF IInv, TypeOK, PoppedQueueHasWork, RetrievePop, Goto, queueVars,
     workerVars, Tops
<1>8. WorkerKnows' /\ AdvanceKnows'
  BY <1>1, <1>u DEF IInv, TypeOK, WorkerKnows, AdvanceKnows, HasWork, WorkLeft, Adding,
              Pushing, Registered, RetrievePop, Goto, queueVars, workerVars, Tops
<1>9. EmptyKnows'
  BY <1>1 DEF IInv, TypeOK, EmptyKnows, RetrievePop, Goto, queueVars, workerVars, Tops
<1> QED
  BY <1>2, <1>3, <1>4, <1>5, <1>6, <1>7, <1>8, <1>9 DEF IInv

(* Time alone does not disturb the invariant, nor do ... *)
LEMMA ResetTimeoutUserSwitchKeeps ==
    ASSUME IInv, ResetTimeoutUserSwitch
    PROVE  IInv'
<1> USE NamesAssumption, UserOfAssumption
<1>1. Worker \in Threads /\ Worker \notin Submitters /\ Submitters \subseteq Threads
  BY DEF Threads
<1>2. TypeOK'
  BY <1>1 DEF IInv, TypeOK, Labels, ResetTimeoutUserSwitch, Goto, queueVars, workerVars
<1>3. Roles'
  BY <1>1 DEF IInv, TypeOK, Roles, ResetTimeoutUserSwitch, Goto, queueVars, workerVars
<1>4. Locks'
  BY <1>1 DEF IInv, TypeOK, Roles, Locks, HoldsMutex, Pushing, ResetTimeoutUserSwitch,
     Goto, queueVars, workerVars
<1>5. AddsAreNew' /\ QueuesFiled'
  BY <1>1 DEF IInv, TypeOK, AddsAreNew, QueuesFiled, Registered, ResetTimeoutUserSwitch,
     Goto, queueVars, workerVars
<1>6. IteratorValid' /\ WaitingUsersHaveWork'
  BY <1>1 DEF IInv, TypeOK, IteratorValid, WaitingUsersHaveWork, Adding, Registered,
     ResetTimeoutUserSwitch, Goto, queueVars, workerVars
<1>7. PoppedQueueHasWork'
  BY <1>1 DEF IInv, TypeOK, PoppedQueueHasWork, ResetTimeoutUserSwitch, Goto, queueVars,
     workerVars
<1>8. WorkerKnows' /\ AdvanceKnows'
  BY <1>1 DEF IInv, TypeOK, WorkerKnows, AdvanceKnows, HasWork, WorkLeft, Adding,
              Pushing, Registered, ResetTimeoutUserSwitch, Goto, queueVars, workerVars
<1>9. EmptyKnows'
  BY <1>1 DEF IInv, TypeOK, EmptyKnows, ResetTimeoutUserSwitch, Goto, queueVars,
     workerVars
<1> QED
  BY <1>2, <1>3, <1>4, <1>5, <1>6, <1>7, <1>8, <1>9 DEF IInv

(* ... the end of the work on a package ... *)
LEMMA FinishWorkKeeps ==
    ASSUME IInv, FinishWork
    PROVE  IInv'
<1> USE NamesAssumption, UserOfAssumption
<1>1. Worker \in Threads /\ Worker \notin Submitters /\ Submitters \subseteq Threads
  BY DEF Threads
<1>2. TypeOK'
  BY <1>1 DEF IInv, TypeOK, Labels, FinishWork, Goto, queueVars, workerVars
<1>3. Roles'
  BY <1>1 DEF IInv, TypeOK, Roles, FinishWork, Goto, queueVars, workerVars
<1>4. Locks'
  BY <1>1 DEF IInv, TypeOK, Roles, Locks, HoldsMutex, Pushing, FinishWork, Goto,
     queueVars, workerVars
<1>5. AddsAreNew' /\ QueuesFiled'
  BY <1>1 DEF IInv, TypeOK, AddsAreNew, QueuesFiled, Registered, FinishWork, Goto,
     queueVars, workerVars
<1>6. IteratorValid' /\ WaitingUsersHaveWork'
  BY <1>1 DEF IInv, TypeOK, IteratorValid, WaitingUsersHaveWork, Adding, Registered,
     FinishWork, Goto, queueVars, workerVars
<1>7. PoppedQueueHasWork'
  BY <1>1 DEF IInv, TypeOK, PoppedQueueHasWork, FinishWork, Goto, queueVars, workerVars
<1>8. WorkerKnows' /\ AdvanceKnows'
  BY <1>1 DEF IInv, TypeOK, WorkerKnows, AdvanceKnows, HasWork, WorkLeft, Adding,
              Pushing, Registered, FinishWork, Goto, queueVars, workerVars
<1>9. EmptyKnows'
  BY <1>1 DEF IInv, TypeOK, EmptyKnows, FinishWork, Goto, queueVars, workerVars
<1> QED
  BY <1>2, <1>3, <1>4, <1>5, <1>6, <1>7, <1>8, <1>9 DEF IInv

(* ... and the end of a period. *)
LEMMA PeriodElapsesKeeps ==
    ASSUME IInv, PeriodElapses
    PROVE  IInv'
<1> USE NamesAssumption, UserOfAssumption
<1>1. Worker \in Threads /\ Worker \notin Submitters /\ Submitters \subseteq Threads
  BY DEF Threads
<1>2. TypeOK'
  BY <1>1 DEF IInv, TypeOK, Labels, PeriodElapses, Goto, queueVars, workerVars
<1>3. Roles'
  BY <1>1 DEF IInv, TypeOK, Roles, PeriodElapses, Goto, queueVars, workerVars
<1>4. Locks'
  BY <1>1 DEF IInv, TypeOK, Roles, Locks, HoldsMutex, Pushing, PeriodElapses, Goto,
     queueVars, workerVars
<1>5. AddsAreNew' /\ QueuesFiled'
  BY <1>1 DEF IInv, TypeOK, AddsAreNew, QueuesFiled, Registered, PeriodElapses, Goto,
     queueVars, workerVars
<1>6. IteratorValid' /\ WaitingUsersHaveWork'
  BY <1>1 DEF IInv, TypeOK, IteratorValid, WaitingUsersHaveWork, Adding, Registered,
     PeriodElapses, Goto, queueVars, workerVars
<1>7. PoppedQueueHasWork'
  BY <1>1 DEF IInv, TypeOK, PoppedQueueHasWork, PeriodElapses, Goto, queueVars, workerVars
<1>8. WorkerKnows' /\ AdvanceKnows'
  BY <1>1 DEF IInv, TypeOK, WorkerKnows, AdvanceKnows, HasWork, WorkLeft, Adding,
              Pushing, Registered, PeriodElapses, Goto, queueVars, workerVars
<1>9. EmptyKnows'
  BY <1>1 DEF IInv, TypeOK, EmptyKnows, PeriodElapses, Goto, queueVars, workerVars
<1> QED
  BY <1>2, <1>3, <1>4, <1>5, <1>6, <1>7, <1>8, <1>9 DEF IInv

(* What add_work's registration does to the list and to the iterator *)
LEMMA RegisterFacts ==
    ASSUME TypeOK, NEW u \in Users, Register(u)
    PROVE  /\ userList' \in Seq(Users) /\ IsInjective(userList')
           /\ Registered' = Registered \union {u}
           /\ Len(userList') = 1 \/ Len(userList') > 1
           /\ Len(userList) > 1 => Len(userList') > 1
           /\ Len(userList') = 1 => Registered' = {u} /\ current' = u
           /\ Len(userList') > 1 => current' = current /\ Len(userList) > 0
           /\ elapsed' \in BOOLEAN
<1>1. userList \in Seq(Users) /\ IsInjective(userList) /\ Len(userList) \in Nat
  BY LenProperties DEF TypeOK
<1>2. CASE u \in Registered
  <2>1. userList' = userList
    BY <1>2 DEF Register
  <2>2. Len(userList) = 1 \/ Len(userList) > 1
    BY <1>2, ListFacts
  <2>3. Len(userList) = 1 => userList[1] = u /\ Registered = {u}
    BY <1>2, ListFacts
  <2>4. Len(userList) = 1 => current' = userList[1] /\ elapsed' = FALSE
    BY <2>1 DEF Register
  <2>5. Len(userList) > 1 => current' = current /\ elapsed' = elapsed /\ Len(userList) > 0
    <3> DEFINE n == Len(userList)
    <3>1. n # 1 => current' = current /\ elapsed' = elapsed
      BY <2>1 DEF Register
    <3>2. n \in Nat
      BY <1>1
    <3> HIDE DEF n
    <3>3. n > 1 => n # 1 /\ n > 0
      BY <3>2
    <3> QED
      BY <3>1, <3>3 DEF n
  <2> QED
    BY <1>1, <1>2, <2>1, <2>2, <2>3, <2>4, <2>5 DEF Registered, TypeOK
<1>3. CASE u \notin Registered
  <2> DEFINE n == Len(userList)
             list == Append(userList, u)
  <2>1. userList' = list
    BY <1>3 DEF Register
  <2>2. /\ list \in Seq(Users) /\ IsInjective(list) /\ Len(list) = n + 1
        /\ ToSet(list) = Registered \union {u}
    BY <1>1, <1>3, AppendToList DEF Registered
  <2>3. IF Len(list) = 1 THEN current' = list[1] /\ elapsed' = FALSE
                         ELSE UNCHANGED <<current, elapsed>>
    BY <1>3 DEF Register
  <2>4. n \in Nat /\ (n = 0 <=> Registered = {})
    BY ListFacts
  <2>5. n = 0 => list[1] = u
    BY <1>1, AppendProperties
  <2> HIDE DEF n, list
  <2>6. /\ Len(list) = 1 \/ Len(list) > 1
        /\ n > 1 => Len(list) > 1
        /\ Len(list) = 1 => n = 0
        /\ Len(list) > 1 => n > 0 /\ Len(list) # 1
    <3> DEFINE m == Len(list)
    <3>1. m = n + 1
      BY <2>2
    <3> HIDE DEF m
    <3>2. (m = 1 \/ m > 1) /\ (n > 1 => m > 1) /\ (m = 1 => n = 0) /\ (m > 1 => n > 0 /\ m # 1)
      BY <2>4, <3>1
    <3> QED
      BY <3>2 DEF m
  <2>7. Len(list) = 1 => Registered \union {u} = {u} /\ current' = u
    BY <2>3, <2>4, <2>5, <2>6
  <2>8. Len(list) > 1 => current' = current
    BY <2>3, <2>6
  <2>9. elapsed' \in BOOLEAN
    BY <2>3 DEF TypeOK
  <2> QED
    BY <2>1, <2>2, <2>6, <2>7, <2>8, <2>9 DEF Registered, n
<1> QED
  BY <1>2, <1>3

(* Registration: the user of the package becomes current if it is alone. *)
LEMMA AddWorkKeeps ==
    ASSUME IInv, NEW t \in Submitters, NEW p \in Packages, AddWork(t, p)
    PROVE  IInv'
<1> USE NamesAssumption, UserOfAssumption
<1> DEFINE u == UserOf[p]
<1>1. /\ t \in Threads /\ Worker \in Threads /\ Submitters \subseteq Threads
      /\ t # Worker /\ u \in Users /\ pc[t] = "idle"
      /\ mutex = NoThread /\ mutex' = t
      /\ p \notin Stored /\ p \notin InFlight
      /\ pc' = [pc EXCEPT ![t] = "add_lock_user"]
      /\ arg' = [arg EXCEPT ![t] = p]
      /\ UNCHANGED <<queue, userMutex, previous, caller, sawWork, held>>
  BY DEF AddWork, Threads, Goto, workerVars
<1>2. /\ userList' \in Seq(Users) /\ IsInjective(userList')
      /\ Registered' = Registered \union {u}
      /\ Len(userList') = 1 \/ Len(userList') > 1
      /\ Len(userList) > 1 => Len(userList') > 1
      /\ Len(userList') = 1 => Registered' = {u} /\ current' = u
      /\ Len(userList') > 1 => current' = current /\ Len(userList) > 0
      /\ elapsed' \in BOOLEAN
  BY <1>1, RegisterFacts DEF IInv, AddWork
<1>3. \A s \in Threads : ~HoldsMutex(s)
  BY <1>1 DEF IInv, Locks
<1>4. TypeOK'
  <2>1. current' \in Users \union {NoUser}
    BY <1>1, <1>2 DEF IInv, TypeOK
  <2> QED
    BY <1>1, <1>2, <2>1 DEF IInv, TypeOK, Labels
<1>5. Roles'
  BY <1>1 DEF IInv, TypeOK, Roles
<1>6. Locks'
  <2>1. \A s \in Threads : HoldsMutex(s)' <=> mutex' = s
    BY <1>1, <1>3 DEF IInv, TypeOK, HoldsMutex
  <2>2. \A s \in Submitters, v \in Users : Pushing(s, v)' <=> Pushing(s, v)
    BY <1>1 DEF IInv, TypeOK, Pushing
  <2>3. \A v \in Users : userMutex[v] = Worker => current' = current
    <3> SUFFICES ASSUME NEW v \in Users, userMutex[v] = Worker
                 PROVE  current' = current
      OBVIOUS
    <3>1. v = current /\ queue[v] # {}
      BY <1>1 DEF IInv, Locks, PoppedQueueHasWork
    <3>2. v \in Registered
      BY <3>1 DEF IInv, QueuesFiled
    <3> QED
      BY <1>2, <3>1, <3>2
  <2>4. pc'[Worker] = pc[Worker]
    BY <1>1 DEF IInv, TypeOK
  <2> QED
    BY <1>1, <2>1, <2>2, <2>3, <2>4 DEF IInv, Locks
<1>7. AddsAreNew' /\ QueuesFiled'
  <2>1. \A v \in Users : p \notin queue[v]
    BY <1>1 DEF Stored
  <2>2. \A s \in Submitters : pc[s] # "idle" => arg[s] # p
    BY <1>1 DEF IInv, Roles, InFlight
  <2> QED
    BY <1>1, <1>2, <2>1, <2>2 DEF IInv, TypeOK, AddsAreNew, QueuesFiled
<1>8. IteratorValid'
  BY <1>2 DEF IInv, IteratorValid
<1>9. WaitingUsersHaveWork'
  <2> SUFFICES ASSUME NEW v \in Registered', v # current', v # previous'
               PROVE  queue'[v] # {} \/ \E s \in Submitters : Adding(s, v)'
    BY DEF WaitingUsersHaveWork
  <2>1. CASE v = u
    <3>1. Adding(t, v)'
      BY <1>1, <2>1 DEF IInv, TypeOK, Adding
    <3> QED
      BY <3>1
  <2>2. CASE v # u
    <3>1. v \in Registered \ {current, previous}
      BY <1>1, <1>2, <2>2
    <3>2. queue[v] # {} \/ \E s \in Submitters : Adding(s, v)
      BY <3>1 DEF IInv, WaitingUsersHaveWork
    <3>3. \A s \in Submitters : Adding(s, v) => Adding(s, v)'
      BY <1>1 DEF IInv, TypeOK, Adding
    <3> QED
      BY <1>1, <3>2, <3>3
  <2> QED
    BY <2>1, <2>2
<1>10. PoppedQueueHasWork'
  BY <1>1 DEF IInv, TypeOK, PoppedQueueHasWork
<1>11. WorkerKnows' /\ AdvanceKnows' /\ EmptyKnows'
  <2>1. pc'[Worker] = pc[Worker] /\ ~HoldsMutex(Worker)
    BY <1>1, <1>3 DEF IInv, TypeOK
  <2>2. WorkLeft'
    <3>1. Adding(t, u)'
      BY <1>1 DEF IInv, TypeOK, Adding
    <3> QED
      BY <1>2, <3>1 DEF WorkLeft
  <2>3. held # NoPackage => Len(userList') > 0
    <3>1. held # NoPackage => Len(userList) > 0
      BY DEF IInv, WorkerKnows
    <3>2. Len(userList') \in Nat
      BY <1>2, LenProperties
    <3> DEFINE n == Len(userList')
    <3>3. n \in Nat /\ (n = 1 \/ n > 1)
      BY <1>2, <3>2
    <3> HIDE DEF n
    <3>4. n > 0
      BY <3>3
    <3> QED
      BY <3>4 DEF n
  <2>4. WorkerKnows' /\ AdvanceKnows'
    BY <1>1, <2>1, <2>2, <2>3 DEF IInv, WorkerKnows, AdvanceKnows, HoldsMutex
  <2>5. EmptyKnows'
    BY <1>1, <1>3 DEF IInv, TypeOK, EmptyKnows, HoldsMutex
  <2> QED
    BY <2>4, <2>5
<1> QED
  BY <1>4, <1>5, <1>6, <1>7, <1>8, <1>9, <1>10, <1>11 DEF IInv

(* advance_user_while_locked before the erase *)
LEMMA StepIteratorKeeps ==
    ASSUME IInv, NEW after \in {"retrieve", "advance"}, StepIterator(after),
           UNCHANGED <<userList, queue, userMutex, arg>>,
           Len(userList) > 0, pc[Worker] \in {"idle", "retrieve_select"},
           mutex' = Worker, sawWork' = FALSE, held' = NoPackage,
           mutex \in {NoThread, Worker},
           after = "retrieve" => HasWork(Successor(userList, current))
    PROVE  IInv'
<1> USE NamesAssumption, UserOfAssumption
<1>1. /\ Worker \in Threads /\ Worker \notin Submitters
      /\ Submitters \subseteq Threads /\ Observers \subseteq Threads
      /\ pc' = [pc EXCEPT ![Worker] = "advance_erase"]
      /\ pc'[Worker] = "advance_erase"
      /\ previous' = current /\ elapsed' = FALSE /\ caller' = after
      /\ current' = Successor(userList, current)
  BY DEF Threads, StepIterator, Goto, IInv, TypeOK
<1>2. current \in Registered /\ current \in Users
  BY ListFacts DEF IInv, IteratorValid
<1>3. /\ current' \in Registered /\ current' \in Users
      /\ current' = current => Len(userList) = 1
  BY <1>1, <1>2, SuccessorInList, ListFacts DEF IInv, TypeOK, Registered
<1>4. previous = NoUser
  BY DEF IInv, AdvanceKnows
<1>5. \A t \in Submitters : pc'[t] = pc[t]
  BY <1>1 DEF IInv, TypeOK
<1>6. TypeOK'
  BY <1>1, <1>2, <1>3 DEF IInv, TypeOK, Labels
<1>7. Roles'
  BY <1>1 DEF IInv, TypeOK, Roles
<1>8. Locks'
  <2>1. \A t \in Threads : t # Worker => ~HoldsMutex(t)
    BY <1>1 DEF IInv, Locks
  <2>2. \A t \in Threads : HoldsMutex(t)' <=> mutex' = t
    BY <1>1, <2>1 DEF IInv, TypeOK, HoldsMutex
  <2>3. \A u \in Users : userMutex[u] # Worker
    BY <1>1 DEF IInv, Locks
  <2>4. \A t \in Submitters, u \in Users : Pushing(t, u)' <=> Pushing(t, u)
    BY <1>5 DEF Pushing
  <2> QED
    BY <1>1, <2>2, <2>3, <2>4 DEF IInv, Locks
<1>9. AddsAreNew' /\ QueuesFiled'
  BY <1>5 DEF IInv, AddsAreNew, QueuesFiled, Registered
<1>10. IteratorValid'
  BY <1>3 DEF IteratorValid, Registered
<1>11. WaitingUsersHaveWork'
  <2>1. \A t \in Submitters, u \in Users : Adding(t, u)' <=> Adding(t, u)
    BY <1>5 DEF Adding
  <2>2. NoUser \notin Registered /\ Registered \subseteq Users
    BY ListFacts DEF IInv
  <2> QED
    BY <1>1, <1>4, <2>1, <2>2 DEF IInv, WaitingUsersHaveWork, Registered
<1>12. PoppedQueueHasWork' /\ WorkerKnows'
  BY <1>1 DEF PoppedQueueHasWork, WorkerKnows
<1>13. EmptyKnows'
  BY <1>1 DEF IInv, TypeOK, EmptyKnows
<1>14. AdvanceKnows'
  <2>1. HasWork(current') => HasWork(current)'
    BY <1>5 DEF HasWork, Pushing
  <2> QED
    BY <1>1, <1>2, <1>3, <2>1 DEF AdvanceKnows, Registered
<1> QED
  BY <1>6, <1>7, <1>8, <1>9, <1>10, <1>11, <1>12, <1>13, <1>14 DEF IInv

(* Whatever the size read without the user's mutex says, the user selected *)
(* has work.                                                               *)
LEMMA RetrieveSelectKeeps == ASSUME IInv, RetrieveSelect PROVE IInv'
<1> USE NamesAssumption, UserOfAssumption
<1>1. /\ Worker \in Threads /\ Worker \notin Submitters /\ Submitters \subseteq Threads
      /\ pc[Worker] = "retrieve_select" /\ mutex = Worker
      /\ sawWork = FALSE /\ held = NoPackage
      /\ UNCHANGED <<userList, queue, mutex, userMutex, arg, sawWork, held>>
  <2>1. sawWork \in BOOLEAN
    BY DEF IInv, TypeOK
  <2>2. Worker \in Threads /\ pc[Worker] = "retrieve_select"
    BY DEF Threads, RetrieveSelect
  <2> QED
    BY <2>1, <2>2 DEF Threads, IInv, Locks, HoldsMutex, WorkerKnows, RetrieveSelect
<1>2. Len(userList) > 0 /\ (Len(userList) = 1 => HasWork(current))
  <2>1. Len(userList) > 1 \/ (Len(userList) = 1 /\ HasWork(current))
    BY <1>1 DEF IInv, WorkerKnows
  <2>2. Len(userList) > 0
    <3> DEFINE n == Len(userList)
    <3>1. n \in Nat /\ (n > 1 \/ n = 1)
      BY <2>1, ListFacts DEF IInv
    <3> HIDE DEF n
    <3>2. n > 0
      BY <3>1
    <3> QED
      BY <3>2 DEF n
  <2>3. Len(userList) = 1 => ~(Len(userList) > 1)
    OBVIOUS
  <2> QED
    BY <2>1, <2>2, <2>3
<1>3. current \in Registered /\ Registered \subseteq Users
  BY <1>2, ListFacts DEF IInv, IteratorValid
<1>4. \A t \in Submitters : pc[t] # "add_lock_user"
  BY <1>1 DEF IInv, Locks, HoldsMutex
<1>5. PICK switch \in MustSwitch :
         IF switch
           THEN StepIterator("retrieve")
           ELSE /\ Goto(Worker, "retrieve_lock_user")
                /\ UNCHANGED <<current, elapsed, previous, caller>>
  BY DEF RetrieveSelect
<1>6. CASE switch
  <2>1. HasWork(Successor(userList, current))
    <3> DEFINE next == Successor(userList, current)
    <3>1. next \in Registered /\ (next = current => Len(userList) = 1)
      BY <1>3, SuccessorInList DEF IInv, TypeOK, Registered
    <3>2. CASE next = current
      BY <1>2, <3>1, <3>2
    <3>3. CASE next # current
      <4>1. previous = NoUser /\ NoUser \notin Registered
        BY <1>1, <1>3 DEF IInv, AdvanceKnows
      <4>2. queue[next] # {} \/ \E t \in Submitters : Adding(t, next)
        BY <3>1, <3>3, <4>1 DEF IInv, WaitingUsersHaveWork
      <4> QED
        BY <1>4, <4>2 DEF HasWork, Adding, Pushing
    <3> QED
      BY <3>2, <3>3
  <2>2. StepIterator("retrieve")
    BY <1>5, <1>6
  <2> QED
    BY <1>1, <1>2, <2>1, <2>2, StepIteratorKeeps
<1>7. CASE ~switch
  <2>1. HasWork(current)
    <3>1. PICK zero \in SizeReadsZero(current) : switch = (zero \/ IsTimeToSwitchUser)
      BY DEF MustSwitch
    <3>2. ~zero
      BY <1>7, <3>1
    <3>3. CASE \E t \in Submitters : Pushing(t, current)
      BY <3>3 DEF HasWork
    <3>4. CASE ~\E t \in Submitters : Pushing(t, current)
      <4>1. zero = (queue[current] = {})
        BY <3>1, <3>4 DEF SizeReadsZero
      <4> QED
        BY <3>2, <4>1 DEF HasWork
    <3> QED
      BY <3>3, <3>4
  <2>2. /\ pc' = [pc EXCEPT ![Worker] = "retrieve_lock_user"]
        /\ UNCHANGED <<current, elapsed, previous, caller>>
    BY <1>5, <1>7 DEF Goto
  <2>3. TypeOK'
    BY <1>1, <2>2 DEF IInv, TypeOK, Labels
  <2>4. Roles'
    BY <1>1, <2>2 DEF IInv, TypeOK, Roles
  <2>5. Locks'
    BY <1>1, <2>2 DEF IInv, TypeOK, Roles, Locks, HoldsMutex, Pushing
  <2>6. AddsAreNew' /\ QueuesFiled'
    BY <1>1, <2>2 DEF IInv, TypeOK, AddsAreNew, QueuesFiled, Registered
  <2>7. IteratorValid' /\ WaitingUsersHaveWork'
    BY <1>1, <2>2 DEF IInv, TypeOK, IteratorValid, WaitingUsersHaveWork, Adding,
       Registered
  <2>8. PoppedQueueHasWork' /\ EmptyKnows'
    BY <1>1, <2>2 DEF IInv, TypeOK, PoppedQueueHasWork, EmptyKnows
  <2>9. WorkerKnows' /\ AdvanceKnows'
    <3>1. HasWork(current)'
      BY <1>1, <2>1, <2>2 DEF IInv, TypeOK, HasWork, Pushing
    <3> QED
      BY <1>1, <1>2, <2>2, <3>1 DEF IInv, TypeOK, WorkerKnows, AdvanceKnows
  <2> QED
    BY <2>3, <2>4, <2>5, <2>6, <2>7, <2>8, <2>9 DEF IInv
<1> QED
  BY <1>6, <1>7

(* A worker that holds a package has a user to advance from. *)
LEMMA AdvanceUserKeeps == ASSUME IInv, AdvanceUser PROVE IInv'
<1>1. Len(userList) > 0 /\ pc[Worker] = "idle" /\ mutex = NoThread
  BY DEF IInv, WorkerKnows, AdvanceUser
<1>2. sawWork' = FALSE
  <2>1. sawWork \in BOOLEAN /\ ~sawWork
    BY DEF IInv, TypeOK, WorkerKnows, AdvanceUser
  <2> QED
    BY <2>1 DEF AdvanceUser
<1> QED
  BY <1>1, <1>2, StepIteratorKeeps DEF AdvanceUser

(* The user left behind is erased only without work, and the iterator      *)
(* dangles only when nobody is left.                                       *)
LEMMA AdvanceEraseKeeps == ASSUME IInv, AdvanceErase PROVE IInv'
<1> USE NamesAssumption, UserOfAssumption
<1> DEFINE next == IF caller = "retrieve" THEN "retrieve_lock_user" ELSE "idle"
<1>1. /\ Worker \in Threads /\ Worker \notin Submitters /\ Submitters \subseteq Threads
      /\ pc[Worker] = "advance_erase" /\ userMutex[previous] = NoThread
      /\ pc' = [pc EXCEPT ![Worker] = next] /\ previous' = NoUser
      /\ mutex' = IF caller = "retrieve" THEN mutex ELSE NoThread
      /\ UNCHANGED <<elapsed, userMutex, arg, caller, sawWork, held>>
  BY DEF AdvanceErase, Goto, Threads
<1>2. mutex = Worker /\ ~sawWork /\ held = NoPackage
  BY <1>1 DEF IInv, Locks, HoldsMutex, WorkerKnows
<1>3. /\ previous \in Registered /\ current \in Registered
      /\ previous = current => Len(userList) = 1
      /\ caller = "retrieve" => HasWork(current)
  BY <1>1 DEF IInv, AdvanceKnows
<1>4. Registered \subseteq Users /\ Len(userList) \in Nat
  BY ListFacts DEF IInv
<1>5. \A t \in Submitters : ~Adding(t, previous)
  BY <1>1, <1>2, <1>3, <1>4 DEF IInv, Locks, HoldsMutex, Adding, Pushing
<1>6. previous = current /\ caller = "retrieve" => queue[previous] # {}
  BY <1>3, <1>5 DEF HasWork, Adding, Pushing
<1>7. /\ \A t \in Submitters : pc'[t] = pc[t]
      /\ pc'[Worker] = next
  BY <1>1 DEF IInv, TypeOK
<1>8. Roles'
  BY <1>1 DEF IInv, TypeOK, Roles
<1>9. EmptyKnows'
  BY <1>1, <1>2 DEF IInv, TypeOK, EmptyKnows, Locks, HoldsMutex
<1>10. Locks'
  <2>1. \A t \in Threads : HoldsMutex(t)' <=> mutex' = t
    BY <1>1, <1>2 DEF IInv, TypeOK, Locks, HoldsMutex
  <2>2. \A u \in Users : userMutex[u] # Worker
    BY <1>1 DEF IInv, Locks
  <2>3. \A t \in Submitters, u \in Users : Pushing(t, u)' <=> Pushing(t, u)
    BY <1>1, <1>7 DEF Pushing
  <2> QED
    BY <1>1, <2>1, <2>2, <2>3 DEF IInv, Locks
<1>11. PoppedQueueHasWork'
  BY <1>7 DEF PoppedQueueHasWork
<1>12. \A t \in Submitters, u \in Users : Adding(t, u)' <=> Adding(t, u)
  BY <1>1, <1>7 DEF Adding
<1>13. CASE queue[previous] = {}
  <2>1. /\ userList' = Erase(userList, previous)
        /\ current' = IF current = previous THEN NoUser ELSE current
        /\ queue' = queue
    BY <1>13 DEF AdvanceErase, EraseIfDrained
  <2>2. /\ userList' \in Seq(Users) /\ IsInjective(userList')
        /\ Len(userList') = Len(userList) - 1
        /\ Registered' = Registered \ {previous}
    BY <1>3, <2>1, EraseFromList DEF IInv, TypeOK, Registered
  <2>3. current = previous => Registered' = {} /\ ~(Len(userList') > 0)
    <3>1. ASSUME current = previous PROVE Registered = {previous} /\ Len(userList') = 0
      BY <1>3, <2>2, <3>1, ListFacts DEF IInv
    <3>2. Len(userList') = 0 => ~(Len(userList') > 0)
      OBVIOUS
    <3>3. Registered = {previous} => Registered' = {}
      BY <2>2
    <3> QED
      BY <3>1, <3>2, <3>3
  <2>4. TypeOK'
    BY <1>1, <1>2, <1>3, <1>4, <2>1, <2>2 DEF IInv, TypeOK, Labels
  <2>5. AddsAreNew' /\ QueuesFiled'
    BY <1>1, <1>5, <1>7, <1>13, <2>1, <2>2 DEF IInv, Roles, AddsAreNew, QueuesFiled,
       Adding
  <2>6. IteratorValid'
    BY <1>3, <2>1, <2>2, <2>3 DEF IteratorValid
  <2>7. WaitingUsersHaveWork'
    BY <1>1, <1>4, <1>12, <2>1, <2>2, <2>3 DEF IInv, WaitingUsersHaveWork
  <2>8. caller = "retrieve" => Len(userList') > 0 /\ HasWork(current)'
    <3> SUFFICES ASSUME caller = "retrieve" PROVE Len(userList') > 0 /\ HasWork(current)'
      OBVIOUS
    <3>1. current' = current /\ current \in Registered' /\ HasWork(current)
      BY <1>3, <1>6, <1>13, <2>1, <2>2
    <3>2. HasWork(current)'
      BY <1>1, <1>7, <2>1, <3>1 DEF HasWork, Pushing
    <3>3. Len(userList') > 0
      <4>1. Len(userList') \in Nat /\ DOMAIN userList' = 1..Len(userList')
        BY <2>2, LenProperties
      <4> DEFINE n == Len(userList')
      <4>2. n \in Nat /\ n # 0
        BY <3>1, <4>1 DEF Registered, ToSet
      <4> HIDE DEF n
      <4>3. n > 0
        BY <4>2
      <4> QED
        BY <4>3 DEF n
    <3> QED
      BY <3>2, <3>3
  <2>9. WorkerKnows' /\ AdvanceKnows'
    BY <1>1, <1>2, <1>7, <2>8 DEF WorkerKnows, AdvanceKnows
  <2> QED
    BY <1>8, <1>9, <1>10, <1>11, <2>4, <2>5, <2>6, <2>7, <2>9 DEF IInv
<1>14. CASE queue[previous] # {}
  <2>1. UNCHANGED <<userList, current, queue>>
    BY <1>14 DEF AdvanceErase, EraseIfDrained
  <2>2. TypeOK'
    BY <1>1, <1>2, <2>1 DEF IInv, TypeOK, Labels
  <2>3. AddsAreNew' /\ QueuesFiled'
    BY <1>1, <1>7, <2>1 DEF IInv, AddsAreNew, QueuesFiled, Registered
  <2>4. IteratorValid'
    BY <2>1 DEF IInv, IteratorValid, Registered
  <2>5. WaitingUsersHaveWork'
    BY <1>1, <1>4, <1>12, <1>14, <2>1 DEF IInv, WaitingUsersHaveWork, Registered
  <2>6. Len(userList) > 0
    BY <1>3, ListFacts DEF IInv, IteratorValid
  <2>7. HasWork(current) => HasWork(current)'
    BY <1>1, <1>7, <2>1 DEF HasWork, Pushing
  <2>8. WorkerKnows' /\ AdvanceKnows'
    BY <1>1, <1>2, <1>3, <1>7, <2>1, <2>6, <2>7 DEF WorkerKnows, AdvanceKnows
  <2> QED
    BY <1>8, <1>9, <1>10, <1>11, <2>2, <2>3, <2>4, <2>5, <2>8 DEF IInv
<1> QED
  BY <1>13, <1>14

(* Every step keeps the invariant. *)
LEMMA NextKeeps == IInv /\ [Next]_vars => IInv'
<1> SUFFICES ASSUME IInv, [Next]_vars PROVE IInv'
  OBVIOUS
<1>1. ASSUME NEW t \in Submitters, Submit(t) PROVE IInv'
  BY <1>1, AddWorkKeeps, AddLockUserKeeps, AddPushKeeps DEF Submit
<1>2. ASSUME NEW t \in Observers \union {Worker}, Observe(t) PROVE IInv'
  BY <1>2, IsEmptyKeeps, IsEmptyOneKeeps DEF Observe
<1>3. CASE Retrieve
  BY <1>3, RetrieveWorkKeeps, RetrieveCheckOneKeeps, RetrieveSelectKeeps,
     RetrieveLockUserKeeps, RetrievePopKeeps DEF Retrieve
<1>4. CASE AdvanceUser
  BY <1>4, AdvanceUserKeeps
<1>5. CASE AdvanceErase
  BY <1>5, AdvanceEraseKeeps
<1>6. CASE ResetTimeoutUserSwitch
  BY <1>6, ResetTimeoutUserSwitchKeeps
<1>7. CASE FinishWork
  BY <1>7, FinishWorkKeeps
<1>8. CASE PeriodElapses
  BY <1>8, PeriodElapsesKeeps
<1>9. CASE UNCHANGED vars
  BY <1>9 DEF vars, queueVars, workerVars, IInv, TypeOK, Roles, Locks, HoldsMutex,
     AddsAreNew, QueuesFiled, IteratorValid, WaitingUsersHaveWork, Adding, Pushing,
     PoppedQueueHasWork, WorkerKnows, WorkLeft, HasWork, EmptyKnows, AdvanceKnows,
     Registered
<1> QED
  BY <1>1, <1>2, <1>3, <1>4, <1>5, <1>6, <1>7, <1>8, <1>9 DEF Next

-----------------------------------------------------------------------------
(* Theorems *)

(* The invariant on which the others rest: who owns which mutex, which     *)
(* users are registered, and what the worker knows in retrieve_work and    *)
(* advance_user while add_work runs in other threads.                      *)
THEOREM Invariant == Spec => []IInv
<1> QED
  BY InitEstablishes, NextKeeps, PTL DEF Spec

(* m_user_list never holds a user twice, and all values are well-typed.    *)
THEOREM TypeCorrect == Spec => []TypeOK
<1>1. IInv => TypeOK
  BY DEF IInv
<1> QED
  BY <1>1, Invariant, PTL

(* m_it_current_user never dangles while advance_user_while_locked,        *)
(* is_empty or retrieve_work may dereference it.                           *)
THEOREM IteratorAlwaysValid == Spec => []IteratorValid
<1>1. IInv => IteratorValid
  BY DEF IInv
<1> QED
  BY <1>1, Invariant, PTL

(* "if we have more than one user there is work left to do"                *)
(* (is_empty_while_locked)                                                 *)
THEOREM WaitingUsersAlwaysHaveWork == Spec => []WaitingUsersHaveWork
<1>1. IInv => WaitingUsersHaveWork
  BY DEF IInv
<1> QED
  BY <1>1, Invariant, PTL

(* BOOST_ASSERT(queue.size() > 0) in retrieve_work never fails, whatever   *)
(* the unguarded read of the queue's size returned.                        *)
THEOREM AssertionHolds == Spec => []PoppedQueueHasWork
<1>1. IInv => PoppedQueueHasWork
  BY DEF IInv
<1> QED
  BY <1>1, Invariant, PTL

(* retrieve_work, called after is_empty() returned false, never throws.    *)
THEOREM RetrieveNeverThrows == Spec => []NeverThrows
<1>1. IInv => NeverThrows
  BY DEF IInv, WorkerKnows, NeverThrows
<1> QED
  BY <1>1, Invariant, PTL

-----------------------------------------------------------------------------
(* InputQueue implements WorkStore *)

AllAdded == Stored \union InFlight

(* Packages neither filed nor taken, no call of add_work begun or given up. *)
LEMMA SameStore ==
    ASSUME queue' = queue, arg' = arg,
           \A t \in Submitters :
               pc'[t] \in {"add_lock_user", "add_push"} <=> pc[t] \in {"add_lock_user", "add_push"}
    PROVE  AllAdded' = AllAdded
BY DEF AllAdded, Stored, InFlight

(* A call of add_work that begins adds its package to the store. *)
LEMMA AddWorkAdds ==
    ASSUME IInv, NEW t \in Submitters, NEW p \in Packages, AddWork(t, p)
    PROVE  Store!Add(p)
<1>1. /\ p \notin AllAdded /\ p # held
      /\ UNCHANGED <<queue, sawWork, held>>
      /\ pc[t] = "idle" /\ pc' = [pc EXCEPT ![t] = "add_lock_user"]
      /\ arg' = [arg EXCEPT ![t] = p]
  BY DEF AddWork, Goto, workerVars, AllAdded
<1>2. /\ pc'[t] = "add_lock_user" /\ arg'[t] = p
      /\ \A s \in Submitters : s # t => pc'[s] = pc[s] /\ arg'[s] = arg[s]
  BY <1>1 DEF IInv, TypeOK, Threads
<1>3. InFlight' = InFlight \union {p}
  BY <1>1, <1>2 DEF InFlight
<1>4. AllAdded' = AllAdded \union {p}
  BY <1>1, <1>3 DEF AllAdded, Stored
<1> QED
  BY <1>1, <1>4 DEF Store!Add, AllAdded

(* The push moves a package from the call to the queue. *)
LEMMA AddPushStutters ==
    ASSUME IInv, NEW t \in Submitters, AddPush(t)
    PROVE  AllAdded' = AllAdded
<1> DEFINE u == UserOf[arg[t]]
<1>1. /\ pc[t] = "add_push" /\ pc'[t] = "idle"
      /\ \A s \in Submitters : s # t => pc'[s] = pc[s] /\ arg'[s] = arg[s]
      /\ queue' = [queue EXCEPT ![u] = @ \union {arg[t]}]
  BY DEF IInv, TypeOK, Threads, AddPush, Goto
<1>2. u \in Users /\ arg[t] \in InFlight
  BY <1>1, UserOfAssumption DEF IInv, AddsAreNew, InFlight
<1>3. Stored' = Stored \union {arg[t]}
  BY <1>1, <1>2 DEF IInv, TypeOK, Stored
<1>4. InFlight' \subseteq InFlight /\ InFlight \subseteq InFlight' \union {arg[t]}
  BY <1>1 DEF InFlight
<1> QED
  BY <1>2, <1>3, <1>4 DEF AllAdded

(* is_empty() answers for every package whose add_work has begun. *)
LEMMA EmptyMeansEmpty ==
    ASSUME IInv, pc[Worker] = "idle"
    PROVE  /\ Len(userList) = 0 => AllAdded = {}
           /\ Len(userList) > 1 => AllAdded # {}
<1>1. Len(userList) = 0 => AllAdded = {}
  <2> SUFFICES ASSUME Len(userList) = 0 PROVE AllAdded = {}
    OBVIOUS
  <2>1. Registered = {}
    BY ListFacts DEF IInv
  <2>2. Stored = {}
    BY <2>1 DEF IInv, QueuesFiled, Stored
  <2>3. InFlight = {}
    BY <2>1 DEF IInv, AddsAreNew, InFlight
  <2> QED
    BY <2>2, <2>3 DEF AllAdded
<1>2. Len(userList) > 1 => AllAdded # {}
  <2> SUFFICES ASSUME Len(userList) > 1 PROVE AllAdded # {}
    OBVIOUS
  <2>1. 1 \in DOMAIN userList /\ 2 \in DOMAIN userList
    BY LenProperties DEF IInv, TypeOK
  <2>2. userList[1] # userList[2] /\ userList[1] \in Registered /\ userList[2] \in Registered
    BY <2>1 DEF IInv, TypeOK, IsInjective, Registered, ToSet
  <2>3. PICK u \in Registered : u # current
    BY <2>2
  <2>4. u \in Users /\ u # previous
    BY ListFacts, NamesAssumption DEF IInv, AdvanceKnows
  <2>5. queue[u] # {} \/ \E t \in Submitters : Adding(t, u)
    BY <2>3, <2>4 DEF IInv, WaitingUsersHaveWork
  <2>6. CASE queue[u] # {}
    BY <2>4, <2>6 DEF AllAdded, Stored
  <2>7. CASE \E t \in Submitters : Adding(t, u)
    BY <2>7 DEF AllAdded, InFlight, Adding
  <2> QED
    BY <2>5, <2>6, <2>7
<1> QED
  BY <1>1, <1>2

(* The look at the only user's queue *)
LEMMA OnlyQueueTells ==
    ASSUME IInv, pc[Worker] = "is_empty_one", userMutex[current] = NoThread
    PROVE  queue[current] = {} <=> AllAdded = {}
<1>1. mutex = Worker /\ Len(userList) = 1
  BY DEF IInv, Locks, HoldsMutex, EmptyKnows, Threads
<1>2. Registered = {current} /\ current \in Users
  <2>1. Len(userList) > 0
    BY <1>1
  <2> QED
    BY <1>1, <2>1, ListFacts DEF IInv, IteratorValid
<1>3. Stored = queue[current]
  BY <1>2 DEF IInv, QueuesFiled, Stored
<1>4. InFlight = {}
  <2> SUFFICES ASSUME NEW t \in Submitters, pc[t] \in {"add_lock_user", "add_push"}
               PROVE  FALSE
    BY DEF InFlight
  <2>1. UserOf[arg[t]] = current
    BY <1>2 DEF IInv, AddsAreNew
  <2>2. t # Worker /\ t \in Threads
    BY NamesAssumption DEF Threads
  <2>3. pc[t] # "add_lock_user"
    BY <1>1, <2>2 DEF IInv, Locks, HoldsMutex
  <2>4. userMutex[current] = t
    BY <1>2, <2>1, <2>3 DEF IInv, Locks, Pushing
  <2> QED
    BY <2>2, <2>4, NamesAssumption
<1> QED
  BY <1>3, <1>4 DEF AllAdded

(* The pop takes a package of the store, and only that one. *)
LEMMA RetrievePopTakes ==
    ASSUME IInv, NEW u \in Users, RetrievePop(u)
    PROVE  \E p \in Packages : Store!Take(p)
<1>1. PICK p \in Tops(u) : queue' = [queue EXCEPT ![u] = @ \ {p}] /\ held' = p
  BY DEF RetrievePop
<1>2. p \in queue[u] /\ p \in Packages
  BY <1>1 DEF Tops, IInv, TypeOK
<1>3. p \notin InFlight
  BY <1>2 DEF IInv, AddsAreNew, InFlight
<1>4. \A v \in Users : v # u => p \notin queue[v]
  BY <1>2 DEF IInv, QueuesFiled
<1>5. Stored' = Stored \ {p}
  <2>1. \A v \in Users : queue'[v] = queue[v] \ {p}
    BY <1>1, <1>4 DEF IInv, TypeOK
  <2> QED
    BY <2>1 DEF Stored
<1>6. InFlight' = InFlight
  <2>1. \A t \in Submitters : pc'[t] = pc[t] /\ arg'[t] = arg[t]
    BY NamesAssumption DEF RetrievePop, Goto, IInv, TypeOK
  <2> QED
    BY <2>1 DEF InFlight
<1>7. ~sawWork /\ held = NoPackage
  BY DEF IInv, WorkerKnows, RetrievePop
<1>8. p \in Stored
  BY <1>2 DEF Stored
<1>9. UNCHANGED sawWork
  BY DEF RetrievePop
<1> QED
  BY <1>1, <1>2, <1>3, <1>5, <1>6, <1>7, <1>8, <1>9 DEF Store!Take

(* Every step of InputQueue is a step of WorkStore or leaves it alone. *)
LEMMA StepImplements == IInv /\ [Next]_vars => [Store!Next]_(Store!storeVars)
<1> USE NamesAssumption
<1> SUFFICES ASSUME IInv, [Next]_vars PROVE [Store!Next]_(Store!storeVars)
  OBVIOUS
<1> DEFINE stutter == AllAdded' = AllAdded /\ sawWork' = sawWork /\ held' = held
<1>s. stutter => UNCHANGED Store!storeVars
  BY DEF AllAdded, Store!storeVars
<1>1. /\ Worker \in Threads /\ Worker \notin Submitters /\ Submitters \subseteq Threads
      /\ pc \in [Threads -> Labels]
  BY DEF Threads, IInv, TypeOK
<1> HIDE DEF stutter
<1>2. ASSUME NEW t \in Submitters, NEW p \in Packages, AddWork(t, p)
      PROVE  Store!Next
  BY <1>2, AddWorkAdds DEF Store!Next
<1>3. ASSUME NEW t \in Submitters, AddLockUser(t) PROVE stutter
  BY <1>1, <1>3, SameStore DEF AddLockUser, Goto, queueVars, workerVars, stutter
<1>4. ASSUME NEW t \in Submitters, AddPush(t) PROVE stutter
  BY <1>4, AddPushStutters DEF AddPush, workerVars, stutter
<1>5. ASSUME NEW t \in Observers \union {Worker}, IsEmpty(t) \/ IsEmptyOne(t)
      PROVE  stutter \/ Store!Ask
  <2>1. t \notin Submitters /\ t \in Threads
    BY DEF Threads
  <2>2. AllAdded' = AllAdded /\ held' = held
    BY <1>1, <1>5, <2>1, SameStore DEF IsEmpty, IsEmptyOne, Goto, queueVars
  <2>3. CASE t # Worker
    BY <1>5, <2>2, <2>3 DEF IsEmpty, IsEmptyOne, Answer, stutter
  <2>4. CASE t = Worker /\ IsEmpty(t) /\ Len(userList) = 1
    BY <2>2, <2>4 DEF IsEmpty, stutter
  <2>5. CASE t = Worker /\ IsEmpty(t) /\ Len(userList) # 1
    <3>1. pc[Worker] = "idle" /\ held = NoPackage /\ sawWork' = ~(Len(userList) = 0)
      BY <2>5 DEF IsEmpty, Answer
    <3>2. Len(userList) = 0 <=> AllAdded = {}
      BY <2>5, <3>1, EmptyMeansEmpty, ListFacts DEF IInv
    <3>3. sawWork' = (AllAdded # {})
      BY <3>1, <3>2
    <3> QED
      BY <2>2, <3>1, <3>3 DEF Store!Ask, AllAdded
  <2>6. CASE t = Worker /\ IsEmptyOne(t)
    <3>1. /\ pc[Worker] = "is_empty_one" /\ userMutex[current] = NoThread
          /\ sawWork' = ~(queue[current] = {})
      BY <2>6 DEF IsEmptyOne, Answer
    <3>2. held = NoPackage
      BY <3>1 DEF IInv, WorkerKnows
    <3>3. sawWork' = (AllAdded # {})
      BY <3>1, OnlyQueueTells
    <3> QED
      BY <2>2, <3>2, <3>3 DEF Store!Ask, AllAdded
  <2> QED
    BY <1>5, <2>3, <2>4, <2>5, <2>6
<1>6. CASE RetrieveWork
  <2>1. AllAdded' = AllAdded
    BY <1>1, <1>6, SameStore DEF RetrieveWork, Goto, queueVars
  <2> QED
    BY <1>6, <2>1 DEF RetrieveWork, Store!Next, Store!Commit, AllAdded
<1>7. CASE RetrieveCheckOne \/ RetrieveSelect \/ RetrieveLockUser
  <2>1. /\ queue' = queue /\ arg' = arg /\ sawWork' = sawWork /\ held' = held
        /\ \A t \in Submitters : pc'[t] = pc[t]
    BY <1>1, <1>7 DEF RetrieveCheckOne, RetrieveSelect, RetrieveLockUser, StepIterator,
       Goto, queueVars, workerVars
  <2>2. AllAdded' = AllAdded
    BY <2>1, SameStore
  <2> QED
    BY <1>s, <2>1, <2>2 DEF stutter
<1>8. ASSUME NEW u \in Users, RetrievePop(u) PROVE Store!Next
  BY <1>8, RetrievePopTakes DEF Store!Next
<1>9. CASE AdvanceUser
  <2>1. AllAdded' = AllAdded
    BY <1>1, <1>9, SameStore DEF AdvanceUser, StepIterator, Goto
  <2> QED
    BY <1>9, <2>1 DEF AdvanceUser, Store!Next, Store!Release, AllAdded
<1>10. CASE AdvanceErase
  <2>1. /\ queue' = queue /\ arg' = arg /\ sawWork' = sawWork /\ held' = held
        /\ \A t \in Submitters : pc'[t] = pc[t]
    BY <1>1, <1>10 DEF AdvanceErase, EraseIfDrained, Goto
  <2>2. AllAdded' = AllAdded
    BY <2>1, SameStore
  <2> QED
    BY <1>s, <2>1, <2>2 DEF stutter
<1>11. CASE FinishWork
  <2>1. AllAdded' = AllAdded
    BY <1>11, SameStore DEF FinishWork, queueVars
  <2> QED
    BY <1>11, <2>1 DEF FinishWork, Store!Next, Store!Release, AllAdded
<1>12. CASE ResetTimeoutUserSwitch \/ PeriodElapses \/ UNCHANGED vars
  <2>1. queue' = queue /\ arg' = arg /\ pc' = pc /\ sawWork' = sawWork /\ held' = held
    BY <1>12 DEF ResetTimeoutUserSwitch, PeriodElapses, vars, queueVars, workerVars
  <2>2. AllAdded' = AllAdded
    BY <2>1, SameStore
  <2> QED
    BY <1>s, <2>1, <2>2 DEF stutter
<1> QED
  BY <1>s, <1>2, <1>3, <1>4, <1>5, <1>6, <1>7, <1>8, <1>9, <1>10, <1>11, <1>12
     DEF Next, Submit, Observe, Retrieve, Store!Next

(* InputQueue implements WorkStore: no package is lost or handed out twice *)
(* and is_empty() tells the truth, for any number of users, packages and   *)
(* submitting threads.                                                     *)
THEOREM ImplementsStore == Spec => StoreSpec
<1>1. Init => Store!Init
  BY DEF Init, Store!Init, Stored, InFlight, Threads
<1> QED
  BY <1>1, StepImplements, Invariant, PTL DEF Spec, StoreSpec, Store!Spec

-----------------------------------------------------------------------------
(* The output queue                                                        *)
-----------------------------------------------------------------------------
(* A thread that is about to commit carries a context.                     *)
CarriersCarry ==
    \A t \in OutputThreads : opc[t] = "commit" => carried[t] \in Contexts

(* The stop tokens are set before the destructor counts, and a thread that *)
(* begins with its token set finds the predicate true: it never waits.     *)
StopInv ==
    /\ dpc # "alive" => ostop
    /\ dpc \in {"cv_destroyed", "gone"} =>
           \A t \in OutputThreads : opc[t] \in {"new", "enter", "predicate", "ended"}

(* The inductive invariant *)
OutputInv == OutputTypeOK /\ CarriersCarry /\ StopInv

(* m_thread_count is zero only if every thread has ended or not yet begun. *)
LEMMA CountZero ==
    ASSUME ThreadCount = 0, NEW t \in OutputThreads
    PROVE  opc[t] \in {"new", "ended"}
<1> DEFINE S == {u \in OutputThreads : opc[u] \notin {"new", "ended"}}
<1>1. IsFiniteSet(S)
  BY FS_Subset, OutputQueueAssumption
<1>2. S = {}
  BY <1>1, FS_EmptySet DEF ThreadCount
<1> QED
  BY <1>2

(* The initial states satisfy the invariant. *)
LEMMA OutputInitHolds == OutputInit => OutputInv
<1> SUFFICES ASSUME OutputInit PROVE OutputInv
  OBVIOUS
<1>1. output \in Seq(Contexts) /\ pushed \in Seq(Contexts) /\ sent \in Seq(Contexts)
  BY DEF OutputInit
<1>2. opc \in [OutputThreads -> ThreadLabels]
  BY DEF OutputInit, ThreadLabels
<1>3. carried \in [OutputThreads -> Contexts \union {NoContext}]
  BY DEF OutputInit
<1>4. OutputTypeOK
  BY <1>1, <1>2, <1>3 DEF OutputInit, OutputTypeOK
<1>5. CarriersCarry /\ StopInv
  BY DEF OutputInit, CarriersCarry, StopInv
<1> QED
  BY <1>4, <1>5 DEF OutputInv

(* Every step keeps the invariant. *)
LEMMA OutputNextKeeps == OutputInv /\ [OutputNext]_outputVars => OutputInv'
<1> SUFFICES ASSUME OutputInv, [OutputNext]_outputVars PROVE OutputInv'
  OBVIOUS
<1> USE OutputQueueAssumption
    DEF OutputInv, OutputTypeOK, CarriersCarry, StopInv, ThreadLabels, OutputGoto, WakeAll,
        threadVars, historyVars
<1>1. ASSUME NEW c \in Contexts, WorkerPushes(c) PROVE OutputInv'
  BY <1>1 DEF WorkerPushes, PushBack
<1>2. ASSUME NotifyPushed PROVE OutputInv'
  BY <1>2 DEF NotifyPushed
<1>3. ASSUME NEW t \in OutputThreads, OutputBegin(t) PROVE OutputInv'
  BY <1>3 DEF OutputBegin
<1>4. ASSUME NEW t \in OutputThreads, OutputLock(t) PROVE OutputInv'
  BY <1>4 DEF OutputLock
<1>5. ASSUME NEW t \in OutputThreads, OutputSleep(t) PROVE OutputInv'
  BY <1>5 DEF OutputSleep
<1>6. ASSUME NEW t \in OutputThreads, OutputBlock(t) PROVE OutputInv'
  BY <1>6 DEF OutputBlock
<1>7. ASSUME NEW t \in OutputThreads, OutputWakeSpuriously(t) PROVE OutputInv'
  BY <1>7 DEF OutputWakeSpuriously
<1>8. ASSUME NEW t \in OutputThreads, OutputEnd(t) PROVE OutputInv'
  BY <1>8 DEF OutputEnd
<1>9. ASSUME NEW t \in OutputThreads, OutputRetrieve(t) PROVE OutputInv'
  BY <1>9 DEF OutputRetrieve
<1>10. ASSUME NEW t \in OutputThreads, OutputCommit(t) PROVE OutputInv'
  BY <1>10 DEF OutputCommit
<1>11. ASSUME OutputDestroy PROVE OutputInv'
  BY <1>11 DEF OutputDestroy
<1>12. ASSUME OutputStopNotify PROVE OutputInv'
  BY <1>12 DEF OutputStopNotify
<1>13. ASSUME OutputLeaveLoop PROVE OutputInv'
  BY <1>13, CountZero DEF OutputLeaveLoop
<1>14. ASSUME OutputJoin PROVE OutputInv'
  BY <1>14 DEF OutputJoin
<1>15. ASSUME UNCHANGED outputVars PROVE OutputInv'
  BY <1>15 DEF outputVars
<1> QED
  BY <1>1, <1>2, <1>3, <1>4, <1>5, <1>6, <1>7, <1>8, <1>9, <1>10, <1>11, <1>12, <1>13,
     <1>14, <1>15
     DEF OutputNext, OutputThread, OutputDestructor

(* The inductive invariant holds in every reachable state. *)
THEOREM OutputInvariant == OutputSpec => []OutputInv
<1>1. OutputInit => OutputInv
  BY OutputInitHolds
<1>2. OutputInv /\ [OutputNext]_outputVars => OutputInv'
  BY OutputNextKeeps
<1> QED
  BY <1>1, <1>2, PTL DEF OutputSpec

(* The variables keep their types: in particular only contexts are         *)
(* committed.                                                              *)
THEOREM OutputTypeCorrect == OutputSpec => []OutputTypeOK
<1>1. OutputInv => OutputTypeOK
  BY DEF OutputInv
<1> QED
  BY <1>1, OutputInvariant, PTL

(* No thread waits on m_cv when it is destroyed, however many threads the  *)
(* pool has and however late they begin (output-queue.tcc:26-39).          *)
THEOREM CvSafe == OutputSpec => []CvOutlivesWaiters
<1>1. OutputInv => CvOutlivesWaiters
  BY DEF OutputInv, StopInv, CvOutlivesWaiters
<1> QED
  BY <1>1, OutputInvariant, PTL
=============================================================================
