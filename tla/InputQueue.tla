----------------------------- MODULE InputQueue -----------------------------
(***************************************************************************)
(* InputQueue of the round-robin schedulers: work packages are stored in   *)
(* one queue per user and handed to the worker thread user by user.        *)
(*                                                                         *)
(* Any RCF thread calls add_work, any thread may call is_empty, and the    *)
(* worker thread alone calls retrieve_work, advance_user and               *)
(* reset_timeout_user_switch.  m_mutex guards the list of users and the    *)
(* two maps; every user's queue has a mutex of its own, which add_work and *)
(* retrieve_work take BEFORE they give m_mutex back.  A step of this       *)
(* module is what a thread does between two acquisitions of a mutex.       *)
(*                                                                         *)
(* A user's queue is the set of its packages: push_heap inserts, pop_heap  *)
(* takes a package the sorter puts before no other.                        *)
(***************************************************************************)
EXTENDS Naturals, SequencesExt

CONSTANTS
    Users,          \* user_id_t, as verify_user returns it
    Packages,       \* work_package_t
    UserOf,         \* UserOf[p] is p's user_id
    Less,           \* <<p, q>> \in Less iff sorter(p, q): q is popped before p
    Submitters,     \* threads that call add_work
    Observers,      \* threads that call is_empty (has_work_left)
    Worker,         \* the worker thread
    PeriodIsZero,   \* m_period_per_user == 0ms
    Reinit,         \* the worker requeues (WorkerThreadReinit): advance_user is used
    NoUser,         \* a singular or dangling user_list_t iterator
    NoPackage,
    NoThread        \* the owner of a mutex nobody holds

Threads == Submitters \union Observers \union {Worker}

ASSUME UserOfAssumption == UserOf \in [Packages -> Users]

(* The sorter is a strict weak order of each user's packages, as push_heap *)
(* and pop_heap require.                                                   *)
ASSUME LessAssumption ==
    /\ Less \subseteq Packages \X Packages
    /\ \A p, q \in Packages : <<p, q>> \in Less => <<q, p>> \notin Less
    /\ \A p, q, r \in Packages :
          UserOf[p] = UserOf[q] /\ UserOf[q] = UserOf[r] /\ <<p, r>> \in Less
              => <<p, q>> \in Less \/ <<q, r>> \in Less

ASSUME NamesAssumption ==
    /\ NoUser \notin Users
    /\ NoPackage \notin Packages
    /\ NoThread \notin Threads
    /\ Worker \notin Submitters \union Observers
    /\ Submitters \intersect Observers = {}

ASSUME FlagsAssumption == PeriodIsZero \in BOOLEAN /\ Reinit \in BOOLEAN

VARIABLES
    userList,   \* m_user_list; its elements are the keys of both maps
    current,    \* *m_it_current_user
    queue,      \* m_user_to_input_queue; {} for a user without an entry
    elapsed,    \* m_period_per_user has passed since m_last_user_switch
    mutex,      \* owner of m_mutex
    userMutex,  \* owner of *m_user_to_mutex[u]
    pc,         \* where each thread is
    arg,        \* the package a submitter passes to add_work
    previous,   \* citer_previous_user of advance_user_while_locked
    caller,     \* what the worker does once it has advanced
    sawWork,    \* the worker's last is_empty() returned false, unused so far
    held        \* the package the worker retrieved and works on

queueVars == <<userList, current, queue, elapsed>>
workerVars == <<previous, caller, sawWork, held>>
vars == <<queueVars, mutex, userMutex, pc, arg, workerVars>>

-----------------------------------------------------------------------------
(* Helpers *)

Registered == ToSet(userList)

Goto(t, label) == pc' = [pc EXCEPT ![t] = label]

(* A thread is inside add_work with a package of u that is not yet pushed. *)
Adding(t, u) ==
    pc[t] \in {"add_lock_user", "add_push"} /\ UserOf[arg[t]] = u

Pushing(t, u) == pc[t] = "add_push" /\ UserOf[arg[t]] = u

InFlight == {arg[t] : t \in {s \in Submitters : pc[s] \in {"add_lock_user", "add_push"}}}

Stored == UNION {queue[u] : u \in Users}

(* The mutants below are what plausible slips in the code would make of a  *)
(* helper or an action; no action of the specification uses them.          *)

PositionOf(list, u) == CHOOSE i \in 1..Len(list) : list[i] = u

(* Mutant: the iterator is advanced without wrapping to another user. *)
SuccessorNoWrap(list, u) ==
    LET i == PositionOf(list, u)
    IN  list[IF i = Len(list) THEN i ELSE i + 1]

(* m_it_current_user++ and the wrap to cbegin(). *)
Successor(list, u) ==
    LET i == PositionOf(list, u)
    IN  list[IF i = Len(list) THEN 1 ELSE i + 1]

(* m_user_list.erase(it) *)
Erase(list, u) == RemoveAt(list, PositionOf(list, u))

IsTimeToSwitchUser == PeriodIsZero \/ elapsed

(* m_user_to_input_queue[u].size() == 0, read without u's mutex: while     *)
(* another thread pushes onto the deque the read may return anything.      *)
SizeReadsZero(u) ==
    IF \E t \in Submitters : Pushing(t, u) THEN BOOLEAN ELSE {queue[u] = {}}

(* pop_heap: a package that the sorter puts before no other of the queue.  *)
(* The sorter of a reinit scheduler changes from call to call, the queue   *)
(* may then give out any package (module PackageHeap).                     *)
Tops(u) == {p \in queue[u] : Reinit \/ \A q \in queue[u] : <<p, q>> \notin Less}

-----------------------------------------------------------------------------
(* add_work *)

(* The user of the package is registered; the only user becomes current.   *)
Register(u) ==
    LET list == IF u \in Registered THEN userList ELSE Append(userList, u)
    IN  /\ userList' = list
        /\ IF Len(list) = 1
             THEN current' = list[1] /\ elapsed' = FALSE
             ELSE UNCHANGED <<current, elapsed>>

(* Lock m_mutex, register the user, select it if it is the only one. *)
AddWork(t, p) ==
    /\ pc[t] = "idle"
    /\ p \notin Stored \union InFlight \union {held}
    /\ mutex = NoThread
    /\ mutex' = t
    /\ Register(UserOf[p])
    /\ arg' = [arg EXCEPT ![t] = p]
    /\ Goto(t, "add_lock_user")
    /\ UNCHANGED <<queue, userMutex, workerVars>>

(* Lock the user's mutex, then release m_mutex. *)
AddLockUser(t) ==
    /\ pc[t] = "add_lock_user"
    /\ userMutex[UserOf[arg[t]]] = NoThread
    /\ userMutex' = [userMutex EXCEPT ![UserOf[arg[t]]] = t]
    /\ mutex' = NoThread
    /\ Goto(t, "add_push")
    /\ UNCHANGED <<queueVars, arg, workerVars>>

(* ensure_heap_while_locked, push_back, push_heap; the user's mutex goes. *)
AddPush(t) ==
    LET u == UserOf[arg[t]]
    IN  /\ pc[t] = "add_push"
        /\ queue' = [queue EXCEPT ![u] = @ \union {arg[t]}]
        /\ userMutex' = [userMutex EXCEPT ![u] = NoThread]
        /\ arg' = [arg EXCEPT ![t] = NoPackage]
        /\ Goto(t, "idle")
        /\ UNCHANGED <<userList, current, elapsed, mutex, workerVars>>

-----------------------------------------------------------------------------
(* is_empty *)

(* The worker acts on the answer, an observer only reports it. *)
Answer(t, empty) ==
    sawWork' = IF t = Worker THEN ~empty ELSE sawWork

(* Lock m_mutex; zero users or several decide without a look at a queue. *)
IsEmpty(t) ==
    /\ pc[t] = "idle"
    /\ t = Worker => held = NoPackage /\ ~sawWork
    /\ mutex = NoThread
    /\ IF Len(userList) = 1
         THEN /\ mutex' = t
              /\ Goto(t, "is_empty_one")
              /\ UNCHANGED sawWork
         ELSE /\ Answer(t, Len(userList) = 0)
              /\ UNCHANGED <<mutex, pc>>
    /\ UNCHANGED <<queueVars, userMutex, arg, previous, caller, held>>

(* The only user's queue is inspected under that user's mutex. *)
IsEmptyOne(t) ==
    /\ pc[t] = "is_empty_one"
    /\ userMutex[current] = NoThread
    /\ Answer(t, queue[current] = {})
    /\ mutex' = NoThread
    /\ Goto(t, "idle")
    /\ UNCHANGED <<queueVars, userMutex, arg, previous, caller, held>>

-----------------------------------------------------------------------------
(* advance_user_while_locked *)

(* The iterator moves on and wraps, m_last_user_switch is reset. *)
StepIterator(after) ==
    /\ previous' = current
    /\ current' = Successor(userList, current)
    /\ elapsed' = FALSE
    /\ caller' = after
    /\ Goto(Worker, "advance_erase")

(* Mutant: the user left behind is erased whatever its queue holds. *)
EraseAlways ==
    /\ queue' = [queue EXCEPT ![previous] = {}]
    /\ userList' = Erase(userList, previous)
    /\ current' = IF current = previous THEN NoUser ELSE current

(* Mutant: the user left behind stays registered. *)
EraseNever == UNCHANGED <<userList, current, queue>>

(* Under its mutex, the user left behind is erased if its queue is empty;  *)
(* an iterator that wrapped back to the same user now dangles.             *)
EraseIfDrained ==
    IF queue[previous] = {}
      THEN /\ userList' = Erase(userList, previous)
           /\ current' = IF current = previous THEN NoUser ELSE current
           /\ UNCHANGED queue
      ELSE UNCHANGED <<userList, current, queue>>

(* The end of advance_user_while_locked: back in retrieve_work, or at the  *)
(* end of advance_user, which releases m_mutex.                            *)
AdvanceErase ==
    /\ pc[Worker] = "advance_erase"
    /\ userMutex[previous] = NoThread
    /\ EraseIfDrained
    /\ mutex' = IF caller = "retrieve" THEN mutex ELSE NoThread
    /\ Goto(Worker, IF caller = "retrieve" THEN "retrieve_lock_user" ELSE "idle")
    /\ previous' = NoUser
    /\ UNCHANGED <<elapsed, userMutex, arg, caller, sawWork, held>>

-----------------------------------------------------------------------------
(* retrieve_work *)

(* Lock m_mutex and evaluate is_empty_while_locked: with no user left the  *)
(* call throws, with one user its queue is looked at first.                *)
RetrieveWork ==
    /\ pc[Worker] = "idle"
    /\ sawWork
    /\ mutex = NoThread
    /\ mutex' = Worker
    /\ sawWork' = FALSE
    /\ Goto(Worker, CASE Len(userList) = 0 -> "threw"
                      [] Len(userList) = 1 -> "retrieve_check_one"
                      [] OTHER             -> "retrieve_select")
    /\ UNCHANGED <<queueVars, userMutex, arg, previous, caller, held>>

RetrieveCheckOne ==
    /\ pc[Worker] = "retrieve_check_one"
    /\ userMutex[current] = NoThread
    /\ Goto(Worker, IF queue[current] = {} THEN "threw" ELSE "retrieve_select")
    /\ UNCHANGED <<queueVars, mutex, userMutex, arg, workerVars>>

(* size() == 0 || is_time_to_switch_user() *)
MustSwitch == {zero \/ IsTimeToSwitchUser : zero \in SizeReadsZero(current)}

(* Switch to the next user or stay with the current one. *)
RetrieveSelect ==
    /\ pc[Worker] = "retrieve_select"
    /\ \E switch \in MustSwitch :
          IF switch
            THEN StepIterator("retrieve")
            ELSE /\ Goto(Worker, "retrieve_lock_user")
                 /\ UNCHANGED <<current, elapsed, previous, caller>>
    /\ UNCHANGED <<userList, queue, mutex, userMutex, arg, sawWork, held>>

(* Lock the current user's mutex, then release m_mutex. *)
RetrieveLockUser ==
    /\ pc[Worker] = "retrieve_lock_user"
    /\ userMutex[current] = NoThread
    /\ userMutex' = [userMutex EXCEPT ![current] = Worker]
    /\ mutex' = NoThread
    /\ Goto(Worker, "retrieve_pop")
    /\ UNCHANGED <<queueVars, arg, workerVars>>

(* pop_heap, pop_back; the user's mutex goes. *)
RetrievePop(u) ==
    /\ pc[Worker] = "retrieve_pop"
    /\ userMutex[u] = Worker
    /\ \E p \in Tops(u) :
          /\ queue' = [queue EXCEPT ![u] = @ \ {p}]
          /\ held' = p
    /\ userMutex' = [userMutex EXCEPT ![u] = NoThread]
    /\ Goto(Worker, "idle")
    /\ UNCHANGED <<userList, current, elapsed, mutex, arg, previous, caller, sawWork>>

-----------------------------------------------------------------------------
(* The worker thread around the queue *)

(* advance_user, as requeue_work_package calls it: the retrieved package   *)
(* is given up and added again by a thread of its own.                     *)
AdvanceUser ==
    /\ Reinit
    /\ pc[Worker] = "idle"
    /\ held # NoPackage
    /\ mutex = NoThread
    /\ mutex' = Worker
    /\ held' = NoPackage
    /\ StepIterator("advance")
    /\ UNCHANGED <<userList, queue, userMutex, arg, sawWork>>

(* ensure_worker_is_set_up resets the timeout of the current user. *)
ResetTimeoutUserSwitch ==
    /\ pc[Worker] = "idle"
    /\ sawWork
    /\ mutex = NoThread
    /\ elapsed' = FALSE
    /\ UNCHANGED <<userList, current, queue, mutex, userMutex, pc, arg, workerVars>>

(* The worker is done with the package. *)
FinishWork ==
    /\ pc[Worker] = "idle"
    /\ held # NoPackage
    /\ held' = NoPackage
    /\ UNCHANGED <<queueVars, mutex, userMutex, pc, arg, previous, caller, sawWork>>

(* More than m_period_per_user has passed since m_last_user_switch. *)
PeriodElapses ==
    /\ ~PeriodIsZero
    /\ elapsed' = TRUE
    /\ UNCHANGED <<userList, current, queue, mutex, userMutex, pc, arg, workerVars>>

-----------------------------------------------------------------------------
Init ==
    /\ userList = <<>>
    /\ current = NoUser
    /\ queue = [u \in Users |-> {}]
    /\ elapsed = FALSE
    /\ mutex = NoThread
    /\ userMutex = [u \in Users |-> NoThread]
    /\ pc = [t \in Threads |-> "idle"]
    /\ arg = [t \in Submitters |-> NoPackage]
    /\ previous = NoUser
    /\ caller = "retrieve"
    /\ sawWork = FALSE
    /\ held = NoPackage

Submit(t) == (\E p \in Packages : AddWork(t, p)) \/ AddLockUser(t) \/ AddPush(t)

Observe(t) == IsEmpty(t) \/ IsEmptyOne(t)

Retrieve ==
    \/ RetrieveWork \/ RetrieveCheckOne \/ RetrieveSelect
    \/ RetrieveLockUser \/ \E u \in Users : RetrievePop(u)

Next ==
    \/ \E t \in Submitters : Submit(t)
    \/ \E t \in Observers \union {Worker} : Observe(t)
    \/ Retrieve
    \/ AdvanceUser \/ AdvanceErase
    \/ ResetTimeoutUserSwitch
    \/ FinishWork
    \/ PeriodElapses

Spec == Init /\ [][Next]_vars

(* The worker's loop and a call of add_work that has begun are never       *)
(* abandoned; nothing obliges a client to call add_work, an observer to    *)
(* ask, or time to pass.                                                   *)
Fairness ==
    /\ WF_vars(Observe(Worker))
    /\ WF_vars(Retrieve)
    /\ WF_vars(AdvanceErase)
    /\ WF_vars(FinishWork)
    /\ \A t \in Submitters : WF_vars(AddLockUser(t)) /\ WF_vars(AddPush(t))

FairSpec == Spec /\ Fairness

-----------------------------------------------------------------------------
(* Properties *)

Labels ==
    {"idle", "add_lock_user", "add_push", "is_empty_one", "retrieve_check_one",
     "retrieve_select", "advance_erase", "retrieve_lock_user", "retrieve_pop",
     "threw"}

(* Types; m_user_list holds a user once, although add_work and the erase   *)
(* of advance_user_while_locked are calls of different threads.            *)
TypeOK ==
    /\ userList \in Seq(Users) /\ IsInjective(userList)
    /\ current \in Users \union {NoUser}
    /\ queue \in [Users -> SUBSET Packages]
    /\ elapsed \in BOOLEAN
    /\ mutex \in Threads \union {NoThread}
    /\ userMutex \in [Users -> Threads \union {NoThread}]
    /\ pc \in [Threads -> Labels]
    /\ arg \in [Submitters -> Packages \union {NoPackage}]
    /\ previous \in Users \union {NoUser}
    /\ caller \in {"retrieve", "advance"}
    /\ sawWork \in BOOLEAN
    /\ held \in Packages \union {NoPackage}

(* m_it_current_user can be dereferenced whenever there is a user: the     *)
(* erase of advance_user_while_locked leaves it dangling only when the     *)
(* list has become empty, and add_work then sets it anew.                  *)
IteratorValid == Len(userList) > 0 => current \in Registered

(* "if we have more than one user there is work left to do"                *)
(* (is_empty_while_locked): only the current user, or the one the worker   *)
(* is about to leave, is registered without work.                          *)
WaitingUsersHaveWork ==
    \A u \in Registered \ {current, previous} :
        queue[u] # {} \/ \E t \in Submitters : Adding(t, u)

(* BOOST_ASSERT(queue.size() > 0) in retrieve_work holds although the size *)
(* was read without the user's mutex.                                      *)
PoppedQueueHasWork ==
    \A u \in Users :
        pc[Worker] = "retrieve_pop" /\ userMutex[u] = Worker => queue[u] # {}

(* retrieve_work does not throw at a worker that saw work: what is_empty() *)
(* answered cannot be taken back before the worker acts on it.             *)
NeverThrows == pc[Worker] # "threw"

(* InputQueue implements WorkStore: no package is lost or handed out twice *)
(* and is_empty() tells the truth about the packages whose add_work has    *)
(* begun.                                                                  *)
Store == INSTANCE WorkStore WITH store <- Stored \union InFlight

StoreSpec == Store!Spec

(* "round-robin balancing" (round-robin-scheduler.h): a user with work in  *)
(* its queue is eventually served, however busy the others are.            *)
EveryUserServed ==
    \A u \in Users :
        queue[u] # {} ~> held # NoPackage /\ UserOf[held] = u
=============================================================================
