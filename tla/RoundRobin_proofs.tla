------------------------- MODULE RoundRobin_proofs -------------------------
(***************************************************************************)
(* Proofs about RoundRobinScheduler, for any number of calls, handlers and *)
(* output threads; and about the sorters that order the packages of the    *)
(* schedulers, for any packages.                                           *)
(***************************************************************************)
EXTENDS RoundRobinScheduler, PackageOrder, FiniteSetTheorems, TLAPS

-----------------------------------------------------------------------------
(* Where a call occurs in a sequence, and how often                        *)

Places(s, c) == {i \in 1..Len(s) : s[i] = c}

Carriers(c) == {t \in OutputThreads : carried[t] = c}

LEMMA PlacesFinite ==
    ASSUME NEW s \in Seq(Calls), NEW c
    PROVE  IsFiniteSet(Places(s, c)) /\ Cardinality(Places(s, c)) \in Nat
<1>1. Len(s) \in Nat
  OBVIOUS
<1>2. IsFiniteSet(1..Len(s))
  BY <1>1, FS_Interval
<1>3. Places(s, c) \in SUBSET (1..Len(s))
  BY DEF Places
<1> QED
  BY <1>2, <1>3, FS_Subset, FS_CardinalityType

(* What is appended occurs once more. *)
LEMMA PlacesAppend ==
    ASSUME NEW s \in Seq(Calls), NEW x \in Calls, NEW c
    PROVE  Cardinality(Places(Append(s, x), c)) =
               Cardinality(Places(s, c)) + IF x = c THEN 1 ELSE 0
<1> DEFINE n == Len(s) + 1
<1>1. n \in Nat /\ Len(Append(s, x)) = n /\ Append(s, x)[n] = x /\ n \notin 1..Len(s)
  OBVIOUS
<1>2. \A i \in 1..Len(s) : Append(s, x)[i] = s[i]
  OBVIOUS
<1>3. \A i : i \in 1..n <=> i \in 1..Len(s) \/ i = n
  BY <1>1
<1> HIDE DEF n
<1>4. CASE x = c
  <2>1. Places(Append(s, x), c) = Places(s, c) \union {n} /\ n \notin Places(s, c)
    BY <1>1, <1>2, <1>3, <1>4 DEF Places
  <2> QED
    BY <1>4, <2>1, PlacesFinite, FS_AddElement
<1>5. CASE x # c
  <2>1. Places(Append(s, x), c) = Places(s, c)
    BY <1>1, <1>2, <1>3, <1>5 DEF Places
  <2> QED
    BY <1>5, <2>1, PlacesFinite
<1> QED
  BY <1>4, <1>5

(* What is taken from the front occurs once less. *)
LEMMA PlacesTail ==
    ASSUME NEW s \in Seq(Calls), s # <<>>, NEW c
    PROVE  Cardinality(Places(s, c)) =
               Cardinality(Places(Tail(s), c)) + IF Head(s) = c THEN 1 ELSE 0
<1> DEFINE r == Tail(s)
           f == [i \in Places(r, c) |-> i + 1]
<1>1. r \in Seq(Calls) /\ Len(r) \in Nat /\ Len(s) = Len(r) + 1 /\ Head(s) = s[1]
  OBVIOUS
<1>2. \A i \in 1..Len(r) : r[i] = s[i + 1]
  OBVIOUS
<1> HIDE DEF r
<1>3. f \in Bijection(Places(r, c), Places(s, c) \ {1})
  <2>1. \A i \in Places(r, c) : i \in Nat /\ i + 1 \in Places(s, c) \ {1}
    BY <1>1, <1>2 DEF Places
  <2>2. \A j \in Places(s, c) \ {1} : j - 1 \in Places(r, c) /\ j = (j - 1) + 1
    BY <1>1, <1>2 DEF Places
  <2>3. f \in [Places(r, c) -> Places(s, c) \ {1}]
    BY <2>1
  <2>4. \A i, j \in Places(r, c) : f[i] = f[j] => i = j
    BY <2>1
  <2>5. \A j \in Places(s, c) \ {1} : \E i \in Places(r, c) : f[i] = j
    BY <2>2
  <2> HIDE DEF f
  <2> QED
    BY <2>3, <2>4, <2>5 DEF Bijection, Injection, Surjection, IsInjective
<1>4. Cardinality(Places(s, c) \ {1}) = Cardinality(Places(r, c))
  BY <1>1, <1>3, PlacesFinite, FS_Bijection DEF ExistsBijection
<1>5. 1 \in Places(s, c) <=> Head(s) = c
  BY <1>1 DEF Places
<1>6. /\ Cardinality(Places(s, c)) \in Nat
      /\ Cardinality(Places(s, c) \ {1}) =
             IF 1 \in Places(s, c) THEN Cardinality(Places(s, c)) - 1
             ELSE Cardinality(Places(s, c))
  BY PlacesFinite, FS_RemoveElement
<1>7. Cardinality(Places(r, c)) \in Nat
  BY <1>1, PlacesFinite
<1>8. CASE Head(s) = c
  BY <1>4, <1>5, <1>6, <1>7, <1>8 DEF r
<1>9. CASE Head(s) # c
  BY <1>4, <1>5, <1>6, <1>7, <1>9 DEF r
<1> QED
  BY <1>8, <1>9

-----------------------------------------------------------------------------
(* What became of a call's package *)
Outcomes == {"none", "accepted", "result", "exception"}

SchedulerTypes ==
    /\ input \subseteq Calls
    /\ held \in IF wpc \in {"busy", "work"} THEN Calls ELSE {NoPackage}
    /\ outcome \in [Calls -> Outcomes]
    /\ DOMAIN cpc = Calls
    /\ output \in Seq(Calls) /\ sent \in Seq(Calls) /\ pushed \in Seq(Calls)
    /\ DOMAIN opc = OutputThreads
    /\ carried \in [OutputThreads -> Calls \union {NoPackage}]

(* Until it is submitted a call has no outcome; a package accepted is in   *)
(* the queue or held, and not both.                                        *)
AcceptedOnce ==
    /\ \A c \in Calls : cpc[c] \in {"away", "verify", "add"} => outcome[c] = "none"
    /\ \A c \in Calls : outcome[c] = "accepted" <=> c \in input \/ c = held
    /\ held \notin input

(* An output thread carries a result from retrieval to commit.             *)
CarriersCommit ==
    \A t \in OutputThreads : carried[t] \in Calls <=> opc[t] = "commit"

(* Only results are pushed. *)
PushedAreResults == \A i \in DOMAIN pushed : outcome[pushed[i]] = "result"

(* The inductive invariant *)
IInv ==
    SchedulerTypes /\ AcceptedOnce /\ CarriersCommit /\ PushedAreResults /\ ResultsAccountedFor

(* ResultsAccountedFor, by its parts *)
Accounted(c) ==
    Cardinality(Places(output, c)) + Cardinality(Carriers(c)) + Cardinality(Places(sent, c))
        = IF outcome[c] = "result" THEN 1 ELSE 0

LEMMA AccountOfParts ==
    /\ ResultsAccountedFor <=> \A c \in Calls : Accounted(c)
    /\ ResultsAccountedFor' <=> \A c \in Calls : Accounted(c)'
  BY DEF ResultsAccountedFor, Accounted, Places, Carriers

LEMMA CarriersFinite ==
    ASSUME NEW c
    PROVE  IsFiniteSet(Carriers(c)) /\ Cardinality(Carriers(c)) \in Nat
<1>1. Carriers(c) \in SUBSET OutputThreads
  BY DEF Carriers
<1> QED
  BY <1>1, SchedulerAssumption, FS_Subset, FS_CardinalityType DEF SchedulerAssumption

LEMMA InitHolds == Init => IInv
<1> SUFFICES ASSUME Init PROVE IInv
  OBVIOUS
<1>1. SchedulerTypes
  BY DEF Init, W!Init, O!OutputInit, SchedulerTypes, Outcomes
<1>2. AcceptedOnce
  BY SchedulerAssumption DEF Init, W!Init, AcceptedOnce, SchedulerAssumption
<1>3. CarriersCommit /\ PushedAreResults
  BY SchedulerAssumption
     DEF Init, O!OutputInit, CarriersCommit, PushedAreResults, SchedulerAssumption
<1>4. ASSUME NEW c \in Calls PROVE Accounted(c)
  <2>1. Places(output, c) = {} /\ Carriers(c) = {} /\ Places(sent, c) = {}
    BY SchedulerAssumption DEF Init, O!OutputInit, Places, Carriers, SchedulerAssumption
  <2> QED
    BY <2>1, FS_EmptySet DEF Init, W!Init, Accounted
<1> QED
  BY <1>1, <1>2, <1>3, <1>4, AccountOfParts DEF IInv

(* What a step has to leave alone for the results to be accounted for      *)
Results == <<output, carried, sent, pushed, opc>>

(* A step of a call, the worker thread or the destructor that touches no   *)
(* result.                                                                 *)
LEMMA ResultsStay ==
    ASSUME IInv, UNCHANGED <<output, carried, sent, pushed>>, outcome' \in [Calls -> Outcomes],
           \A c \in Calls : outcome'[c] = "result" <=> outcome[c] = "result"
    PROVE  PushedAreResults' /\ ResultsAccountedFor'
<1>1. \A i \in DOMAIN pushed : pushed[i] \in Calls
  BY DEF IInv, SchedulerTypes
<1>2. PushedAreResults'
  BY <1>1 DEF IInv, PushedAreResults
<1>3. ASSUME NEW c \in Calls PROVE Accounted(c)'
  <2>1. Accounted(c)
    BY AccountOfParts DEF IInv
  <2>2. /\ Places(output, c)' = Places(output, c) /\ Carriers(c)' = Carriers(c)
        /\ Places(sent, c)' = Places(sent, c)
    BY DEF Places, Carriers
  <2> QED
    BY <2>1, <2>2 DEF Accounted
<1>4. ResultsAccountedFor'
  BY <1>3, AccountOfParts
<1> QED
  BY <1>2, <1>4

(* A step of an output thread, or of the destructor, that neither takes    *)
(* nor commits a result.                                                   *)
LEMMA OutputIdles ==
    ASSUME IInv, UNCHANGED <<workerVars, callVars, output, carried, sent, pushed>>,
           DOMAIN opc' = OutputThreads,
           \A t \in OutputThreads : opc'[t] = "commit" <=> opc[t] = "commit"
    PROVE  IInv'
<1>1. SchedulerTypes' /\ AcceptedOnce' /\ CarriersCommit'
  BY DEF IInv, SchedulerTypes, AcceptedOnce, CarriersCommit, workerVars, callVars
<1>2. PushedAreResults' /\ ResultsAccountedFor'
  BY ResultsStay DEF IInv, SchedulerTypes, workerVars
<1> QED
  BY <1>1, <1>2 DEF IInv

(* A step of the worker thread, or of others on its variables, that        *)
(* touches no package.                                                     *)
LEMMA WorkerIdles ==
    ASSUME IInv, OnlyWorker, UNCHANGED <<input, held, outcome>>,
           (wpc \in {"busy", "work"}) <=> (wpc' \in {"busy", "work"})
    PROVE  IInv'
<1>1. SchedulerTypes' /\ AcceptedOnce' /\ CarriersCommit'
  BY DEF IInv, SchedulerTypes, AcceptedOnce, CarriersCommit, OnlyWorker, outputVars, callVars
<1>2. PushedAreResults' /\ ResultsAccountedFor'
  BY ResultsStay DEF IInv, SchedulerTypes, OnlyWorker, outputVars
<1> QED
  BY <1>1, <1>2 DEF IInv

(* A step of a call that touches no package *)
LEMMA CallMoves ==
    ASSUME IInv, NEW c \in Calls, NEW pc, CallGoto(c, pc), OnlyCalls,
           pc \in {"away", "verify", "add"} => cpc[c] \in {"away", "verify", "add"}
    PROVE  IInv'
<1>1. SchedulerTypes' /\ AcceptedOnce' /\ CarriersCommit'
  BY DEF IInv, SchedulerTypes, AcceptedOnce, CarriersCommit, OnlyCalls, outputVars, workerVars,
         CallGoto
<1>2. PushedAreResults' /\ ResultsAccountedFor'
  BY ResultsStay DEF IInv, SchedulerTypes, OnlyCalls, outputVars, workerVars
<1> QED
  BY <1>1, <1>2 DEF IInv

(* What a handler does *)
LEMMA HandlerStep ==
    ASSUME IInv, NEW c \in Calls, Call(c) \/ Handler(c)
    PROVE  IInv'
<1>1. CASE Call(c)
  BY <1>1, CallMoves DEF Call
<1>2. CASE VerifyUser(c)
  <2>1. PICK pc \in {"refused", "add"} : CallGoto(c, pc)
    BY <1>2 DEF VerifyUser
  <2> QED
    BY <1>2, <2>1, CallMoves DEF VerifyUser
<1>3. CASE AddWork(c)
  <2>1. /\ cpc[c] = "add" /\ outcome[c] = "none"
        /\ outcome' = [outcome EXCEPT ![c] = "accepted"]
        /\ input' = input \union {c} /\ cpc' = [cpc EXCEPT ![c] = "notify"]
        /\ UNCHANGED <<held, wpc, output, sent, pushed, opc, carried>>
    BY <1>3 DEF AddWork, W!AddWork, IInv, AcceptedOnce, CallGoto, outputVars
  <2>2. SchedulerTypes' /\ CarriersCommit'
    BY <2>1 DEF IInv, SchedulerTypes, CarriersCommit, Outcomes
  <2>3. c \notin input /\ c # held
    BY <2>1 DEF IInv, AcceptedOnce
  <2>4. AcceptedOnce'
    BY <2>1, <2>3 DEF IInv, SchedulerTypes, AcceptedOnce
  <2>5. \A d \in Calls : outcome'[d] = "result" <=> outcome[d] = "result"
    BY <2>1 DEF IInv, SchedulerTypes
  <2>6. PushedAreResults' /\ ResultsAccountedFor'
    BY <2>1, <2>2, <2>5, ResultsStay DEF SchedulerTypes
  <2> QED
    BY <2>2, <2>4, <2>6 DEF IInv
<1>4. CASE NotifyWorker(c)
  <2>1. /\ UNCHANGED <<input, held, outcome, output, sent, pushed, opc, carried>>
        /\ cpc' = [cpc EXCEPT ![c] = "submitted"]
        /\ (wpc \in {"busy", "work"}) <=> (wpc' \in {"busy", "work"})
    BY <1>4 DEF NotifyWorker, W!Notify, W!Signal, CallGoto, outputVars
  <2>2. SchedulerTypes' /\ AcceptedOnce' /\ CarriersCommit'
    BY <2>1 DEF IInv, SchedulerTypes, AcceptedOnce, CarriersCommit
  <2>3. PushedAreResults' /\ ResultsAccountedFor'
    BY <2>1, ResultsStay DEF IInv, SchedulerTypes
  <2> QED
    BY <2>2, <2>3 DEF IInv
<1>5. CASE UseAfterReset(c)
  BY <1>5, CallMoves DEF UseAfterReset
<1> QED
  BY <1>1, <1>2, <1>3, <1>4, <1>5 DEF Handler

(* A result is appended to the output queue. *)
LEMMA WorkerPushesStep ==
    ASSUME IInv, WorkerPushes
    PROVE  IInv'
<1>1. PICK p : p = held
  OBVIOUS
<1>2. /\ p \in Calls /\ outcome[p] = "accepted" /\ wpc' = "loop" /\ held' = NoPackage
      /\ outcome' = [outcome EXCEPT ![p] = "result"] /\ p \notin input
      /\ output' = Append(output, p) /\ pushed' = Append(pushed, p)
      /\ UNCHANGED <<input, sent, carried, opc, cpc>>
  BY <1>1 DEF WorkerPushes, W!WorkReturns, W!Goto, O!PushBack, O!threadVars, callVars, IInv,
              SchedulerTypes, AcceptedOnce
<1>3. SchedulerTypes' /\ CarriersCommit'
  <2>1. output' \in Seq(Calls) /\ pushed' \in Seq(Calls)
    BY <1>2 DEF IInv, SchedulerTypes
  <2>2. outcome' \in [Calls -> Outcomes]
    BY <1>2 DEF IInv, SchedulerTypes, Outcomes
  <2> QED
    BY <1>2, <2>1, <2>2 DEF IInv, SchedulerTypes, CarriersCommit
<1>4. AcceptedOnce'
  BY <1>1, <1>2, SchedulerAssumption DEF IInv, SchedulerTypes, AcceptedOnce, SchedulerAssumption
<1>5. PushedAreResults'
  <2>1. /\ pushed \in Seq(Calls) /\ PushedAreResults /\ outcome \in [Calls -> Outcomes]
        /\ \A i \in DOMAIN pushed : pushed[i] \in Calls
    BY DEF IInv, SchedulerTypes
  <2>2. \A i \in DOMAIN pushed' : (i \in DOMAIN pushed /\ pushed'[i] = pushed[i]) \/ pushed'[i] = p
    BY <1>2, <2>1
  <2> QED
    BY <1>2, <2>1, <2>2 DEF PushedAreResults
<1>6. ASSUME NEW c \in Calls PROVE Accounted(c)'
  <2>1. /\ Accounted(c) /\ output \in Seq(Calls) /\ sent \in Seq(Calls)
        /\ outcome \in [Calls -> Outcomes]
    BY AccountOfParts DEF IInv, SchedulerTypes
  <2>2. Carriers(c)' = Carriers(c) /\ Places(sent, c)' = Places(sent, c)
    BY <1>2 DEF Carriers, Places
  <2>3. /\ Cardinality(Places(output, c)') =
             Cardinality(Places(output, c)) + IF p = c THEN 1 ELSE 0
    BY <1>2, <2>1, PlacesAppend
  <2>4. /\ Cardinality(Places(output, c)) \in Nat /\ Cardinality(Carriers(c)) \in Nat
        /\ Cardinality(Places(sent, c)) \in Nat
    BY <2>1, PlacesFinite, CarriersFinite
  <2>5. CASE p = c
    BY <1>2, <2>1, <2>2, <2>3, <2>4, <2>5 DEF Accounted
  <2>6. CASE p # c
    BY <1>2, <2>1, <2>2, <2>3, <2>4, <2>6 DEF Accounted
  <2> QED
    BY <2>5, <2>6
<1> QED
  BY <1>3, <1>4, <1>5, <1>6, AccountOfParts DEF IInv

(* What the worker thread does on its own *)
LEMMA WorkerStepsKeep ==
    ASSUME IInv, WorkerSteps
    PROVE  IInv'
<1>1. OnlyWorker
  BY DEF WorkerSteps
<1>2. CASE \/ W!Begin \/ W!LoopHead \/ W!Release \/ W!CheckInput \/ W!EvaluatePredicate
           \/ W!Block \/ W!WaitTimesOut \/ W!Relock \/ W!Awake \/ W!SetUp \/ W!SetBusy
           \/ W!Recover \/ W!Exit
  <2>1. UNCHANGED <<input, held, outcome>>
    BY <1>2 DEF W!Begin, W!LoopHead, W!Release, W!CheckInput, W!EvaluatePredicate, W!Block,
         W!WaitTimesOut, W!Relock, W!Awake, W!SetUp, W!SetBusy, W!Recover, W!Exit, W!queueVars
  <2>2. (wpc \in {"busy", "work"}) <=> (wpc' \in {"busy", "work"})
    BY <1>2 DEF W!Begin, W!LoopHead, W!Release, W!CheckInput, W!EvaluatePredicate, W!Block,
         W!WaitTimesOut, W!Relock, W!Awake, W!SetUp, W!SetBusy, W!Recover, W!Exit, W!Goto
  <2> QED
    BY <1>1, <2>1, <2>2, WorkerIdles
<1>3. ASSUME NEW p \in Calls, W!RetrieveWork(p) PROVE IInv'
  <2>1. /\ p \in input /\ input' = input \ {p} /\ held' = p /\ wpc = "retrieve" /\ wpc' = "busy"
        /\ UNCHANGED <<outcome, output, sent, pushed, carried, opc, cpc>>
    BY <1>1, <1>3 DEF W!RetrieveWork, W!Goto, OnlyWorker, outputVars, callVars
  <2>2. held = NoPackage
    BY <2>1 DEF IInv, SchedulerTypes
  <2>3. SchedulerTypes' /\ CarriersCommit'
    BY <2>1 DEF IInv, SchedulerTypes, CarriersCommit
  <2>4. AcceptedOnce'
    BY <2>1, <2>2, SchedulerAssumption DEF IInv, AcceptedOnce, SchedulerAssumption
  <2>5. PushedAreResults' /\ ResultsAccountedFor'
    BY <2>1, ResultsStay DEF IInv, SchedulerTypes
  <2> QED
    BY <2>3, <2>4, <2>5 DEF IInv
<1>4. CASE W!WorkThrows
  <2>1. PICK p : p = held
    OBVIOUS
  <2>2. /\ p \in Calls /\ outcome[p] = "accepted" /\ p \notin input /\ wpc' = "recover"
        /\ held' = NoPackage
        /\ outcome' = [outcome EXCEPT ![p] = "exception"]
        /\ UNCHANGED <<input, output, sent, pushed, carried, opc, cpc>>
    BY <1>1, <1>4, <2>1 DEF W!WorkThrows, W!Goto, OnlyWorker, outputVars, callVars, IInv,
                            SchedulerTypes, AcceptedOnce
  <2>3. SchedulerTypes' /\ CarriersCommit'
    BY <2>2 DEF IInv, SchedulerTypes, CarriersCommit, Outcomes
  <2>4. AcceptedOnce'
    BY <2>1, <2>2, SchedulerAssumption DEF IInv, SchedulerTypes, AcceptedOnce, SchedulerAssumption
  <2>5. \A c \in Calls : outcome'[c] = "result" <=> outcome[c] = "result"
    BY <2>2 DEF IInv, SchedulerTypes
  <2>6. PushedAreResults' /\ ResultsAccountedFor'
    BY <2>2, <2>3, <2>5, ResultsStay DEF SchedulerTypes
  <2> QED
    BY <2>3, <2>4, <2>6 DEF IInv
<1> QED
  BY <1>2, <1>3, <1>4 DEF WorkerSteps, W!MainThreadAlone

(* An output thread takes the oldest result. *)
LEMMA RetrieveStep ==
    ASSUME IInv, NEW t \in OutputThreads, O!OutputRetrieve(t), OnlyOutput
    PROVE  IInv'
<1>1. PICK p : p = Head(output)
  OBVIOUS
<1>2. /\ output \in Seq(Calls) /\ output # <<>> /\ output' = Tail(output) /\ p \in Calls
      /\ opc[t] = "predicate" /\ opc' = [opc EXCEPT ![t] = "commit"]
      /\ carried' = [carried EXCEPT ![t] = p]
      /\ UNCHANGED <<input, held, outcome, wpc, cpc, sent, pushed>>
  BY <1>1 DEF O!OutputRetrieve, O!OutputGoto, O!historyVars, OnlyOutput, workerVars, callVars,
              IInv, SchedulerTypes
<1>3. carried[t] = NoPackage
  BY <1>2 DEF IInv, SchedulerTypes, CarriersCommit
<1>4. SchedulerTypes'
  <2>1. output' \in Seq(Calls)
    BY <1>2
  <2> QED
    BY <1>2, <2>1 DEF IInv, SchedulerTypes
<1>5. AcceptedOnce' /\ CarriersCommit' /\ PushedAreResults'
  BY <1>2 DEF IInv, SchedulerTypes, AcceptedOnce, CarriersCommit, PushedAreResults
<1>6. ASSUME NEW c \in Calls PROVE Accounted(c)'
  <2>1. Accounted(c) /\ sent \in Seq(Calls) /\ output' \in Seq(Calls)
    BY <1>4, AccountOfParts DEF IInv, SchedulerTypes
  <2>2. Places(sent, c)' = Places(sent, c)
    BY <1>2 DEF Places
  <2>3. Cardinality(Places(output, c)) =
            Cardinality(Places(output, c)') + IF p = c THEN 1 ELSE 0
    BY <1>1, <1>2, PlacesTail
  <2>4. /\ Cardinality(Places(output, c)') \in Nat /\ Cardinality(Carriers(c)) \in Nat
        /\ Cardinality(Places(sent, c)) \in Nat
    BY <2>1, PlacesFinite, CarriersFinite
  <2>5. CASE p = c
    <3>1. Carriers(c)' = Carriers(c) \union {t} /\ t \notin Carriers(c)
      BY <1>2, <1>3, <2>5, SchedulerAssumption
         DEF Carriers, IInv, SchedulerTypes, SchedulerAssumption
    <3>2. Cardinality(Carriers(c)') = Cardinality(Carriers(c)) + 1
      BY <3>1, CarriersFinite, FS_AddElement
    <3> QED
      BY <1>2, <2>1, <2>2, <2>3, <2>4, <2>5, <3>2 DEF Accounted
  <2>6. CASE p # c
    <3>1. Carriers(c)' = Carriers(c)
      BY <1>2, <1>3, <2>6, SchedulerAssumption
         DEF Carriers, IInv, SchedulerTypes, SchedulerAssumption
    <3> QED
      BY <1>2, <2>1, <2>2, <2>3, <2>4, <2>6, <3>1 DEF Accounted
  <2> QED
    BY <2>5, <2>6
<1> QED
  BY <1>4, <1>5, <1>6, AccountOfParts DEF IInv

(* ... and commits it. *)
LEMMA CommitStep ==
    ASSUME IInv, NEW t \in OutputThreads, O!OutputCommit(t), OnlyOutput
    PROVE  IInv'
<1>1. PICK p : p = carried[t]
  OBVIOUS
<1>2. /\ sent \in Seq(Calls) /\ sent' = Append(sent, p) /\ p \in Calls
      /\ opc[t] = "commit" /\ opc' = [opc EXCEPT ![t] = "enter"]
      /\ carried' = [carried EXCEPT ![t] = NoPackage]
      /\ UNCHANGED <<input, held, outcome, wpc, cpc, output, pushed>>
  BY <1>1 DEF O!OutputCommit, O!OutputGoto, OnlyOutput, workerVars, callVars,
              IInv, SchedulerTypes, CarriersCommit
<1>3. SchedulerTypes'
  <2>1. sent' \in Seq(Calls)
    BY <1>2
  <2> QED
    BY <1>2, <2>1 DEF IInv, SchedulerTypes
<1>4. AcceptedOnce' /\ CarriersCommit' /\ PushedAreResults'
  BY <1>2, SchedulerAssumption
     DEF IInv, SchedulerTypes, AcceptedOnce, CarriersCommit, PushedAreResults, SchedulerAssumption
<1>5. ASSUME NEW c \in Calls PROVE Accounted(c)'
  <2>1. Accounted(c) /\ output \in Seq(Calls)
    BY AccountOfParts DEF IInv, SchedulerTypes
  <2>2. Places(output, c)' = Places(output, c)
    BY <1>2 DEF Places
  <2>3. Cardinality(Places(sent, c)') = Cardinality(Places(sent, c)) + IF p = c THEN 1 ELSE 0
    BY <1>1, <1>2, PlacesAppend
  <2>4. /\ Cardinality(Places(output, c)) \in Nat /\ Cardinality(Carriers(c)) \in Nat
        /\ Cardinality(Places(sent, c)) \in Nat
    BY <1>2, <2>1, PlacesFinite, CarriersFinite
  <2>5. CASE p = c
    <3>1. Carriers(c)' = Carriers(c) \ {t} /\ t \in Carriers(c)
      BY <1>1, <1>2, <2>5, SchedulerAssumption
         DEF Carriers, IInv, SchedulerTypes, SchedulerAssumption
    <3>2. Cardinality(Carriers(c)') = Cardinality(Carriers(c)) - 1
      BY <3>1, CarriersFinite, FS_RemoveElement
    <3> QED
      BY <1>2, <2>1, <2>2, <2>3, <2>4, <2>5, <3>2 DEF Accounted
  <2>6. CASE p # c
    <3>1. Carriers(c)' = Carriers(c)
      BY <1>1, <1>2, <2>6, SchedulerAssumption
         DEF Carriers, IInv, SchedulerTypes, SchedulerAssumption
    <3> QED
      BY <1>2, <2>1, <2>2, <2>3, <2>4, <2>6, <3>1 DEF Accounted
  <2> QED
    BY <2>5, <2>6
<1> QED
  BY <1>3, <1>4, <1>5, AccountOfParts DEF IInv

(* The other steps of an output thread *)
LEMMA OutputThreadStep ==
    ASSUME IInv, NEW t \in OutputThreads, O!OutputThread(t) \/ O!OutputWakeSpuriously(t),
           OnlyOutput
    PROVE  IInv'
<1>1. CASE \/ O!OutputBegin(t) \/ O!OutputLock(t) \/ O!OutputSleep(t) \/ O!OutputBlock(t)
           \/ O!OutputEnd(t) \/ O!OutputWakeSpuriously(t)
  <2>1. UNCHANGED <<workerVars, callVars, output, carried, sent, pushed>>
    BY <1>1 DEF O!OutputBegin, O!OutputLock, O!OutputSleep, O!OutputBlock, O!OutputEnd,
                O!OutputWakeSpuriously, O!historyVars, OnlyOutput
  <2>2. PICK to \in {"enter", "predicate", "block", "waiting", "ended"} :
            opc[t] # "commit" /\ opc' = [opc EXCEPT ![t] = to]
    <3> USE DEF O!OutputGoto
    <3>1. CASE O!OutputBegin(t) \/ O!OutputWakeSpuriously(t)
      BY <3>1 DEF O!OutputBegin, O!OutputWakeSpuriously
    <3>2. CASE O!OutputLock(t)
      BY <3>2 DEF O!OutputLock
    <3>3. CASE O!OutputSleep(t)
      BY <3>3 DEF O!OutputSleep
    <3>4. CASE O!OutputBlock(t)
      BY <3>4 DEF O!OutputBlock
    <3>5. CASE O!OutputEnd(t)
      BY <3>5 DEF O!OutputEnd
    <3> QED
      BY <1>1, <3>1, <3>2, <3>3, <3>4, <3>5
  <2>3. /\ DOMAIN opc' = OutputThreads
        /\ \A u \in OutputThreads : opc'[u] = "commit" <=> opc[u] = "commit"
    BY <2>2 DEF IInv, SchedulerTypes
  <2> QED
    BY <2>1, <2>3, OutputIdles
<1> QED
  BY <1>1, RetrieveStep, CommitStep DEF O!OutputThread

(* Threads are woken, and the rest of the output queue's steps. *)
LEMMA WakeStep ==
    ASSUME IInv, UNCHANGED <<workerVars, callVars, output, carried, sent, pushed>>,
           O!WakeAll \/ opc' = opc
    PROVE  IInv'
<1>1. /\ DOMAIN opc' = OutputThreads
      /\ \A u \in OutputThreads : opc'[u] = "commit" <=> opc[u] = "commit"
  BY DEF IInv, SchedulerTypes, O!WakeAll
<1> QED
  BY <1>1, OutputIdles

(* A step of the worker's variables other than main_thread's *)
LEMMA WorkerTouched ==
    ASSUME IInv, OnlyWorker,
           W!Start \/ W!WakeSpuriously \/ W!IdleTimePasses \/ W!ResetLastIdle \/ W!StopNotify
    PROVE  IInv'
<1>1. UNCHANGED <<input, held, outcome>>
  BY DEF W!Start, W!WakeSpuriously, W!IdleTimePasses, W!ResetLastIdle, W!StopNotify, W!queueVars
<1>2. (wpc \in {"busy", "work"}) <=> (wpc' \in {"busy", "work"})
  BY DEF W!Start, W!WakeSpuriously, W!IdleTimePasses, W!ResetLastIdle, W!StopNotify, W!Goto,
         W!Signal
<1> QED
  BY <1>1, <1>2, WorkerIdles

(* A step of the destructor on its own place, or of the owner              *)
LEMMA NothingTouched ==
    ASSUME IInv, UNCHANGED <<input, held, outcome, wpc, cpc, outputVars>>
    PROVE  IInv'
<1>1. SchedulerTypes' /\ AcceptedOnce' /\ CarriersCommit'
  BY DEF IInv, SchedulerTypes, AcceptedOnce, CarriersCommit, outputVars
<1>2. PushedAreResults' /\ ResultsAccountedFor'
  BY ResultsStay DEF IInv, SchedulerTypes, outputVars
<1> QED
  BY <1>1, <1>2 DEF IInv

LEMMA NextKeeps == IInv /\ [Next]_vars => IInv'
<1> SUFFICES ASSUME IInv, [Next]_vars PROVE IInv'
  OBVIOUS
<1>1. CASE StartWorker
  BY <1>1, WorkerTouched DEF StartWorker
<1>2. CASE StartServer \/ WaitUntilIdle
  <2>1. UNCHANGED <<input, held, outcome, wpc, cpc, outputVars>>
    BY <1>2 DEF StartServer, WaitUntilIdle, OnlyCalls, OnlyIdle, workerVars, callVars
  <2> QED
    BY <2>1, NothingTouched
<1>3. ASSUME NEW c \in Calls, Call(c) \/ Handler(c) PROVE IInv'
  BY <1>3, HandlerStep
<1>4. CASE WorkerThread
  <2>1. CASE WorkerNotifies
    <3>1. UNCHANGED <<workerVars, callVars, output, carried, sent, pushed>> /\ O!WakeAll
      BY <2>1 DEF WorkerNotifies, O!NotifyPushed, O!historyVars, OnlyOutput
    <3> QED
      BY <3>1, WakeStep
  <2> QED
    BY <1>4, <2>1, WorkerPushesStep, WorkerStepsKeep DEF WorkerThread
<1>5. ASSUME NEW t \in OutputThreads, OutputThread(t) PROVE IInv'
  BY <1>5, OutputThreadStep DEF OutputThread
<1>6. CASE IdleThread
  <2>1. UNCHANGED <<input, held, outcome, wpc, cpc, outputVars>>
    BY <1>6 DEF IdleThread, OnlyIdle, workerVars, callVars
  <2> QED
    BY <2>1, NothingTouched
<1>7. CASE Environment
  <2>1. CASE (W!WakeSpuriously \/ W!IdleTimePasses \/ W!ResetLastIdle) /\ OnlyWorker
    BY <2>1, WorkerTouched
  <2>2. ASSUME NEW t \in OutputThreads, O!OutputWakeSpuriously(t), OnlyOutput PROVE IInv'
    BY <2>2, OutputThreadStep
  <2>3. CASE I!IdleWake /\ OnlyIdle
    <3>1. UNCHANGED <<input, held, outcome, wpc, cpc, outputVars>>
      BY <2>3 DEF OnlyIdle, workerVars, callVars
    <3> QED
      BY <3>1, NothingTouched
  <2> QED
    BY <1>7, <2>1, <2>2, <2>3 DEF Environment
<1>8. CASE DestroyIdleTimeout \/ DestroyInputQueue \/ DestroyServer \/ DestroyWorkerThread
  <2>1. UNCHANGED <<input, held, outcome, wpc, cpc, outputVars>>
    BY <1>8 DEF DestroyIdleTimeout, DestroyInputQueue, DestroyServer, DestroyWorkerThread,
         W!RequestStop, W!queueVars, OnlyCalls, workerVars
  <2> QED
    BY <2>1, NothingTouched
<1>9. CASE DestroyOutputQueue
  <2>1. UNCHANGED <<input, held, outcome, wpc, cpc, output, carried, sent, pushed, opc>>
    BY <1>9 DEF DestroyOutputQueue, O!OutputDestroy, O!threadVars, O!historyVars, workerVars
  <2>2. SchedulerTypes' /\ AcceptedOnce' /\ CarriersCommit'
    BY <2>1 DEF IInv, SchedulerTypes, AcceptedOnce, CarriersCommit
  <2>3. PushedAreResults' /\ ResultsAccountedFor'
    BY <2>1, ResultsStay DEF IInv, SchedulerTypes
  <2> QED
    BY <2>2, <2>3 DEF IInv
<1>10. CASE DestructorLoops
  <2>1. CASE (I!IdleStopNotify \/ I!IdleDestroyed) /\ OnlyIdle
    <3>1. UNCHANGED <<input, held, outcome, wpc, cpc, outputVars>>
      BY <2>1 DEF OnlyIdle, workerVars, callVars
    <3> QED
      BY <3>1, NothingTouched
  <2>2. CASE W!StopNotify /\ OnlyWorker
    BY <2>2, WorkerTouched
  <2>3. CASE O!OutputDestructor /\ OnlyOutput
    <3>1. /\ UNCHANGED <<workerVars, callVars, output, carried, sent, pushed>>
          /\ O!WakeAll \/ opc' = opc
      BY <2>3 DEF O!OutputDestructor, O!OutputStopNotify, O!OutputLeaveLoop, O!OutputJoin,
                  O!threadVars, O!historyVars, OnlyOutput
    <3> QED
      BY <3>1, WakeStep
  <2> QED
    BY <1>10, <2>1, <2>2, <2>3 DEF DestructorLoops
<1>11. CASE UNCHANGED vars
  <2>1. UNCHANGED <<input, held, outcome, wpc, cpc, outputVars>>
    BY <1>11 DEF vars, workerVars, callVars
  <2> QED
    BY <2>1, NothingTouched
<1> QED
  BY <1>1, <1>2, <1>3, <1>4, <1>5, <1>6, <1>7, <1>8, <1>9, <1>10, <1>11 DEF Next, Destructor

(* The inductive invariant holds in every reachable state. *)
THEOREM Invariant == Spec => []IInv
<1>1. Init => IInv
  BY InitHolds
<1>2. IInv /\ [Next]_vars => IInv'
  BY NextKeeps
<1> QED
  BY <1>1, <1>2, PTL DEF Spec

(* Whatever the numbers of calls, handlers and output threads, and also    *)
(* during a shutdown: each result the worker thread made is in the output  *)
(* queue, with one output thread, or sent, and in one place only           *)
(* (worker-thread.tcc:146-160, output-queue.tcc:55-82).                    *)
THEOREM ResultsAreAccountedFor == Spec => []ResultsAccountedFor
<1>1. IInv => ResultsAccountedFor
  BY DEF IInv
<1> QED
  BY <1>1, Invariant, PTL

-----------------------------------------------------------------------------
(* The parts are used as their modules say. *)

LEMMA WorkerInit == Init => W!Init
  BY DEF Init

LEMMA WorkerNext == [Next]_vars => [W!Next]_(W!vars)
<1> SUFFICES ASSUME [Next]_vars PROVE W!Next \/ UNCHANGED W!vars
  BY DEF W!vars
<1> USE DEF W!vars, W!queueVars, W!workerVars, workerVars
<1>1. CASE StartWorker
  BY <1>1 DEF StartWorker, W!Next
<1>2. CASE StartServer \/ WaitUntilIdle
  BY <1>2 DEF StartServer, WaitUntilIdle, OnlyCalls, OnlyIdle
<1>3. ASSUME NEW c \in Calls, Call(c) \/ Handler(c) PROVE W!Next \/ UNCHANGED W!vars
  <2>1. CASE AddWork(c)
    BY <2>1 DEF AddWork, W!Next, W!Submitter
  <2>2. CASE NotifyWorker(c)
    BY <2>2 DEF NotifyWorker, W!Next, W!Submitter
  <2>3. CASE Call(c) \/ VerifyUser(c) \/ UseAfterReset(c)
    BY <2>3 DEF Call, VerifyUser, UseAfterReset, OnlyCalls
  <2> QED
    BY <1>3, <2>1, <2>2, <2>3 DEF Handler
<1>4. CASE WorkerThread
  BY <1>4 DEF WorkerThread, WorkerPushes, WorkerNotifies, WorkerSteps, OnlyOutput, W!Next,
       W!MainThread
<1>5. ASSUME NEW t \in OutputThreads, OutputThread(t) PROVE UNCHANGED W!vars
  BY <1>5 DEF OutputThread, OnlyOutput
<1>6. CASE IdleThread
  BY <1>6 DEF IdleThread, OnlyIdle
<1>7. CASE Environment
  BY <1>7 DEF Environment, OnlyOutput, OnlyIdle, W!Next
<1>8. CASE DestroyIdleTimeout \/ DestroyOutputQueue \/ DestroyInputQueue \/ DestroyServer
  BY <1>8 DEF DestroyIdleTimeout, DestroyOutputQueue, DestroyInputQueue, DestroyServer, OnlyCalls
<1>9. CASE DestroyWorkerThread
  BY <1>9 DEF DestroyWorkerThread, W!Next
<1>10. CASE DestructorLoops
  BY <1>10 DEF DestructorLoops, OnlyOutput, OnlyIdle, W!Next
<1>11. CASE UNCHANGED vars
  BY <1>11 DEF vars
<1> QED
  BY <1>1, <1>2, <1>3, <1>4, <1>5, <1>6, <1>7, <1>8, <1>9, <1>10, <1>11 DEF Next, Destructor

(* In the scheduler the worker thread does what WorkerThread describes:    *)
(* what is proved of that module holds of it (round-robin-scheduler.tcc).  *)
THEOREM WorkerAsSpecified == Spec => W!Spec
  BY WorkerInit, WorkerNext, PTL DEF Spec, W!Spec

LEMMA OutputNext == IInv /\ [Next]_vars => [O!OutputNext]_(O!outputVars)
<1> SUFFICES ASSUME IInv, [Next]_vars PROVE O!OutputNext \/ UNCHANGED O!outputVars
  BY DEF O!outputVars
<1> USE DEF O!outputVars, O!threadVars, O!historyVars, outputVars
<1>1. CASE StartWorker
  BY <1>1 DEF StartWorker, OnlyWorker
<1>2. CASE StartServer \/ WaitUntilIdle
  BY <1>2 DEF StartServer, WaitUntilIdle, OnlyCalls, OnlyIdle
<1>3. ASSUME NEW c \in Calls, Call(c) \/ Handler(c) PROVE UNCHANGED O!outputVars
  BY <1>3 DEF Call, Handler, VerifyUser, AddWork, NotifyWorker, UseAfterReset, OnlyCalls
<1>4. CASE WorkerThread
  <2>1. CASE WorkerPushes
    <3>1. held \in Calls /\ outcome[held] # "result"
      BY <2>1 DEF WorkerPushes, W!WorkReturns, IInv, SchedulerTypes, AcceptedOnce
    <3>2. held \notin O!Range(pushed)
      BY <3>1 DEF O!Range, IInv, PushedAreResults
    <3> QED
      BY <2>1, <3>1, <3>2 DEF WorkerPushes, O!OutputNext, O!WorkerPushes
  <2>2. CASE WorkerNotifies
    BY <2>2 DEF WorkerNotifies, O!OutputNext
  <2>3. CASE WorkerSteps
    BY <2>3 DEF WorkerSteps, OnlyWorker
  <2> QED
    BY <1>4, <2>1, <2>2, <2>3 DEF WorkerThread
<1>5. ASSUME NEW t \in OutputThreads, OutputThread(t) PROVE O!OutputNext
  BY <1>5 DEF OutputThread, O!OutputNext
<1>6. CASE IdleThread
  BY <1>6 DEF IdleThread, OnlyIdle
<1>7. CASE Environment
  BY <1>7 DEF Environment, OnlyWorker, OnlyIdle, O!OutputNext
<1>8. CASE DestroyIdleTimeout \/ DestroyWorkerThread \/ DestroyInputQueue \/ DestroyServer
  BY <1>8 DEF DestroyIdleTimeout, DestroyWorkerThread, DestroyInputQueue, DestroyServer, OnlyCalls
<1>9. CASE DestroyOutputQueue
  BY <1>9 DEF DestroyOutputQueue, O!OutputNext
<1>10. CASE DestructorLoops
  BY <1>10 DEF DestructorLoops, OnlyWorker, OnlyIdle, O!OutputNext
<1>11. CASE UNCHANGED vars
  BY <1>11 DEF vars
<1> QED
  BY <1>1, <1>2, <1>3, <1>4, <1>5, <1>6, <1>7, <1>8, <1>9, <1>10, <1>11 DEF Next, Destructor

(* In the scheduler the output queue is used as OutputQueue says: no       *)
(* context is pushed twice, and the queue is destroyed only once nobody    *)
(* pushes any more (worker-thread.tcc:146-160, round-robin-scheduler.tcc:  *)
(* 32-49).                                                                 *)
THEOREM OutputAsSpecified == Spec => O!OutputSpec
<1>1. Init => O!OutputInit
  BY DEF Init
<1> QED
  BY <1>1, OutputNext, Invariant, PTL DEF Spec, O!OutputSpec

-----------------------------------------------------------------------------
(* The order of packages.  The sorters are strict weak orders, as the heap *)
(* algorithms require, as long as nobody mixes numbered packages and       *)
(* packages out of order.                                                  *)
-----------------------------------------------------------------------------
(* Every package has a number, or none has. *)
Unmixed == (\A p \in Packages : NumOf[p] \in Nat) \/ (\A p \in Packages : NumOf[p] = OutOfOrder)

(* What std::push_heap and std::pop_heap require of a comparison, and      *)
(* InputQueue of the order Less: asymmetric, incomparability transitive.   *)
StrictWeakOrder(Before(_, _)) ==
    /\ \A p, q \in Packages : Before(p, q) => ~Before(q, p)
    /\ \A p, q, r \in Packages : Before(p, r) => Before(p, q) \/ Before(q, r)

(* Comparing numbers: operator> on numbers of which none or all are there. *)
LEMMA NumbersOrdered ==
    ASSUME OrderAssumption, Unmixed
    PROVE  /\ \A p, q \in Packages :
                 NumGreater(NumOf[p], NumOf[q]) => ~NumGreater(NumOf[q], NumOf[p])
           /\ \A p, q, r \in Packages :
                 NumGreater(NumOf[p], NumOf[r]) =>
                     NumGreater(NumOf[p], NumOf[q]) \/ NumGreater(NumOf[q], NumOf[r])
  BY DEF OrderAssumption, Unmixed, NumGreater, NumLess, IsInOrder

(* SortDescendingBySequenceNum (work-methods.h:325-366) is a strict weak   *)
(* order of unmixed packages: the assumption InputQueue makes.             *)
THEOREM SortDescendingOrders ==
    ASSUME OrderAssumption, Unmixed
    PROVE  StrictWeakOrder(SortDescending)
<1>h. \A p \in Packages : HashOf[SessionOf[p]] \in Nat
  BY DEF OrderAssumption, Sessions
<1>1. ASSUME NEW p \in Packages, NEW q \in Packages, SortDescending(p, q)
      PROVE  ~SortDescending(q, p)
  BY <1>1, <1>h, NumbersOrdered DEF SortDescending
<1>2. ASSUME NEW p \in Packages, NEW q \in Packages, NEW r \in Packages, SortDescending(p, r)
      PROVE  SortDescending(p, q) \/ SortDescending(q, r)
  BY <1>2, <1>h, NumbersOrdered DEF SortDescending
<1> QED
  BY <1>1, <1>2 DEF StrictWeakOrder

(* The sorter of the reinit scheduler (session-storage.tcc:379-398) is one *)
(* for every copy of the sessions' numbers, all of which are there.        *)
THEOREM SortMostCompletedOrders ==
    ASSUME NEW reached \in [Sessions -> Nat], OrderAssumption, Unmixed
    PROVE  /\ \A p, q \in Packages :
                 SortMostCompleted(reached, p, q) => ~SortMostCompleted(reached, q, p)
           /\ \A p, q, r \in Packages :
                 SortMostCompleted(reached, p, r) =>
                     SortMostCompleted(reached, p, q) \/ SortMostCompleted(reached, q, r)
<1>n. \A p \in Packages : reached[SessionOf[p]] \in Nat
  BY DEF Sessions
<1>e. \A m, n \in Nat : (NumEqual(m, n) <=> m = n) /\ (NumLess(m, n) <=> m < n)
  BY DEF OrderAssumption, NumEqual, NumLess, IsInOrder
<1>s. StrictWeakOrder(SortDescending)
  BY SortDescendingOrders
<1>1. ASSUME NEW p \in Packages, NEW q \in Packages, SortMostCompleted(reached, p, q)
      PROVE  ~SortMostCompleted(reached, q, p)
  BY <1>1, <1>n, <1>e, <1>s DEF SortMostCompleted, StrictWeakOrder
<1>2. ASSUME NEW p \in Packages, NEW q \in Packages, NEW r \in Packages,
             SortMostCompleted(reached, p, r)
      PROVE  SortMostCompleted(reached, p, q) \/ SortMostCompleted(reached, q, r)
  BY <1>2, <1>n, <1>e, <1>s DEF SortMostCompleted, StrictWeakOrder
<1> QED
  BY <1>1, <1>2
=============================================================================
