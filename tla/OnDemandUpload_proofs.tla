----------------------- MODULE OnDemandUpload_proofs -----------------------
(***************************************************************************)
(* Proofs about OnDemandUpload, for any number of threads, uploads,        *)
(* failures and errors allowed.                                            *)
(***************************************************************************)
EXTENDS OnDemandUpload, TLAPS

(* A thread that is in its loop *)
Working == Operations \union {"calling", "notified", "uploaded"}

CallType ==
    [op : Operations \union {"none"}, id : 0 .. MaxUploads, data : 0 .. MaxUploads,
     st : {"none", "sent", "open", "granted", "refused"}]

Types ==
    /\ mpc \in {"idle", "prepare", "reset", "clear", "start", "wait", "joining", "gone"}
    /\ held \in 0 .. MaxUploads /\ uid \in 0 .. MaxUploads
    /\ isNotified \in BOOLEAN /\ isUploaded \in BOOLEAN
    /\ current \in Threads \union {NoThread}
    /\ old \subseteq Threads /\ safe \subseteq Threads
    /\ pc \in [Threads -> Labels]
    /\ own \in [Threads -> 0 .. MaxUploads] /\ data \in [Threads -> 0 .. MaxUploads]
    /\ stop \in [Threads -> BOOLEAN] /\ errors \in [Threads -> 0 .. NumErrorsMax]
    /\ call \in [Threads -> CallType]
    /\ astray \subseteq CallType
    /\ "deferred" \in DOMAIN entry
    /\ told \subseteq Operations

(* The user's thread replaces the id after it gave the current thread up. *)
UserKnows ==
    /\ held = IF mpc \in {"prepare", "reset"} THEN uid + 1 ELSE uid
    /\ mpc \in {"reset", "clear", "start"} => current = NoThread

(* The call of t, and who has it *)
CallOK(t) ==
    /\ IF pc[t] = "calling"
         THEN /\ call[t].op \in Operations /\ call[t].st # "none"
              /\ call[t].st \in {"open", "refused"} => call[t].op = "pending"
         ELSE call[t] = NoCall
    /\ call[t].st = "open" <=> entry.deferred = t

(* The ids and data of t; what it runs for is the current upload, or it    *)
(* has been asked to stop.                                                 *)
ThreadOK(t) ==
    /\ own[t] <= uid
    /\ pc[t] = "free" => errors[t] = 0
    /\ pc[t] \in {"begin", "loop"} \union Working => errors[t] < NumErrorsMax
    /\ pc[t] = "begin" => data[t] = uid \/ stop[t]
    /\ pc[t] = "loop" => own[t] = data[t] \/ stop[t]
    /\ pc[t] \in Working => own[t] = data[t]
    /\ pc[t] = "calling" =>
           /\ own[t] <= call[t].id /\ call[t].id <= uid
           /\ call[t].op = "upload" => call[t].data = data[t]

(* What t knows that the server was told, if its id is the current one *)
KnowsTold(t) ==
    own[t] = uid =>
        /\ pc[t] \in {"notified", "pending", "upload", "uploaded"} => "notify" \in told
        /\ pc[t] = "uploaded" => "upload" \in told
        /\ pc[t] = "calling" =>
               /\ call[t].op \in {"pending", "upload"} => "notify" \in told
               /\ call[t].st = "granted" /\ call[t].op # "pending" => call[t].op \in told

(* The inductive invariant *)
IInv ==
    /\ Types
    /\ UserKnows
    /\ OneRunsOn
    /\ SafeAreFinished
    /\ FlagsTellTruth
    /\ \A t \in Threads : CallOK(t)
    /\ \A t \in Threads : ThreadOK(t)
    /\ \A t \in Threads : KnowsTold(t)

-----------------------------------------------------------------------------
(* Initially *)

LEMMA InitOK == Init => IInv
<1> SUFFICES ASSUME Init PROVE IInv
  OBVIOUS
<1> USE UploadAssumption DEF Init
<1>0. entry.deferred = NoConnection /\ "deferred" \in DOMAIN entry
  BY DEF Fresh, RegisterNew, Unknown
<1>1. Types
  <2>1. NumErrorsMax \in Nat /\ 0 \in 0 .. NumErrorsMax /\ 0 \in 0 .. MaxUploads
    BY SMT
  <2>2. NoCall \in CallType
    BY <2>1 DEF NoCall, CallType
  <2> QED BY <1>0, <2>1, <2>2 DEF Types, Labels
<1>2. UserKnows /\ OneRunsOn /\ SafeAreFinished /\ FlagsTellTruth
  BY DEF UserKnows, OneRunsOn, Alive, SafeAreFinished, FlagsTellTruth
<1>3. \A t \in Threads : CallOK(t) /\ ThreadOK(t) /\ KnowsTold(t)
  BY <1>0 DEF CallOK, ThreadOK, KnowsTold, Working, Operations, NoCall
<1> QED BY <1>1, <1>2, <1>3 DEF IInv

-----------------------------------------------------------------------------
(* The user's thread *)

LEMMA UploadOK == ASSUME IInv, Upload PROVE IInv'
<1> USE UploadAssumption DEF IInv, Upload, threadVars, serverVars
<1>1. Types'
  BY DEF Types, UserKnows
<1>2. UserKnows' /\ OneRunsOn' /\ SafeAreFinished' /\ FlagsTellTruth'
  BY DEF Types, UserKnows, OneRunsOn, Alive, SafeAreFinished, FlagsTellTruth
<1>3. \A t \in Threads : CallOK(t)' /\ ThreadOK(t)' /\ KnowsTold(t)'
  BY DEF CallOK, ThreadOK, KnowsTold
<1> QED BY <1>1, <1>2, <1>3

LEMMA ResetIdOK == ASSUME IInv, ResetId PROVE IInv'
<1> USE UploadAssumption DEF IInv, ResetId, threadVars
<1>0. uid \in Nat /\ uid' = uid + 1 /\ current = NoThread
  BY DEF Types, UserKnows
<1>1. Types'
  BY DEF Types
<1>2. UserKnows' /\ OneRunsOn' /\ SafeAreFinished' /\ FlagsTellTruth'
  BY <1>0 DEF UserKnows, OneRunsOn, Alive, SafeAreFinished, FlagsTellTruth
<1>3. ASSUME NEW t \in Threads PROVE CallOK(t)' /\ ThreadOK(t)' /\ KnowsTold(t)'
  <2>0. own[t] \in Nat /\ own[t] <= uid
    BY DEF Types, ThreadOK
  <2>1. CallOK(t)'
    BY DEF CallOK
  <2>2. KnowsTold(t)'
    BY <1>0, <2>0 DEF KnowsTold
  <2>3. pc[t] = "begin" => stop[t]
    BY <1>0 DEF OneRunsOn, Alive, Types
  <2>4. pc[t] = "calling" => call[t].id \in Nat
    BY DEF Types, CallType
  <2>5. ThreadOK(t)'
    BY <1>0, <2>0, <2>3, <2>4 DEF ThreadOK
  <2> QED BY <2>1, <2>2, <2>5
<1> QED BY <1>1, <1>2, <1>3

LEMMA ClearFlagsOK == ASSUME IInv, ClearFlags PROVE IInv'
<1> USE UploadAssumption DEF IInv, ClearFlags, threadVars, serverVars
<1>1. Types'
  BY DEF Types
<1>2. UserKnows' /\ OneRunsOn' /\ SafeAreFinished' /\ FlagsTellTruth'
  BY DEF UserKnows, OneRunsOn, Alive, SafeAreFinished, FlagsTellTruth
<1>3. \A t \in Threads : CallOK(t)' /\ ThreadOK(t)' /\ KnowsTold(t)'
  BY DEF CallOK, ThreadOK, KnowsTold
<1> QED BY <1>1, <1>2, <1>3

LEMMA AcknowledgedOK == ASSUME IInv, Acknowledged PROVE IInv'
<1> USE UploadAssumption DEF IInv, Acknowledged, threadVars, serverVars
<1>1. Types'
  BY DEF Types
<1>2. UserKnows' /\ OneRunsOn' /\ SafeAreFinished' /\ FlagsTellTruth'
  BY DEF UserKnows, OneRunsOn, Alive, SafeAreFinished, FlagsTellTruth
<1>3. \A t \in Threads : CallOK(t)' /\ ThreadOK(t)' /\ KnowsTold(t)'
  BY DEF CallOK, ThreadOK, KnowsTold
<1> QED BY <1>1, <1>2, <1>3

(* Threads that have ended are joined. *)
LEMMA JoinOK ==
    ASSUME IInv, NEW threads, threads \subseteq Threads, Join(threads)
    PROVE  /\ pc' \in [Threads -> Labels] /\ own' \in [Threads -> 0 .. MaxUploads]
           /\ data' \in [Threads -> 0 .. MaxUploads] /\ errors' \in [Threads -> 0 .. NumErrorsMax]
           /\ safe' = safe \ threads
           /\ \A t \in threads : pc[t] = "ended" /\ pc'[t] = "free" /\ own'[t] = 0 /\ errors'[t] = 0
           /\ \A t \in Threads \ threads :
                  pc'[t] = pc[t] /\ own'[t] = own[t] /\ data'[t] = data[t] /\ errors'[t] = errors[t]
<1>0. NumErrorsMax \in Nat /\ 0 \in 0 .. NumErrorsMax /\ 0 \in 0 .. MaxUploads
  BY UploadAssumption
<1> QED BY <1>0 DEF IInv, Types, Join, With, Labels

(* What a join leaves of the threads' invariants; the calls and the server *)
(* stay as they are, and so do id and flags.                               *)
LEMMA JoinKeepsThreads ==
    ASSUME IInv, NEW threads, threads \subseteq Threads, Join(threads),
           \A t \in Threads \ threads : stop[t] => stop'[t],
           UNCHANGED <<uid, isNotified, isUploaded, serverVars>>
    PROVE  \A t \in Threads : CallOK(t)' /\ ThreadOK(t)' /\ KnowsTold(t)'
<1> SUFFICES ASSUME NEW t \in Threads PROVE CallOK(t)' /\ ThreadOK(t)' /\ KnowsTold(t)'
  OBVIOUS
<1>0. uid \in Nat /\ call' = call /\ entry' = entry /\ told' = told /\ uid' = uid
  BY DEF IInv, Types, serverVars
<1>1. CASE t \in threads
  <2>1. pc[t] = "ended" /\ pc'[t] = "free" /\ own'[t] = 0 /\ errors'[t] = 0
    BY <1>1, JoinOK
  <2> QED BY <1>0, <2>1 DEF IInv, CallOK, ThreadOK, KnowsTold, Working, Operations
<1>2. CASE t \notin threads
  <2>1. pc'[t] = pc[t] /\ own'[t] = own[t] /\ data'[t] = data[t] /\ errors'[t] = errors[t]
    BY <1>2, JoinOK
  <2> QED BY <1>0, <1>2, <2>1 DEF IInv, CallOK, ThreadOK, KnowsTold, Working, Operations
<1> QED BY <1>1, <1>2

(* join_loop_upload() stops the current thread, and nothing else changes   *)
(* but mpc.                                                                *)
LEMMA JoinLoopOK ==
    ASSUME IInv, JoinLoop, UNCHANGED <<held, uid, isNotified, isUploaded, serverVars>>
    PROVE  /\ current' = NoThread /\ current' \in Threads \union {NoThread}
           /\ old' \subseteq Threads /\ safe' \subseteq Threads
           /\ pc' \in [Threads -> Labels] /\ own' \in [Threads -> 0 .. MaxUploads]
           /\ data' \in [Threads -> 0 .. MaxUploads] /\ errors' \in [Threads -> 0 .. NumErrorsMax]
           /\ stop' \in [Threads -> BOOLEAN]
           /\ OneRunsOn' /\ SafeAreFinished'
           /\ \A t \in Threads : CallOK(t)' /\ ThreadOK(t)' /\ KnowsTold(t)'
<1>1. Joinable \subseteq Threads /\ Join(Joinable)
  BY DEF IInv, Types, Joinable, JoinLoop
<1>2. /\ pc' \in [Threads -> Labels] /\ own' \in [Threads -> 0 .. MaxUploads]
      /\ data' \in [Threads -> 0 .. MaxUploads] /\ errors' \in [Threads -> 0 .. NumErrorsMax]
      /\ safe' = safe \ Joinable
      /\ \A t \in Joinable : pc'[t] = "free"
      /\ \A t \in Threads \ Joinable : pc'[t] = pc[t]
  BY <1>1, JoinOK
<1>3. /\ stop' \in [Threads -> BOOLEAN]
      /\ \A t \in Threads \ Joinable : stop'[t] = (stop[t] \/ t = current)
  BY <1>1 DEF IInv, Types, JoinLoop, With
<1>4. current' = NoThread /\ old' = (old \ Joinable) \union ({current} \ {NoThread})
  BY DEF JoinLoop
<1>5. \A t \in Threads : CallOK(t)' /\ ThreadOK(t)' /\ KnowsTold(t)'
  BY <1>1, <1>3, JoinKeepsThreads
<1>6. SafeAreFinished'
  BY <1>1, <1>2 DEF IInv, Types, SafeAreFinished
<1>7. OneRunsOn'
  <2> SUFFICES ASSUME NEW t \in Threads, pc'[t] \notin {"free", "ended"}
               PROVE  t \in old' /\ stop'[t]
    BY DEF OneRunsOn, Alive
  <2>1. t \notin Joinable /\ pc[t] \notin {"free", "ended"}
    BY <1>2
  <2>2. t = current \/ (t \in old /\ stop[t])
    BY <2>1 DEF IInv, OneRunsOn, Alive
  <2>3. t # NoThread
    BY UploadAssumption
  <2> QED BY <1>3, <1>4, <2>1, <2>2, <2>3
<1> QED BY <1>2, <1>3, <1>4, <1>5, <1>6, <1>7 DEF IInv, Types

LEMMA StepsWithJoinLoopOK == ASSUME IInv, Prepare \/ Refresh \/ Destroy PROVE IInv'
<1>0. JoinLoop /\ UNCHANGED <<held, uid, isNotified, isUploaded, serverVars>>
  BY DEF Prepare, Refresh, Destroy
<1>1. /\ current' = NoThread
      /\ OneRunsOn' /\ SafeAreFinished'
      /\ \A t \in Threads : CallOK(t)' /\ ThreadOK(t)' /\ KnowsTold(t)'
  BY <1>0, JoinLoopOK
<1>2. Types'
  <2>1. mpc' \in {"reset", "start", "joining"}
    BY DEF Prepare, Refresh, Destroy
  <2> QED BY <1>0, <2>1, JoinLoopOK DEF IInv, Types, serverVars
<1>3. UserKnows'
  BY <1>0, <1>1 DEF IInv, UserKnows, Prepare, Refresh, Destroy
<1>4. FlagsTellTruth'
  BY <1>0 DEF IInv, FlagsTellTruth, Prepare, Refresh, Destroy, serverVars
<1> QED BY <1>1, <1>2, <1>3, <1>4 DEF IInv

LEMMA DestroyJoinsOK == ASSUME IInv, DestroyJoins PROVE IInv'
<1>0. old \subseteq Threads /\ Join(old)
  BY DEF IInv, Types, DestroyJoins
<1>1. /\ pc' \in [Threads -> Labels] /\ own' \in [Threads -> 0 .. MaxUploads]
      /\ data' \in [Threads -> 0 .. MaxUploads] /\ errors' \in [Threads -> 0 .. NumErrorsMax]
      /\ safe' = safe \ old
      /\ \A t \in old : pc'[t] = "free"
      /\ \A t \in Threads \ old : pc'[t] = pc[t]
  BY <1>0, JoinOK
<1>2. /\ stop' \in [Threads -> BOOLEAN]
      /\ \A t \in Threads \ old : stop'[t] = stop[t]
  BY DEF IInv, Types, DestroyJoins, With
<1>3. \A t \in Threads : CallOK(t)' /\ ThreadOK(t)' /\ KnowsTold(t)'
  BY <1>0, <1>2, JoinKeepsThreads DEF DestroyJoins
<1>4. Types'
  BY <1>1, <1>2 DEF IInv, Types, DestroyJoins, serverVars
<1>5. UserKnows' /\ FlagsTellTruth'
  BY DEF IInv, UserKnows, FlagsTellTruth, DestroyJoins, serverVars
<1>6. OneRunsOn' /\ SafeAreFinished'
  BY <1>0, <1>1 DEF IInv, Types, OneRunsOn, Alive, SafeAreFinished, DestroyJoins
<1> QED BY <1>3, <1>4, <1>5, <1>6 DEF IInv

LEMMA StartOK == ASSUME IInv, NEW t \in Threads, Start(t) PROVE IInv'
<1> USE UploadAssumption DEF Start, Go, serverVars
<1>0. current = NoThread /\ held = uid /\ pc \in [Threads -> Labels] /\ pc' \in [Threads -> Labels]
  BY DEF IInv, UserKnows, Types, Labels
<1>1. Types'
  BY <1>0 DEF IInv, Types
<1>2. UserKnows' /\ FlagsTellTruth'
  BY DEF IInv, UserKnows, FlagsTellTruth
<1>3. OneRunsOn' /\ SafeAreFinished'
  BY <1>0 DEF IInv, OneRunsOn, Alive, SafeAreFinished
<1>4. ASSUME NEW x \in Threads PROVE CallOK(x)' /\ ThreadOK(x)' /\ KnowsTold(x)'
  <2>1. CASE x = t
    BY <1>0, <2>1 DEF IInv, Types, CallOK, ThreadOK, KnowsTold, Working, Operations
  <2>2. CASE x # t
    BY <1>0, <2>2 DEF IInv, Types, CallOK, ThreadOK, KnowsTold, Working, Operations
  <2> QED BY <2>1, <2>2
<1> QED BY <1>1, <1>2, <1>3, <1>4 DEF IInv

-----------------------------------------------------------------------------
(* The upload threads *)

(* What is known of a thread stays true when its variables stay as they    *)
(* are, and the server is only told more.                                  *)
LEMMA UntouchedOK ==
    ASSUME NEW x \in Threads, CallOK(x), ThreadOK(x), KnowsTold(x),
           pc'[x] = pc[x], own'[x] = own[x], data'[x] = data[x], stop'[x] = stop[x],
           errors'[x] = errors[x], call'[x] = call[x],
           entry'.deferred = x <=> entry.deferred = x,
           uid' = uid, told \subseteq told'
    PROVE  CallOK(x)' /\ ThreadOK(x)' /\ KnowsTold(x)'
BY DEF CallOK, ThreadOK, KnowsTold

(* A thread that has not ended goes on. *)
LEMMA GoOK ==
    ASSUME IInv, NEW t \in Threads, pc[t] \notin {"free", "finished", "ended"},
           NEW label \in Labels, Go(t, label),
           UNCHANGED <<current, old, stop, safe>>
    PROVE  /\ pc' \in [Threads -> Labels] /\ pc'[t] = label
           /\ \A x \in Threads \ {t} : pc'[x] = pc[x]
           /\ OneRunsOn' /\ SafeAreFinished'
<1>1. /\ pc' \in [Threads -> Labels] /\ pc'[t] = label
      /\ \A x \in Threads \ {t} : pc'[x] = pc[x]
  BY DEF IInv, Types, Go
<1> QED BY <1>1 DEF IInv, Types, OneRunsOn, Alive, SafeAreFinished

LEMMA BeginOK == ASSUME IInv, NEW t \in Threads, Begin(t) PROVE IInv'
<1> USE DEF Begin, mainVars, serverVars
<1>1. /\ pc' \in [Threads -> Labels] /\ pc'[t] = "loop"
      /\ \A x \in Threads \ {t} : pc'[x] = pc[x]
      /\ OneRunsOn' /\ SafeAreFinished'
  BY GoOK DEF Labels
<1>2. own' \in [Threads -> 0 .. MaxUploads] /\ own'[t] = uid
      /\ \A x \in Threads \ {t} : own'[x] = own[x]
  BY DEF IInv, Types
<1>3. Types' /\ UserKnows' /\ FlagsTellTruth'
  BY <1>1, <1>2 DEF IInv, Types, UserKnows, FlagsTellTruth
<1>4. CallOK(t)' /\ ThreadOK(t)' /\ KnowsTold(t)'
  BY <1>1, <1>2 DEF IInv, Types, CallOK, ThreadOK, KnowsTold, Working, Operations
<1>5. ASSUME NEW x \in Threads \ {t} PROVE CallOK(x)' /\ ThreadOK(x)' /\ KnowsTold(x)'
  BY <1>1, <1>2, UntouchedOK DEF IInv
<1> QED BY <1>1, <1>3, <1>4, <1>5 DEF IInv

LEMMA LoopOK == ASSUME IInv, NEW t \in Threads, Loop(t) PROVE IInv'
<1> USE DEF Loop, mainVars, serverVars
<1> DEFINE label == IF stop[t] THEN "finish" ELSE "notify"
<1>0. label \in Labels /\ Go(t, label) /\ label \in {"finish", "notify"}
  BY DEF Labels, Operations
<1>1. /\ pc' \in [Threads -> Labels] /\ pc'[t] = label
      /\ \A x \in Threads \ {t} : pc'[x] = pc[x]
      /\ OneRunsOn' /\ SafeAreFinished'
  BY <1>0, GoOK
<1>3. Types' /\ UserKnows' /\ FlagsTellTruth'
  BY <1>1 DEF IInv, Types, UserKnows, FlagsTellTruth
<1>4. CallOK(t)' /\ ThreadOK(t)' /\ KnowsTold(t)'
  BY <1>1 DEF IInv, Types, CallOK, ThreadOK, KnowsTold, Working, Operations
<1>5. ASSUME NEW x \in Threads \ {t} PROVE CallOK(x)' /\ ThreadOK(x)' /\ KnowsTold(x)'
  BY <1>1, UntouchedOK DEF IInv
<1> QED BY <1>1, <1>3, <1>4, <1>5 DEF IInv

LEMMA SendOK == ASSUME IInv, NEW t \in Threads, Send(t) PROVE IInv'
<1> USE DEF Send, mainVars
<1> DEFINE sent == [op |-> pc[t], id |-> uid, data |-> IF pc[t] = "upload" THEN data[t] ELSE 0,
                    st |-> "sent"]
<1>0. /\ sent \in CallType /\ sent.op = pc[t] /\ sent.id = uid /\ sent.st = "sent"
      /\ sent.op = "upload" => sent.data = data[t]
  BY UploadAssumption DEF IInv, Types, CallType
<1>1. /\ pc' \in [Threads -> Labels] /\ pc'[t] = "calling"
      /\ \A x \in Threads \ {t} : pc'[x] = pc[x]
      /\ OneRunsOn' /\ SafeAreFinished'
  BY GoOK DEF Labels, Operations
<1>2. call' = [call EXCEPT ![t] = sent]
  OBVIOUS
<1> HIDE DEF sent
<1>3. call' \in [Threads -> CallType] /\ call'[t] = sent
      /\ \A x \in Threads \ {t} : call'[x] = call[x]
  BY <1>0, <1>2 DEF IInv, Types
<1>4. Types' /\ UserKnows' /\ FlagsTellTruth'
  BY <1>1, <1>3 DEF IInv, Types, UserKnows, FlagsTellTruth
<1>5. CallOK(t)' /\ ThreadOK(t)' /\ KnowsTold(t)'
  <2>1. call[t] = NoCall /\ entry.deferred # t
    BY DEF IInv, CallOK, NoCall, Operations
  <2> QED BY <1>0, <1>1, <1>3, <2>1 DEF IInv, Types, CallOK, ThreadOK, KnowsTold, Working, Operations
<1>6. ASSUME NEW x \in Threads \ {t} PROVE CallOK(x)' /\ ThreadOK(x)' /\ KnowsTold(x)'
  BY <1>1, <1>3, UntouchedOK DEF IInv
<1> QED BY <1>1, <1>4, <1>5, <1>6 DEF IInv

LEMMA ReturnOK == ASSUME IInv, NEW t \in Threads, Return(t) PROVE IInv'
<1> USE DEF Return, mainVars
<1> DEFINE label == IF stop[t] THEN "finish" ELSE After(call[t])
<1>0. /\ \/ call[t].op = "notify" /\ call[t].st = "granted" /\ After(call[t]) = "notified"
         \/ /\ call[t].op = "pending"
            /\ \/ call[t].st = "granted" /\ After(call[t]) = "upload"
               \/ call[t].st = "refused" /\ After(call[t]) = "finish"
         \/ call[t].op = "upload" /\ call[t].st = "granted" /\ After(call[t]) = "uploaded"
  <2>1. call[t].op \in Operations /\ (call[t].st = "refused" => call[t].op = "pending")
    BY DEF IInv, CallOK
  <2> QED BY <2>1 DEF After, Operations
<1>1. label \in Labels /\ Go(t, label)
  BY <1>0 DEF Labels, Operations
<1>2. /\ pc' \in [Threads -> Labels] /\ pc'[t] = label
      /\ \A x \in Threads \ {t} : pc'[x] = pc[x]
      /\ OneRunsOn' /\ SafeAreFinished'
  BY <1>1, GoOK
<1>3. NoCall \in CallType
  BY UploadAssumption DEF NoCall, CallType
<1>4. call' \in [Threads -> CallType] /\ call'[t] = NoCall
      /\ \A x \in Threads \ {t} : call'[x] = call[x]
  BY <1>3 DEF IInv, Types
<1>5. Types' /\ UserKnows' /\ FlagsTellTruth'
  BY <1>2, <1>4 DEF IInv, Types, UserKnows, FlagsTellTruth
<1>6. label \in {"finish", "notified", "upload", "uploaded"}
  BY <1>0
<1>7. CallOK(t)'
  BY <1>2, <1>4, <1>6 DEF IInv, CallOK, NoCall
<1>8. ThreadOK(t)'
  BY <1>2, <1>6 DEF IInv, ThreadOK, Working, Operations
<1>9. KnowsTold(t)'
  BY <1>0, <1>2 DEF IInv, KnowsTold
<1>10. ASSUME NEW x \in Threads \ {t} PROVE CallOK(x)' /\ ThreadOK(x)' /\ KnowsTold(x)'
  BY <1>2, <1>4, UntouchedOK DEF IInv
<1> QED BY <1>2, <1>5, <1>7, <1>8, <1>9, <1>10 DEF IInv

LEMMA MarkOK == ASSUME IInv, NEW t \in Threads, Mark(t) PROVE IInv'
<1> USE DEF Mark, serverVars
<1> DEFINE label == IF pc[t] = "notified" THEN "pending" ELSE "loop"
<1>0. label \in Labels /\ Go(t, label) /\ label \in {"pending", "loop"}
  BY DEF Labels, Operations
<1>1. /\ pc' \in [Threads -> Labels] /\ pc'[t] = label
      /\ \A x \in Threads \ {t} : pc'[x] = pc[x]
      /\ OneRunsOn' /\ SafeAreFinished'
  BY <1>0, GoOK
<1>2. Types' /\ UserKnows'
  BY <1>1 DEF IInv, Types, UserKnows
<1>3. FlagsTellTruth'
  <2>1. own[t] = uid => "notify" \in told
    BY DEF IInv, KnowsTold
  <2>2. own[t] = uid /\ pc[t] = "uploaded" => "upload" \in told
    BY DEF IInv, KnowsTold
  <2> QED BY <2>1, <2>2 DEF IInv, FlagsTellTruth
<1>4. CallOK(t)' /\ ThreadOK(t)' /\ KnowsTold(t)'
  BY <1>1 DEF IInv, Types, CallOK, ThreadOK, KnowsTold, Working, Operations
<1>5. ASSUME NEW x \in Threads \ {t} PROVE CallOK(x)' /\ ThreadOK(x)' /\ KnowsTold(x)'
  BY <1>1, UntouchedOK DEF IInv
<1> QED BY <1>1, <1>2, <1>3, <1>4, <1>5 DEF IInv

LEMMA FinishOK == ASSUME IInv, NEW t \in Threads, Finish(t) PROVE IInv'
<1> USE DEF Finish, Go, mainVars, serverVars
<1>1. /\ pc' \in [Threads -> Labels] /\ pc'[t] \in {"finished", "ended"}
      /\ \A x \in Threads \ {t} : pc'[x] = pc[x]
  BY DEF IInv, Types, Labels
<1>2. Types' /\ UserKnows' /\ FlagsTellTruth'
  BY <1>1 DEF IInv, Types, UserKnows, FlagsTellTruth
<1>3. OneRunsOn' /\ SafeAreFinished'
  BY <1>1 DEF IInv, Types, OneRunsOn, Alive, SafeAreFinished
<1>4. CallOK(t)' /\ ThreadOK(t)' /\ KnowsTold(t)'
  BY <1>1 DEF IInv, Types, CallOK, ThreadOK, KnowsTold, Working, Operations
<1>5. ASSUME NEW x \in Threads \ {t} PROVE CallOK(x)' /\ ThreadOK(x)' /\ KnowsTold(x)'
  BY <1>1, UntouchedOK DEF IInv
<1> QED BY <1>2, <1>3, <1>4, <1>5 DEF IInv

(* A call that is given up is not open any more. *)
LEMMA GiveUpOK ==
    ASSUME IInv, NEW t \in Threads, GiveUp(t)
    PROVE  /\ call' \in [Threads -> CallType] /\ call'[t] = NoCall
           /\ \A x \in Threads \ {t} : call'[x] = call[x]
           /\ \A x \in Threads \ {t} : entry'.deferred = x <=> entry.deferred = x
           /\ entry'.deferred # t
           /\ "deferred" \in DOMAIN entry'
           /\ astray' \subseteq CallType
<1>1. NoCall \in CallType
  BY UploadAssumption DEF NoCall, CallType
<1>2. /\ call' \in [Threads -> CallType] /\ call'[t] = NoCall
      /\ \A x \in Threads \ {t} : call'[x] = call[x]
      /\ astray' \subseteq CallType
  BY <1>1 DEF IInv, Types, GiveUp
<1>3. call[t].st = "open" <=> entry.deferred = t
  BY DEF IInv, CallOK
<1>4. CASE call[t].st = "open"
  <2>1. entry' = [entry EXCEPT !.deferred = Gone]
    BY <1>4 DEF GiveUp
  <2>2. entry'.deferred = Gone /\ "deferred" \in DOMAIN entry'
    BY <2>1 DEF IInv, Types
  <2> QED BY <1>2, <1>3, <1>4, <2>2, UploadAssumption
<1>5. CASE call[t].st # "open"
  BY <1>2, <1>3, <1>5 DEF GiveUp, IInv, Types
<1> QED BY <1>4, <1>5

LEMMA CancelOK == ASSUME IInv, NEW t \in Threads, Cancel(t) PROVE IInv'
<1> USE DEF Cancel, mainVars
<1>1. /\ pc' \in [Threads -> Labels] /\ pc'[t] = "finish"
      /\ \A x \in Threads \ {t} : pc'[x] = pc[x]
      /\ OneRunsOn' /\ SafeAreFinished'
  BY GoOK DEF Labels
<1>2. told' = told
  BY DEF GiveUp
<1>3. Types' /\ UserKnows' /\ FlagsTellTruth'
  BY <1>1, <1>2, GiveUpOK DEF IInv, Types, UserKnows, FlagsTellTruth
<1>4. CallOK(t)' /\ ThreadOK(t)' /\ KnowsTold(t)'
  <2>1. call'[t] = NoCall /\ entry'.deferred # t
    BY GiveUpOK
  <2> QED BY <1>1, <1>2, <2>1 DEF IInv, CallOK, ThreadOK, KnowsTold, NoCall, Working, Operations
<1>5. ASSUME NEW x \in Threads \ {t} PROVE CallOK(x)' /\ ThreadOK(x)' /\ KnowsTold(x)'
  <2>1. call'[x] = call[x] /\ (entry'.deferred = x <=> entry.deferred = x)
    BY GiveUpOK
  <2> QED BY <1>1, <1>2, <2>1, UntouchedOK DEF IInv
<1> QED BY <1>1, <1>3, <1>4, <1>5 DEF IInv

LEMMA FailOK == ASSUME IInv, NEW t \in Threads, Fail(t) PROVE IInv'
<1> USE DEF Fail, mainVars
<1> DEFINE n == IF stop[t] THEN errors[t] ELSE errors[t] + 1
           label == IF stop[t] \/ errors'[t] >= NumErrorsMax THEN "finish" ELSE "loop"
<1>0. label \in Labels /\ Go(t, label) /\ label \in {"finish", "loop"}
  BY DEF Labels
<1>1. /\ pc' \in [Threads -> Labels] /\ pc'[t] = label
      /\ \A x \in Threads \ {t} : pc'[x] = pc[x]
      /\ OneRunsOn' /\ SafeAreFinished'
  BY <1>0, GoOK
<1>2. n \in 0 .. NumErrorsMax
  BY UploadAssumption DEF IInv, Types, ThreadOK, Working
<1>3. errors' = [errors EXCEPT ![t] = n]
  OBVIOUS
<1>4. told' = told
  BY DEF GiveUp
<1>5. label = "loop" => errors'[t] < NumErrorsMax
  <2>1. errors'[t] = n
    BY <1>3 DEF IInv, Types
  <2> QED BY <1>2, <2>1, UploadAssumption
<1> HIDE DEF n, label
<1>6. errors' \in [Threads -> 0 .. NumErrorsMax] /\ \A x \in Threads \ {t} : errors'[x] = errors[x]
  BY <1>2, <1>3 DEF IInv, Types
<1>7. Types' /\ UserKnows' /\ FlagsTellTruth'
  BY <1>1, <1>4, <1>6, GiveUpOK DEF IInv, Types, UserKnows, FlagsTellTruth
<1>8. CallOK(t)' /\ ThreadOK(t)' /\ KnowsTold(t)'
  <2>1. call'[t] = NoCall /\ entry'.deferred # t
    BY GiveUpOK
  <2>2. CallOK(t)'
    BY <1>0, <1>1, <2>1 DEF CallOK, NoCall
  <2>3. ThreadOK(t)'
    BY <1>0, <1>1, <1>5 DEF IInv, ThreadOK, Working, Operations
  <2>4. KnowsTold(t)'
    BY <1>0, <1>1 DEF KnowsTold
  <2> QED BY <2>2, <2>3, <2>4
<1>9. ASSUME NEW x \in Threads \ {t} PROVE CallOK(x)' /\ ThreadOK(x)' /\ KnowsTold(x)'
  <2>1. call'[x] = call[x] /\ (entry'.deferred = x <=> entry.deferred = x)
    BY GiveUpOK
  <2> QED BY <1>1, <1>4, <1>6, <2>1, UntouchedOK DEF IInv
<1> QED BY <1>1, <1>7, <1>8, <1>9 DEF IInv

-----------------------------------------------------------------------------
(* The server *)

(* What a step of the server may do to the call of t *)
CallServed(t) ==
    \/ call'[t] = call[t] /\ (entry'.deferred = t <=> entry.deferred = t)
    \/ /\ call[t].st \in {"sent", "open"} /\ pc[t] = "calling"
       /\ call'[t] \in CallType
       /\ call'[t].op = call[t].op /\ call'[t].id = call[t].id /\ call'[t].data = call[t].data
       /\ call'[t].st \in {"open", "granted", "refused"}
       /\ call'[t].st \in {"open", "refused"} => call[t].op = "pending"
       /\ call'[t].st = "open" <=> entry'.deferred = t
       /\ call'[t].st = "granted" /\ call[t].op # "pending" =>
              call[t].id # uid \/ (call[t].op = "upload" /\ call[t].data # uid) \/ call[t].op \in told'

(* Such steps preserve the invariant. *)
LEMMA ServedOK ==
    ASSUME IInv, UNCHANGED <<mainVars, threadVars>>,
           \A t \in Threads : CallServed(t),
           call' \in [Threads -> CallType], astray' \subseteq astray,
           "deferred" \in DOMAIN entry', told \subseteq told', told' \subseteq Operations
    PROVE  IInv'
<1> USE DEF mainVars, threadVars
<1>1. Types' /\ UserKnows' /\ OneRunsOn' /\ SafeAreFinished' /\ FlagsTellTruth'
  BY DEF IInv, Types, UserKnows, OneRunsOn, Alive, SafeAreFinished, FlagsTellTruth
<1>2. ASSUME NEW t \in Threads PROVE CallOK(t)' /\ ThreadOK(t)' /\ KnowsTold(t)'
  <2>1. CASE call'[t] = call[t] /\ (entry'.deferred = t <=> entry.deferred = t)
    BY <2>1, UntouchedOK DEF IInv
  <2>2. CASE ~(call'[t] = call[t] /\ (entry'.deferred = t <=> entry.deferred = t))
    <3>1. /\ call[t].st \in {"sent", "open"} /\ pc[t] = "calling"
          /\ call'[t] \in CallType
          /\ call'[t].op = call[t].op /\ call'[t].id = call[t].id /\ call'[t].data = call[t].data
          /\ call'[t].st \in {"open", "granted", "refused"}
          /\ call'[t].st \in {"open", "refused"} => call[t].op = "pending"
          /\ call'[t].st = "open" <=> entry'.deferred = t
          /\ call'[t].st = "granted" /\ call[t].op # "pending" =>
                 call[t].id # uid \/ (call[t].op = "upload" /\ call[t].data # uid) \/ call[t].op \in told'
      BY <2>2 DEF CallServed
    <3>2. CallOK(t)'
      BY <3>1 DEF IInv, CallOK
    <3>3. ThreadOK(t)'
      BY <3>1 DEF IInv, ThreadOK
    <3>4. KnowsTold(t)'
      <4>1. call[t].id \in Nat /\ uid \in Nat /\ own[t] \in Nat
        BY <3>1 DEF IInv, Types, CallType
      <4>2. own[t] = uid => call[t].id = uid /\ (call[t].op = "upload" => call[t].data = uid)
        BY <3>1, <4>1 DEF IInv, ThreadOK, Working
      <4> QED BY <3>1, <4>2 DEF IInv, KnowsTold
    <3> QED BY <3>2, <3>3, <3>4
  <2> QED BY <2>1, <2>2
<1> QED BY <1>1, <1>2 DEF IInv

LEMMA WithStOK ==
    ASSUME NEW r \in CallType, NEW value \in {"open", "granted", "refused"},
           NEW s, s = [r EXCEPT !.st = value]
    PROVE  s \in CallType /\ s.op = r.op /\ s.id = r.id /\ s.data = r.data /\ s.st = value
BY DEF CallType

(* Calls without a thread that waits change nothing; others get a value.   *)
LEMMA DoneOK ==
    ASSUME IInv, NEW t \in Threads \union {Gone}, NEW value \in {"open", "granted", "refused"},
           NEW calls, calls = IF t = Gone THEN call ELSE Done(t, value)
    PROVE  /\ calls \in [Threads -> CallType]
           /\ \A x \in Threads \ {t} : calls[x] = call[x]
           /\ t \in Threads =>
                  /\ calls[t].op = call[t].op /\ calls[t].id = call[t].id
                  /\ calls[t].data = call[t].data /\ calls[t].st = value
<1>1. CASE t = Gone
  BY <1>1, UploadAssumption DEF IInv, Types
<1>2. CASE t # Gone
  <2> DEFINE s == [call[t] EXCEPT !.st = value]
  <2>1. calls = [call EXCEPT ![t] = s]
    BY <1>2 DEF Done
  <2>2. call[t] \in CallType
    BY <1>2 DEF IInv, Types
  <2>3. /\ s \in CallType /\ s.op = call[t].op /\ s.id = call[t].id
        /\ s.data = call[t].data /\ s.st = value
    BY <2>2, WithStOK
  <2> HIDE DEF s
  <2> QED BY <1>2, <2>1, <2>3 DEF IInv, Types
<1> QED BY <1>1, <1>2

(* The open call is answered, and is not the one of t. *)
LEMMA AnswerOK ==
    ASSUME IInv, NEW calls \in [Threads -> CallType], NEW value \in {"granted", "refused"},
           \A x \in Threads : entry.deferred = x => calls[x] = call[x],
           NEW result, result = Answer(calls, value)
    PROVE  /\ result \in [Threads -> CallType]
           /\ \A x \in Threads : entry.deferred # x => result[x] = calls[x]
           /\ \A x \in Threads : entry.deferred = x =>
                  /\ pc[x] = "calling" /\ call[x].st = "open" /\ call[x].op = "pending"
                  /\ result[x].op = call[x].op /\ result[x].id = call[x].id
                  /\ result[x].data = call[x].data /\ result[x].st = value
<1>1. ASSUME NEW x \in Threads, entry.deferred = x
      PROVE  /\ pc[x] = "calling" /\ call[x].st = "open" /\ call[x].op = "pending"
             /\ result[x] \in CallType
             /\ result[x].op = call[x].op /\ result[x].id = call[x].id
             /\ result[x].data = call[x].data /\ result[x].st = value
  <2>1. pc[x] = "calling" /\ call[x].st = "open" /\ call[x].op = "pending"
    BY <1>1 DEF IInv, CallOK, NoCall
  <2>2. call[x] \in CallType /\ result[x] = [call[x] EXCEPT !.st = value]
    BY <1>1 DEF IInv, Types, Answer
  <2> QED BY <2>1, <2>2, WithStOK
<1>2. ASSUME NEW x \in Threads, entry.deferred # x PROVE result[x] = calls[x] /\ result[x] \in CallType
  BY <1>2 DEF Answer
<1>3. result = [x \in Threads |-> result[x]]
  BY DEF Answer
<1>4. \A x \in Threads : result[x] \in CallType
  BY <1>1, <1>2
<1> QED BY <1>1, <1>2, <1>3, <1>4

LEMMA HandleOK ==
    ASSUME IInv, NEW m \in CallType, NEW t \in Threads \union {Gone}, Handle(m, t),
           t \in Threads => call[t] = m /\ m.st = "sent",
           t \in Threads /\ m.op # "pending" =>
               m.id # uid \/ (m.op = "upload" /\ m.data # uid) \/ m.op \in told'
    PROVE  /\ call' \in [Threads -> CallType] /\ "deferred" \in DOMAIN entry'
           /\ \A x \in Threads : CallServed(x)
<1> DEFINE answered(value) == IF t = Gone THEN call ELSE Done(t, value)
<1>1. Gone \notin Threads /\ "deferred" \in DOMAIN entry
  BY UploadAssumption DEF IInv, Types
<1>2. t \in Threads => pc[t] = "calling" /\ entry.deferred # t
  BY DEF IInv, CallOK, NoCall
<1>3. ASSUME NEW value \in {"granted", "refused"}, call' = answered(value),
             entry'.deferred = entry.deferred, "deferred" \in DOMAIN entry',
             value = "refused" => m.op = "pending"
      PROVE  /\ call' \in [Threads -> CallType] /\ "deferred" \in DOMAIN entry'
             /\ \A x \in Threads : CallServed(x)
  <2>1. /\ call' \in [Threads -> CallType]
        /\ \A x \in Threads \ {t} : call'[x] = call[x]
        /\ t \in Threads =>
               /\ call'[t].op = call[t].op /\ call'[t].id = call[t].id
               /\ call'[t].data = call[t].data /\ call'[t].st = value
    BY <1>3, DoneOK
  <2> QED BY <1>2, <1>3, <2>1 DEF CallServed
<1>4. CASE m.op = "notify" /\ entry' = Notified(entry, m.id) /\ call' = answered("granted")
  <2>1. entry'.deferred = entry.deferred /\ "deferred" \in DOMAIN entry'
    BY <1>1, <1>4 DEF Notified
  <2> QED BY <1>3, <1>4, <2>1
<1>5. CASE m.op = "upload" /\ entry' = Stored(entry, m.id, m.data) /\ call' = answered("granted")
  <2>1. entry'.deferred = entry.deferred /\ "deferred" \in DOMAIN entry'
    BY <1>1, <1>5 DEF Stored
  <2> QED BY <1>3, <1>5, <2>1
<1>6. CASE m.op = "pending" /\ call' = answered("refused") /\ UNCHANGED entry
  BY <1>1, <1>3, <1>6
<1>7. CASE m.op = "pending" /\ entry' = Pended(entry, m.id, t)
           /\ call' = Answer(answered("open"), "refused")
  <2> DEFINE calls == answered("open")
  <2>1. /\ calls \in [Threads -> CallType]
        /\ \A x \in Threads \ {t} : calls[x] = call[x]
        /\ t \in Threads =>
               /\ calls[t].op = call[t].op /\ calls[t].id = call[t].id
               /\ calls[t].data = call[t].data /\ calls[t].st = "open"
    BY DoneOK
  <2> HIDE DEF calls
  <2>2. \A x \in Threads : entry.deferred = x => calls[x] = call[x]
    BY <1>2, <2>1
  <2>3. call' = Answer(calls, "refused")
    BY <1>7 DEF calls
  <2>4. /\ call' \in [Threads -> CallType]
        /\ \A x \in Threads : entry.deferred # x => call'[x] = calls[x]
        /\ \A x \in Threads : entry.deferred = x =>
               /\ pc[x] = "calling" /\ call[x].st = "open" /\ call[x].op = "pending"
               /\ call'[x].op = call[x].op /\ call'[x].id = call[x].id
               /\ call'[x].data = call[x].data /\ call'[x].st = "refused"
    BY <2>1, <2>2, <2>3, AnswerOK
  <2>5. entry'.deferred = t /\ "deferred" \in DOMAIN entry'
    BY <1>1, <1>7 DEF Pended
  <2>6. ASSUME NEW x \in Threads PROVE CallServed(x)
    <3>1. CASE x = t
      BY <1>2, <1>7, <2>1, <2>4, <2>5, <3>1 DEF CallServed
    <3>2. CASE x # t /\ entry.deferred = x
      BY <2>4, <2>5, <3>2 DEF CallServed
    <3>3. CASE x # t /\ entry.deferred # x
      BY <2>1, <2>4, <2>5, <3>3 DEF CallServed
    <3> QED BY <3>1, <3>2, <3>3
  <2> QED BY <2>4, <2>5, <2>6
<1> QED BY <1>4, <1>5, <1>6, <1>7 DEF Handle

LEMMA ServeOK == ASSUME IInv, NEW t \in Threads, Serve(t) PROVE IInv'
<1>1. call[t] \in CallType /\ call[t].st = "sent" /\ Handle(call[t], t)
  BY DEF IInv, Types, Serve
<1>2. /\ told \subseteq told' /\ told' \subseteq Operations
      /\ call[t].op # "pending" =>
             call[t].id # uid \/ (call[t].op = "upload" /\ call[t].data # uid) \/ call[t].op \in told'
  <2>1. call[t].op \in Operations
    BY <1>1 DEF IInv, CallOK, NoCall
  <2> QED BY <2>1 DEF IInv, Types, Serve, Operations
<1>3. /\ call' \in [Threads -> CallType] /\ "deferred" \in DOMAIN entry'
      /\ \A x \in Threads : CallServed(x)
  BY <1>1, <1>2, HandleOK
<1> QED BY <1>2, <1>3, ServedOK DEF Serve

LEMMA ArriveOK == ASSUME IInv, NEW m \in astray, Arrive(m) PROVE IInv'
<1>1. m \in CallType /\ told \subseteq told' /\ told' \subseteq Operations /\ astray' \subseteq astray
  BY DEF IInv, Types, Arrive
<1>2. /\ call' \in [Threads -> CallType] /\ "deferred" \in DOMAIN entry'
      /\ \A x \in Threads : CallServed(x)
  <2>1. CASE Handle(m, Gone)
    BY <1>1, <2>1, HandleOK, UploadAssumption
  <2>2. CASE UNCHANGED <<entry, call>>
    BY <2>2 DEF IInv, Types, CallServed
  <2> QED BY <2>1, <2>2 DEF Arrive
<1> QED BY <1>1, <1>2, ServedOK DEF Arrive

(* An answer to the open call, which is forgotten *)
LEMMA AnsweredOK ==
    ASSUME IInv, NEW value \in {"granted", "refused"}, call' = Answer(call, value),
           entry'.deferred = NoConnection, "deferred" \in DOMAIN entry',
           UNCHANGED <<mainVars, threadVars, astray, told>>
    PROVE  IInv'
<1>1. /\ call' \in [Threads -> CallType]
      /\ \A x \in Threads : entry.deferred # x => call'[x] = call[x]
      /\ \A x \in Threads : entry.deferred = x =>
             /\ pc[x] = "calling" /\ call[x].st = "open" /\ call[x].op = "pending"
             /\ call'[x].op = call[x].op /\ call'[x].id = call[x].id
             /\ call'[x].data = call[x].data /\ call'[x].st = value
  BY AnswerOK DEF IInv, Types
<1>2. ASSUME NEW x \in Threads PROVE CallServed(x)
  <2>1. x # NoConnection
    BY UploadAssumption
  <2> QED BY <1>1, <2>1 DEF CallServed
<1>3. told \subseteq told' /\ told' \subseteq Operations /\ astray' \subseteq astray
  BY DEF IInv, Types
<1> QED BY <1>1, <1>2, <1>3, ServedOK

LEMMA RequestOK == ASSUME IInv, Request \/ Forget PROVE IInv'
<1>1. "deferred" \in DOMAIN entry
  BY DEF IInv, Types
<1>2. CASE Request
  <2>1. entry'.deferred = NoConnection /\ "deferred" \in DOMAIN entry'
    BY <1>1, <1>2 DEF Request, Answered
  <2> QED BY <1>2, <2>1, AnsweredOK DEF Request
<1>3. CASE Forget
  <2>1. entry'.deferred = NoConnection /\ "deferred" \in DOMAIN entry'
    BY <1>3 DEF Forget, Fresh, RegisterNew, Unknown
  <2> QED BY <1>3, <2>1, AnsweredOK DEF Forget
<1> QED BY <1>2, <1>3

-----------------------------------------------------------------------------
(* The theorems *)

LEMMA UnchangedOK == ASSUME IInv, UNCHANGED vars PROVE IInv'
<1> USE DEF vars, mainVars, threadVars, serverVars
<1>1. Types' /\ UserKnows' /\ OneRunsOn' /\ SafeAreFinished' /\ FlagsTellTruth'
  BY DEF IInv, Types, UserKnows, OneRunsOn, Alive, SafeAreFinished, FlagsTellTruth
<1>2. \A t \in Threads : CallOK(t)' /\ ThreadOK(t)' /\ KnowsTold(t)'
  BY UntouchedOK DEF IInv
<1> QED BY <1>1, <1>2 DEF IInv

LEMMA StepOK == ASSUME IInv, [Next]_vars PROVE IInv'
<1>1. CASE Main
  BY <1>1, UploadOK, ResetIdOK, ClearFlagsOK, AcknowledgedOK, StepsWithJoinLoopOK,
     DestroyJoinsOK, StartOK DEF Main
<1>2. ASSUME NEW t \in Threads, Thread(t) \/ Fail(t) \/ Serve(t) PROVE IInv'
  BY <1>2, BeginOK, LoopOK, SendOK, ReturnOK, MarkOK, FinishOK, CancelOK, FailOK, ServeOK
     DEF Thread
<1>3. ASSUME NEW m \in astray, Arrive(m) PROVE IInv'
  BY <1>3, ArriveOK
<1>4. CASE Request \/ Forget
  BY <1>4, RequestOK
<1>5. CASE UNCHANGED vars
  BY <1>5, UnchangedOK
<1> QED BY <1>1, <1>2, <1>3, <1>4, <1>5 DEF Next

(* The inductive invariant holds for any number of threads and uploads,    *)
(* whatever fails, arrives late or is forgotten (on-demand-upload.tcc).    *)
THEOREM Inductive == Spec => []IInv
<1>1. Init => IInv
  BY InitOK
<1>2. IInv /\ [Next]_vars => IInv'
  BY StepOK
<1> QED BY <1>1, <1>2, PTL DEF Spec

(* The type invariant; an open call is one that the server knows of        *)
(* (on-demand-upload.h:195-215).                                           *)
THEOREM TypeCorrect == Spec => []TypeOK
<1>1. IInv => TypeOK
  <2> SUFFICES ASSUME IInv PROVE TypeOK
    OBVIOUS
  <2>1. uid \in {held, held - 1}
    BY DEF IInv, Types, UserKnows
  <2>2. ASSUME NEW t \in Threads
        PROVE (pc[t] # "calling" <=> call[t] = NoCall) /\ (call[t].st = "open" <=> entry.deferred = t)
    BY DEF IInv, CallOK, NoCall
  <2> QED BY <2>1, <2>2 DEF IInv, Types, TypeOK
<1> QED BY <1>1, Inductive, PTL

(* Only the current upload thread runs on: every other one that runs was   *)
(* asked to stop and is among those the destructor joins                   *)
(* (on-demand-upload.tcc:235-245, 288-317).                                *)
THEOREM OneAlwaysRunsOn == Spec => []OneRunsOn
<1>1. IInv => OneRunsOn
  BY DEF IInv
<1> QED BY <1>1, Inductive, PTL

(* A thread that is taken for finished makes no call any more, also when   *)
(* ids are used again (on-demand-upload.tcc:145-149, 288-317).             *)
THEOREM SafeAreAlwaysFinished == Spec => []SafeAreFinished
<1>1. IInv => SafeAreFinished
  BY DEF IInv
<1> QED BY <1>1, Inductive, PTL

(* The flags speak of the current upload, however many threads answer late *)
(* (on-demand-upload.tcc:160-169, 191-196).                                *)
THEOREM FlagsAlwaysTellTruth == Spec => []FlagsTellTruth
<1>1. IInv => FlagsTellTruth
  BY DEF IInv
<1> QED BY <1>1, Inductive, PTL
=============================================================================
