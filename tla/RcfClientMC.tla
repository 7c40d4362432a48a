----------------------------- MODULE RcfClientMC -----------------------------
(* Instances of the client's parts of RCF for TLC: the calls of a stub,    *)
(* callers that retry, an upload and a download of a file, and a           *)
(* subscription.  Each is checked against its own threads and peer while   *)
(* the others are at rest: what it needs of another is among its own       *)
(* actions, as of the server that it answers or is lost, and of the        *)
(* publisher that it sends calls, pings, or nothing.                       *)
EXTENDS Subscription, TLC

CONSTANTS
    MaxCalls, MaxPings, MaxChanges,                     \* calls
    Callers, attempt_num_max,                           \* callers that retry
    Size, ChunkSize, MaxAttempts, MaxFaults,            \* files
    Windows,                                            \* uploads
    First, Last, Quotas, ClientQuota, CountBits, MaxQuotaChanges    \* downloads

VARIABLES
    stub, wire, requests, gone, closes, pings,              \* ClientCall
    rpc, attempts_performed, performed, up, switched,       \* RetryingClient
    client, request, reply, info, known, raced,             \* FileUpload and FileDownload
    temp, exists, final, handle, file, quota, changes,
    part        \* the part that runs

C == INSTANCE ClientCall WITH client <- stub, inbox <- requests
R == INSTANCE RetryingClient WITH Clients <- Callers, pc <- rpc, changes <- switched
U == INSTANCE FileUpload
D == INSTANCE FileDownload

ASSUME PartsAssumption == R!RetryAssumption /\ U!UploadAssumption /\ D!DownloadAssumption

callVars == <<stub, wire, requests, gone, closes, pings>>
retryVars == <<rpc, attempts_performed, performed, up, switched>>
fileVars == <<client, request, reply, info, known, raced>>
uploadOnly == <<temp, exists, final>>
downloadOnly == <<handle, file, quota, changes>>
allVars == <<vars, callVars, retryVars, fileVars, uploadOnly, downloadOnly, part>>

Subscribing(Step) ==
    /\ part = "subscription" /\ Step
    /\ UNCHANGED <<callVars, retryVars, fileVars, uploadOnly, downloadOnly, part>>
Calling(Step) ==
    /\ part = "call" /\ Step
    /\ UNCHANGED <<vars, retryVars, fileVars, uploadOnly, downloadOnly, part>>
Retrying(Step) ==
    /\ part = "retry" /\ Step
    /\ UNCHANGED <<vars, callVars, fileVars, uploadOnly, downloadOnly, part>>
Uploading(Step) ==
    /\ part = "upload" /\ Step /\ UNCHANGED <<vars, callVars, retryVars, downloadOnly, part>>
Downloading(Step) ==
    /\ part = "download" /\ Step /\ UNCHANGED <<vars, callVars, retryVars, uploadOnly, part>>

(* A part at rest is in one of its initial states; a transfer of a file is *)
(* an upload or a download.                                                *)
ClientInit ==
    /\ Init /\ C!Init /\ R!Init
    /\ \/ /\ part \in {"subscription", "call", "retry", "upload"} /\ U!Init
          /\ handle = <<>> /\ file = <<>> /\ quota = 0 /\ changes = 0
       \/ part = "download" /\ D!Init /\ temp = <<>> /\ exists = {} /\ final = <<>>
    /\ part # "call" => ~stub.protocol
    /\ part # "retry" => up

ClientNext ==
    \/ Subscribing(Next) \/ Calling(C!Next) \/ Retrying(R!Next)
    \/ Uploading(U!Next) \/ Downloading(D!Next)

(* The fairness of each part; what is asked of different parts is asked    *)
(* together, as only one of them runs in a behaviour.                      *)
ClientFairness ==
    /\ WF_allVars(Calling(C!Handler) \/ Uploading(U!Client) \/ Downloading(D!Client))
    /\ \A s \in U!Sessions : WF_allVars(Uploading(U!Server(s)) \/ Downloading(D!Server(s)))
    /\ \A i \in U!Sessions \union D!Attempts :
           WF_allVars((i \in U!Sessions /\ Uploading(U!IoTask(i))) \/ Downloading(D!IoTask(i)))
    /\ \A s \in Subs : WF_allVars(Subscribing(Session(s))) /\ SF_allVars(Subscribing(Create(s)))
    /\ \A t \in Threads : SF_allVars(Subscribing(Close(t)))
    /\ SF_allVars(Subscribing(Harvest)) /\ SF_allVars(Subscribing(Stop))

ClientSpec == ClientInit /\ [][ClientNext]_allVars /\ ClientFairness

AnswerIsOwn == C!AnswerIsOwn
OutcomeIsFinal == C!OutcomeIsFinal
EveryCallEnds == C!EveryCallEnds
AgainOnlyIfLost == R!AgainOnlyIfLost
UploadIntact == part = "upload" => U!UploadIntact
DownloadIntact == part = "download" => D!DownloadIntact
TransferEnds ==
    client.pc # "idle" ~>
        \/ client.pc \in {"idle", "done"}
        \/ part = "upload" /\ U!Spins /\ (client.lowered \/ client.id \in raced)
=============================================================================
