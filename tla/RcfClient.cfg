\* A client: three calls, pings, a connection that is closed.  Two callers that try three times.
\* A file of five blocks, two attempts, one connection that is lost; limits that come and go.
\* A subscription, which its user closes or drops, and its own servant may close.
SPECIFICATION ClientSpec
CONSTANTS
  MaxCalls = 3
  MaxPings = 2
  MaxChanges = 2
  Callers = {c1, c2}
  attempt_num_max = 3
  Size = 5
  ChunkSize = 2
  MaxAttempts = 2
  MaxFaults = 1
  Windows = {0, 1}
  First = 0
  Last = 5
  Quotas = {0, 2}
  ClientQuota = 0
  CountBits = 5
  MaxQuotaChanges = 1
  Subs = {s1}
INVARIANTS AnswerIsOwn AgainOnlyIfLost UploadIntact DownloadIntact NoCallAfterClose GoneIsClosed
PROPERTIES OutcomeIsFinal EveryCallEnds TransferEnds 
CHECK_DEADLOCK FALSE
