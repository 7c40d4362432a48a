---------------------------- MODULE FileDownload ----------------------------
(***************************************************************************)
(* The download of a file: ClientStub::downloadFiles(), which writes what  *)
(* it gets with the threads of a pool while it asks for more, and          *)
(* FileTransferService of the server, which reads ahead and keeps to a     *)
(* rate.  A download that failed goes on where the client's file ends.     *)
(*                                                                         *)
(* The file has Size blocks, which are their positions; the client wants   *)
(* those after First up to Last.  A window's worth of blocks stands for a  *)
(* rate, and 0 for no limit.                                               *)
(***************************************************************************)
EXTENDS Integers, Sequences

CONSTANTS
    Size, First, Last, ChunkSize,
    Quotas,             \* what the server may allow in a window of time
    ClientQuota,        \* what the client allows
    CountBits,          \* width of the counters of a window
    MaxAttempts,        \* bound: calls of downloadFile()
    MaxFaults,          \* bound: connections that are lost
    MaxQuotaChanges     \* bound: calls of setQuota()

DownloadAssumption ==
    /\ Size \in Nat /\ Last \in 1 .. Size /\ First \in 0 .. Last - 1
    /\ ChunkSize \in Nat \ {0} /\ Quotas \subseteq Nat /\ ClientQuota \in Nat
    /\ CountBits \in Nat /\ 2 ^ CountBits \in Nat \ {0}    \* which follows, but not for provers
    /\ MaxAttempts \in Nat /\ MaxFaults \in Nat /\ MaxQuotaChanges \in Nat

Sessions == 1 .. MaxFaults + 1
Attempts == 1 .. MaxAttempts
Wanted == [i \in 1 .. Last - First |-> First + i]
Blocks(from, n) == [i \in 1 .. n |-> from + i]

None == [type |-> "none"]

VARIABLES
    client,     \* the call of downloadFiles(); the fields are given with Init
    request,    \* what a session has been sent and has not answered
    reply,      \* the answer on its way to the client
    info,       \* mDownloadInfoPtr of each session
    handle,     \* the handle of the client's file of each attempt, and what is to be written
    file,       \* the client's file
    known,      \* whether the download is one of mFileTransfersInProgress
    quota, changes,
    raced       \* history: attempts that began while one before was still to write

vars == <<client, request, reply, info, handle, file, known, quota, changes, raced>>

Smaller(a, b) == IF a < b THEN a ELSE b
Count(n) == n % 2 ^ CountBits

-----------------------------------------------------------------------------
(* The client *)

Send(message) == request' = [request EXCEPT ![client.session] = message]

Download ==
    /\ client.pc = "idle" /\ client.attempts < MaxAttempts
    /\ client' = [client EXCEPT !.pc = "begin", !.attempts = @ + 1]
    /\ Send([type |-> "begin"])
    /\ UNCHANGED <<reply, info, handle, file, known, quota, changes, raced>>

(* BeginDownload() has returned: the position is where the client's file   *)
(* ends, and the file is opened to append, or else made anew; nobody waits *)
(* for what an attempt before is still to write.                           *)
Begun ==
    /\ client.pc = "begin" /\ reply.type = "begun"
    /\ raced' = raced \union {a \in {client.attempts} : \E b \in Attempts : handle[b].op # <<>>}
    /\ LET pos == Smaller(First + Len(file), Last)
           append == Len(file) > 0
       IN  IF pos = Last
             THEN /\ client' = [client EXCEPT !.pc = "done"]
                  /\ UNCHANGED <<request, handle, file>>
             ELSE /\ client' = [client EXCEPT !.pc = IF pos > 0 THEN "trim" ELSE "ask", !.pos = pos,
                                              !.used = 0, !.wait = FALSE, !.waited = FALSE]
                  /\ IF pos > 0 THEN Send([type |-> "trim", pos |-> pos]) ELSE UNCHANGED request
                  /\ handle' = [handle EXCEPT ![client.attempts] =
                         [append |-> append, at |-> Len(file), op |-> <<>>]]
                  /\ file' = IF append THEN file ELSE <<>>
    /\ reply' = None
    /\ UNCHANGED <<info, known, quota, changes>>

Trimmed ==
    /\ client.pc = "trim" /\ reply.type = "trimmed"
    /\ client' = [client EXCEPT !.pc = "ask"]
    /\ reply' = None
    /\ UNCHANGED <<request, info, handle, file, known, quota, changes, raced>>

(* The next round trip, after the waits the server and the client's own    *)
(* window call for                                                         *)
Ask ==
    /\ client.pc = "ask"
    /\ \E expired \in BOOLEAN :
           /\ client.wait => expired
           /\ LET used == IF expired THEN 0 ELSE client.used
                  wanted == Smaller(ChunkSize, Last - client.pos)
                  size == IF ClientQuota = 0 THEN wanted ELSE Smaller(wanted, ClientQuota - used)
              IN  /\ Send([type |-> "chunks", pos |-> client.pos, size |-> size, waited |-> client.waited])
                  /\ client' = [client EXCEPT !.pc = "asked", !.used = used, !.wait = size < wanted]
    /\ UNCHANGED <<reply, info, handle, file, known, quota, changes, raced>>

(* DownloadChunks() has returned: the write of the chunk before is waited  *)
(* for, that of this one begins.                                           *)
Received ==
    /\ client.pc = "asked" /\ reply.type = "chunk" /\ handle[client.attempts].op = <<>>
    /\ handle' = [handle EXCEPT ![client.attempts].op = reply.data]
    /\ LET pos == client.pos + Len(reply.data)
       IN  client' = [client EXCEPT !.pc = IF pos = Last THEN "closing" ELSE "ask", !.pos = pos,
                                    !.used = @ + Len(reply.data), !.waited = reply.wait]
    /\ reply' = None
    /\ UNCHANGED <<request, info, file, known, quota, changes, raced>>

(* The last chunk has been written. *)
Close ==
    /\ client.pc = "closing" /\ handle[client.attempts].op = <<>>
    /\ client' = [client EXCEPT !.pc = "done"]
    /\ UNCHANGED <<request, reply, info, handle, file, known, quota, changes, raced>>

Refused ==
    /\ reply.type = "exception"
    /\ client' = [client EXCEPT !.pc = "idle"]
    /\ reply' = None
    /\ UNCHANGED <<request, info, handle, file, known, quota, changes, raced>>

(* The connection is lost, or the call times out; what was to be written   *)
(* still is.                                                               *)
ConnectionLost ==
    /\ client.pc \in {"begin", "trim", "ask", "asked"} /\ client.session <= MaxFaults
    /\ client' = [client EXCEPT !.pc = "idle", !.session = @ + 1]
    /\ reply' = None
    /\ UNCHANGED <<request, info, handle, file, known, quota, changes, raced>>

(* FileIoThreadPool::ioTask() of the client; to append is to write where   *)
(* the file ends.                                                          *)
IoTask(a) ==
    /\ handle[a].op # <<>>
    /\ LET h == handle[a]
           at == IF h.append THEN Len(file) ELSE h.at
       IN  /\ file' = SubSeq(file, 1, at) \o h.op \o SubSeq(file, at + Len(h.op) + 1, Len(file))
           /\ handle' = [handle EXCEPT ![a].op = <<>>, ![a].at = at + Len(h.op)]
    /\ UNCHANGED <<client, request, reply, info, known, quota, changes, raced>>

-----------------------------------------------------------------------------
(* The server *)

Answer(s, answer) ==
    /\ request' = [request EXCEPT ![s] = None]
    /\ reply' = IF s = client.session THEN answer ELSE reply

NoDownload == [open |-> FALSE]

(* A download that was completed is no longer known. *)
BeginDownload(s) ==
    /\ request[s].type = "begin"
    /\ IF known
         THEN /\ info' = [info EXCEPT ![s] =
                     [open |-> TRUE, pos |-> 0, resume |-> FALSE, at |-> 0, read |-> <<>>,
                      remaining |-> <<>>, buffer |-> 0, total |-> 0, soFar |-> 0]]
              /\ Answer(s, [type |-> "begun"])
         ELSE info' = info /\ Answer(s, [type |-> "exception"])
    /\ UNCHANGED <<client, handle, file, known, quota, changes, raced>>

TrimDownload(s) ==
    /\ request[s].type = "trim"
    /\ info' = [info EXCEPT ![s].pos = request[s].pos, ![s].resume = TRUE]
    /\ Answer(s, [type |-> "trimmed"])
    /\ UNCHANGED <<client, handle, file, known, quota, changes, raced>>

(* The window a call is served in: what the last one left is carried over, *)
(* and there is no window without a limit.                                 *)
Window(h, expired) ==
    LET total == IF expired THEN Count(quota + Count(h.total - h.soFar)) ELSE h.total
    IN  IF quota = 0 THEN [total |-> h.total, soFar |-> h.soFar]
        ELSE [total |-> IF total = 0 THEN quota ELSE total, soFar |-> IF expired THEN 0 ELSE h.soFar]

Left(window) == Count(window.total - window.soFar)

Limit(window, size) == IF quota = 0 THEN size ELSE Smaller(size, Left(window))

(* Mutant: the download that is resumed is read from where the file begins. *)
OpenedAtBegin(h) == [h EXCEPT !.resume = FALSE, !.at = IF h.pos = 0 \/ h.resume THEN 0 ELSE @]

Opened(h) == [h EXCEPT !.resume = FALSE, !.at = IF h.pos = 0 \/ h.resume THEN h.pos ELSE @]

(* The data of a chunk is what was read ahead, as far as it fits, or it is *)
(* read now.  What follows is read ahead when nothing of that remains.     *)
Chunk(h, size) ==
    LET ahead == IF h.read # <<>> THEN h.read ELSE h.remaining
    IN  IF ahead # <<>> THEN SubSeq(ahead, 1, Smaller(Len(ahead), size))
        ELSE Blocks(h.at, Smaller(size, Size - h.pos))

AfterChunk(h, data, size) ==
    LET ahead == IF h.read # <<>> THEN h.read ELSE h.remaining
        remaining == SubSeq(ahead, Len(data) + 1, Len(ahead))
        at == IF ahead = <<>> THEN h.at + Len(data) ELSE h.at
        pos == h.pos + Len(data)
        buffer == IF h.buffer = 0 THEN size ELSE h.buffer
        reads == remaining = <<>> /\ 0 < pos /\ pos < Size
        next == IF reads THEN Blocks(at, Smaller(Size - pos, buffer)) ELSE <<>>
    IN  [h EXCEPT !.pos = pos, !.remaining = remaining, !.read = next, !.at = at + Len(next),
                  !.buffer = IF reads THEN buffer ELSE @]

DownloadChunks(s) ==
    /\ request[s].type = "chunks"
    /\ UNCHANGED <<client, handle, file, quota, changes, raced>>
    /\ IF ~info[s].open \/ request[s].pos # info[s].pos
         THEN Answer(s, [type |-> "exception"]) /\ UNCHANGED <<info, known>>
         ELSE \E expired \in BOOLEAN :
                  /\ request[s].waited => expired
                  /\ LET window == Window(info[s], expired)
                         h == Opened(info[s])
                         data == Chunk(h, Limit(window, request[s].size))
                         next == [AfterChunk(h, data, request[s].size) EXCEPT
                                     !.total = window.total, !.soFar = Count(window.soFar + Len(data))]
                         completed == next.pos = Size
                     IN  /\ info' = [info EXCEPT ![s] = IF completed THEN NoDownload ELSE next]
                         /\ known' = (known /\ ~completed)
                         /\ Answer(s, [type |-> "chunk", data |-> data,
                                       wait |-> quota # 0 /\ Left(window) < request[s].size])

(* The server notices that a connection was lost. *)
SessionEnds(s) ==
    /\ s < client.session /\ (info[s].open \/ request[s] # None)
    /\ info' = [info EXCEPT ![s] = NoDownload]
    /\ request' = [request EXCEPT ![s] = None]
    /\ UNCHANGED <<client, reply, handle, file, known, quota, changes, raced>>

(* BandwidthQuota::setQuota(), or another transfer takes its share. *)
SetQuota ==
    /\ changes < MaxQuotaChanges
    /\ quota' \in Quotas \ {quota}
    /\ changes' = changes + 1
    /\ UNCHANGED <<client, request, reply, info, handle, file, known, raced>>

-----------------------------------------------------------------------------
Init ==
    /\ client = [pc |-> "idle", session |-> 1, attempts |-> 0, pos |-> 0,
                 used |-> 0, wait |-> FALSE,    \* transferWindowBytes, localWait
                 waited |-> FALSE]              \* adviseWaitMs
    /\ request = [s \in Sessions |-> None]
    /\ reply = None
    /\ info = [s \in Sessions |-> NoDownload]
    /\ handle = [a \in Attempts |-> [append |-> FALSE, at |-> 0, op |-> <<>>]]
    /\ file = <<>>
    /\ known = TRUE
    /\ quota \in Quotas /\ changes = 0 /\ raced = {}

Client == Begun \/ Trimmed \/ Ask \/ Received \/ Close \/ Refused
Server(s) == BeginDownload(s) \/ TrimDownload(s) \/ DownloadChunks(s)

Next ==
    \/ Download \/ Client \/ ConnectionLost \/ SetQuota
    \/ \E a \in Attempts : IoTask(a)
    \/ \E s \in Sessions : Server(s) \/ SessionEnds(s)

Spec == Init /\ [][Next]_vars

(* The threads of client and server go on; nobody has to call              *)
(* downloadFile().                                                         *)
FairSpec ==
    /\ Spec /\ WF_vars(Client)
    /\ \A s \in Sessions : WF_vars(Server(s))
    /\ \A a \in Attempts : WF_vars(IoTask(a))

-----------------------------------------------------------------------------
(* Properties *)

(* What the client has is the beginning of what it wants, so that the      *)
(* download can go on from there, and all of it in the end                 *)
(* (FileStream.cpp:1070-1080), unless it went on while an attempt before   *)
(* was still to write: nobody waits for that.                              *)
DownloadIntact ==
    \/ raced # {}
    \/ /\ Len(file) <= Len(Wanted) /\ file = SubSeq(Wanted, 1, Len(file))
       /\ client.pc = "done" => file = Wanted

(* FileTransferService.cpp:584, an assertion: no more is sent in a window  *)
(* than it has, in front of every call a limit applies to.                 *)
WindowNotExceeded ==
    [][\A s \in Sessions : DownloadChunks(s) /\ info[s].open /\ quota # 0 => info[s].soFar <= info[s].total]_vars

(* A call of downloadFile() returns or throws, whatever the limits are.    *)
TransferEnds == client.pc # "idle" ~> client.pc \in {"idle", "done"}
=============================================================================
