----------------------------- MODULE FileUpload -----------------------------
(***************************************************************************)
(* The upload of a file: ClientStub::uploadFiles(), which reads ahead and  *)
(* keeps to a rate, and FileTransferService of the server, which writes    *)
(* what it gets with the threads of a pool, after it has answered.  An     *)
(* upload that failed is resumed with its id, on the same connection or on *)
(* another one, while the server may still be busy with the first one.     *)
(*                                                                         *)
(* The file has Size blocks, which are their positions, and is not empty.  *)
(* A window's worth of blocks stands for a rate, and 0 for no limit.       *)
(***************************************************************************)
EXTENDS Naturals, Sequences

CONSTANTS
    Size, ChunkSize,    \* blocks of the file, and of the client's buffer
    Windows,            \* what may be sent in a window of time
    MaxAttempts,        \* bound: calls of uploadFile()
    MaxFaults           \* bound: connections that are lost

UploadAssumption ==
    Size \in Nat \ {0} /\ ChunkSize \in Nat \ {0} /\ Windows \subseteq Nat
    /\ MaxAttempts \in Nat /\ MaxFaults \in Nat

Sessions == 1 .. MaxFaults + 1
Ids == 1 .. MaxAttempts
Source == [i \in 1 .. Size |-> i]

None == [type |-> "none"]

VARIABLES
    client,     \* the call of uploadFiles(); the fields are given with Init
    request,    \* what a session has been sent and has not answered
    reply,      \* the answer on its way to the client
    info,       \* mUploadInfoPtr of each session
    temp,       \* the ".tmp" file of each upload id
    exists,     \* the ids that have one
    final,      \* the file it becomes
    known,      \* mFileTransfersInProgress
    raced       \* history: ids that were resumed while something was still to be written

vars == <<client, request, reply, info, temp, exists, final, known, raced>>
files == <<temp, exists, final, known, raced>>

Smaller(a, b) == IF a < b THEN a ELSE b

-----------------------------------------------------------------------------
(* The client *)

Upload ==
    /\ client.pc = "idle" /\ client.attempts < MaxAttempts
    /\ client' = [client EXCEPT !.pc = "begin", !.attempts = @ + 1]
    /\ request' = [request EXCEPT ![client.session] =
           [type |-> "begin", id |-> client.id, new |-> client.attempts + 1]]
    /\ UNCHANGED <<reply, info, files>>

(* What is read ahead into a buffer that is filled so far *)
ReadAhead(pos, filled, soFar) ==
    LET room == ChunkSize - filled
        left == IF client.window = 0 THEN room
                ELSE IF soFar < client.window THEN Smaller(room, client.window - soFar) ELSE 0
    IN  Smaller(left, Size - pos)

(* The loop: what was read ahead becomes a chunk, and the next read begins. *)
(* The chunks are sent when the buffer, the window or the file is at its   *)
(* end.                                                                    *)
Read ==
    /\ client.pc = "reading" /\ client.pos < Size
    /\ LET chunk == [offset |-> client.pos,
                      data |-> SubSeq(Source, client.pos + 1, client.pos + client.ahead)]
           chunks == IF client.ahead = 0 THEN client.chunks ELSE Append(client.chunks, chunk)
           pos == client.pos + client.ahead
           filled == client.filled + client.ahead
           soFar == client.soFar + client.ahead
           shouldSend == /\ client.ahead > 0
                         /\ \/ filled = ChunkSize \/ pos = Size
                            \/ client.window \in 1 .. soFar
       IN  /\ client' = [client EXCEPT
                  !.pc = IF shouldSend THEN "calling" ELSE "reading",
                  !.chunks = chunks, !.pos = pos,
                  !.filled = IF shouldSend THEN 0 ELSE filled, !.soFar = soFar,
                  !.ahead = ReadAhead(pos, IF shouldSend THEN 0 ELSE filled, soFar)]
           /\ request' = IF shouldSend
                           THEN [request EXCEPT ![client.session] =
                                    [type |-> "chunks", chunks |-> chunks]]
                           ELSE request
    /\ UNCHANGED <<reply, info, files>>

(* Mutant: all that was sent counts for the next window. *)
CarryOverAll(soFar, window) == soFar

(* A new window takes over what was sent too much. *)
CarryOver(soFar, window) == IF soFar > window THEN soFar - window ELSE 0

(* BeginUpload() has returned. *)
Begun ==
    /\ client.pc = "begin" /\ reply.type = "begun"
    /\ client' = [client EXCEPT !.pc = "reading", !.id = reply.id, !.pos = reply.offset,
                                !.ahead = 0, !.chunks = <<>>, !.filled = 0, !.soFar = 0,
                                !.window = reply.window, !.lowered = FALSE]
    /\ reply' = None
    /\ UNCHANGED <<request, info, files>>

Lowers(window) == window # 0 /\ (client.window = 0 \/ window < client.window)

(* UploadChunks() has returned: the client may have to wait for the window *)
(* to expire, and the progress callback may cancel the upload.             *)
Uploaded ==
    /\ client.pc = "calling" /\ reply.type = "uploaded"
    /\ reply' = None
    /\ \/ client' = [client EXCEPT !.pc = "idle"]
       \/ \E expired \in BOOLEAN :
             /\ reply.window \in 1 .. client.soFar => expired
             /\ client' = [client EXCEPT
                    !.pc = IF client.pos = Size THEN "done" ELSE "reading", !.chunks = <<>>,
                    !.window = reply.window, !.lowered = @ \/ Lowers(reply.window),
                    !.soFar = IF expired /\ reply.window # 0 THEN CarryOver(@, reply.window) ELSE @]
    /\ UNCHANGED <<request, info, files>>

(* The server has thrown an exception. *)
Refused ==
    /\ reply.type = "exception"
    /\ client' = [client EXCEPT !.pc = "idle"]
    /\ reply' = None
    /\ UNCHANGED <<request, info, files>>

(* The connection is lost, or the call times out, and the client connects  *)
(* again; the server may find out later.                                   *)
ConnectionLost ==
    /\ client.pc \in {"begin", "reading", "calling"} /\ client.session <= MaxFaults
    /\ client' = [client EXCEPT !.pc = "idle", !.session = @ + 1]
    /\ reply' = None
    /\ UNCHANGED <<request, info, files>>

-----------------------------------------------------------------------------
(* The server.  A handle that was opened to append writes at the end of    *)
(* its file, wherever it stands, and stands there then; what another       *)
(* writes behind the end leaves a gap of zeros.  It stays with its file    *)
(* when that gets another name; of one that has lost its name, to another  *)
(* file, the end is left open.                                             *)

Written(file, h) ==
    IF h.append THEN file \o h.op
    ELSE [i \in 1 .. h.at |-> IF i <= Len(file) THEN file[i] ELSE 0]
             \o h.op \o SubSeq(file, h.at + Len(h.op) + 1, Len(file))

TempWritten(s) ==
    IF info[s].file = "temp" THEN [temp EXCEPT ![info[s].id] = Written(@, info[s])] ELSE temp

FinalWritten(s) ==
    IF info[s].file = "final" THEN [final EXCEPT ![info[s].id] = Written(@, info[s])] ELSE final

(* Where the handle h stands when it has written *)
Ends(h) ==
    IF ~h.append THEN {h.at + Len(h.op)}
    ELSE CASE h.file = "temp"  -> {Len(temp[h.id]) + Len(h.op)}
           [] h.file = "final" -> {Len(final[h.id]) + Len(h.op)}
           [] OTHER            -> h.at + Len(h.op) .. h.at + Len(h.op) + Size

(* FileIoThreadPool::ioTask(): a thread writes what it was given. *)
IoTask(s) ==
    /\ info[s].op # <<>>
    /\ temp' = TempWritten(s) /\ final' = FinalWritten(s)
    /\ \E end \in Ends(info[s]) : info' = [info EXCEPT ![s].op = <<>>, ![s].at = end]
    /\ UNCHANGED <<client, request, reply, exists, known, raced>>

Answer(s, answer) ==
    /\ request' = [request EXCEPT ![s] = None]
    /\ reply' = IF s = client.session THEN answer ELSE reply

(* A session's upload with nothing open *)
Info(id, resume, pos) ==
    [id |-> id, resume |-> resume, pos |-> pos, file |-> "closed", append |-> FALSE, at |-> 0,
     op |-> <<>>, closing |-> FALSE, completed |-> FALSE]

(* Mutant: an upload that is resumed starts with the last block again. *)
OffsetBefore(id) == IF temp[id] = <<>> THEN 0 ELSE Smaller(Len(temp[id]), Size) - 1

(* "Trim the manifest to account for already uploaded fragments" *)
Offset(id) == IF Len(temp[id]) <= Size THEN Len(temp[id]) ELSE 0

(* The destructor of a FileUploadInfo closes the file, be it before or     *)
(* after what is yet to be written.                                        *)
Destroy(s) ==
    \/ UNCHANGED <<temp, final>>
    \/ info[s].op # <<>> /\ temp' = TempWritten(s) /\ final' = FinalWritten(s)

(* A session that writes a file, or has been sent what it will write *)
Writes(s) == info[s].op # <<>> \/ info[s].closing \/ request[s].type = "chunks"

(* An upload that is not known gets a new id; nobody waits for what is     *)
(* still to be written.                                                    *)
BeginUpload(s) ==
    /\ request[s].type = "begin"
    /\ LET resume == request[s].id \in known
           id == IF resume THEN request[s].id ELSE request[s].new
           offset == IF resume THEN Offset(id) ELSE 0
       IN  /\ known' = known \union {id}
           /\ raced' = IF s = client.session /\ \E t \in Sessions : info[t].id = id /\ Writes(t)
                         THEN raced \union {id} ELSE raced
           /\ info' = [info EXCEPT ![s] = Info(id, resume, offset)]
           /\ \E window \in Windows :
                  Answer(s, [type |-> "begun", id |-> id, offset |-> offset, window |-> window])
    /\ Destroy(s)
    /\ UNCHANGED <<client, exists>>

(* A file is opened for its first chunk: to append if the upload is        *)
(* resumed, and set to where that begins.                                  *)
Opened(h) ==
    IF h.pos = 0 \/ h.resume
      THEN [h EXCEPT !.file = "temp", !.append = h.resume, !.resume = FALSE,
                     !.at = IF ~h.resume THEN 0 ELSE IF h.pos > 0 THEN h.pos ELSE Len(temp[h.id])]
      ELSE h

(* The chunk has to begin where the file ends, and fit. *)
Accepted(h, chunk) == chunk.offset = h.at /\ Len(chunk.data) <= Size - h.at

(* UploadChunks(): the write of the chunk before is waited for, that of    *)
(* this one begins; if it is the last one it is waited for as well.        *)
UploadChunks(s) ==
    /\ request[s].type = "chunks" /\ info[s].op = <<>> /\ ~info[s].closing
    /\ UNCHANGED <<client, final, known, raced>>
    /\ LET h == Opened(info[s])
           chunk == request[s].chunks[1]
           opens == info[s].id # 0 /\ ~info[s].completed /\ Len(request[s].chunks) = 1
           last == chunk.offset + Len(chunk.data) = Size
       IN  /\ temp' = IF opens /\ h.file = "temp" /\ info[s].file = "closed" /\ ~h.append
                        THEN [temp EXCEPT ![h.id] = <<>>] ELSE temp
           /\ exists' = IF opens /\ h.file = "temp" THEN exists \union {h.id} ELSE exists
           /\ IF opens /\ Accepted(h, chunk)
                THEN /\ info' = [info EXCEPT ![s] =
                            [h EXCEPT !.op = chunk.data, !.pos = h.at + Len(chunk.data),
                                      !.closing = last]]
                     /\ IF last THEN UNCHANGED <<request, reply>>
                        ELSE \E window \in Windows :
                                 Answer(s, [type |-> "uploaded", window |-> window])
                ELSE /\ info' = [info EXCEPT ![s] = IF opens THEN [h EXCEPT !.pos = h.at] ELSE @]
                     /\ Answer(s, [type |-> "exception"])

(* The last chunk has been written: the file is closed, and gets its name. *)
UploadCompleted(s) ==
    /\ info[s].closing /\ info[s].op = <<>> /\ info[s].id \in exists
    /\ LET id == info[s].id
       IN  /\ final' = [final EXCEPT ![id] = temp[id]]
           /\ temp' = [temp EXCEPT ![id] = <<>>] /\ exists' = exists \ {id}
           /\ info' = [t \in Sessions |->
                  IF t = s
                    THEN [info[s] EXCEPT !.file = "closed", !.closing = FALSE, !.completed = TRUE]
                  ELSE IF info[t].id = id
                    THEN [info[t] EXCEPT !.file = CASE @ = "temp"  -> "final"
                                                    [] @ = "final" -> "gone"
                                                    [] OTHER       -> @]
                  ELSE info[t]]
           /\ known' = known \ {id}
    /\ \E window \in Windows : Answer(s, [type |-> "uploaded", window |-> window])
    /\ UNCHANGED <<client, raced>>

(* Another session has renamed it. *)
RenameFails(s) ==
    /\ info[s].closing /\ info[s].op = <<>> /\ info[s].id \notin exists
    /\ info' = [info EXCEPT ![s].file = "closed", ![s].closing = FALSE]
    /\ Answer(s, [type |-> "exception"])
    /\ UNCHANGED <<client, files>>

(* The server notices that a connection was lost.                          *)
SessionEnds(s) ==
    /\ s < client.session /\ (info[s].id # 0 \/ request[s] # None) /\ ~info[s].closing
    /\ info' = [info EXCEPT ![s] = Info(0, FALSE, 0)]
    /\ request' = [request EXCEPT ![s] = None]
    /\ Destroy(s)
    /\ UNCHANGED <<client, reply, exists, known, raced>>

-----------------------------------------------------------------------------
Init ==
    /\ client = [pc |-> "idle", id |-> 0, session |-> 1, attempts |-> 0,
                 pos |-> 0,             \* filePos
                 ahead |-> 0,           \* what readOp has been asked for
                 chunks |-> <<>>,
                 filled |-> 0,          \* bufferReadPos
                 soFar |-> 0, window |-> 0,     \* windowBytesSoFar, windowBytesTotal
                 lowered |-> FALSE]     \* history: the limit became stricter meanwhile
    /\ request = [s \in Sessions |-> None]
    /\ reply = None
    /\ info = [s \in Sessions |-> Info(0, FALSE, 0)]
    /\ temp = [i \in Ids |-> <<>>] /\ exists = {}
    /\ final = [i \in Ids |-> <<>>]
    /\ known = {} /\ raced = {}

Client == Read \/ Begun \/ Uploaded \/ Refused
Server(s) == BeginUpload(s) \/ UploadChunks(s) \/ UploadCompleted(s) \/ RenameFails(s)

Next ==
    \/ Upload \/ Client \/ ConnectionLost
    \/ \E s \in Sessions : Server(s) \/ IoTask(s) \/ SessionEnds(s)

Spec == Init /\ [][Next]_vars

(* The threads of client and server go on; nobody has to call uploadFile(). *)
FairSpec ==
    /\ Spec /\ WF_vars(Client)
    /\ \A s \in Sessions : WF_vars(Server(s)) /\ WF_vars(IoTask(s))

-----------------------------------------------------------------------------
(* Properties *)

(* A file without ".tmp" is the client's file, however often its upload    *)
(* was interrupted (FileTransferService.cpp:155-175), unless it was        *)
(* resumed while a session was still to write it: nobody waits for that.   *)
UploadIntact == \A i \in Ids \ raced : final[i] \in {<<>>, Source}

(* The loop does nothing any more: there is nothing left to read, or the   *)
(* window is full, which only a call would renew (FileStream.cpp:789,      *)
(* :815, :892).                                                            *)
Spins ==
    /\ client.pc = "reading" /\ client.ahead = 0
    /\ client.pos = Size \/ client.window \in 1 .. client.soFar

(* FileStream.cpp:632: "Client goes into a loop, sending chunks until all  *)
(* files are transferred", if it is neither refused nor interrupted; but   *)
(* the loop spins if the limit became stricter, when what was sent before  *)
(* fills the window, or if another session has written the whole file.     *)
TransferEnds ==
    client.pc # "idle" ~>
        \/ client.pc \in {"idle", "done"}
        \/ Spins /\ (client.lowered \/ client.id \in raced)
=============================================================================
