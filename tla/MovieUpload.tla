----------------------------- MODULE MovieUpload -----------------------------
(***************************************************************************)
(* Uploads of files to one movie process: the client, the stream and the   *)
(* handler, from                                                           *)
(*   cmd/uploadclient/main.go                                              *)
(*   movie/internal/handler/grpc/grpc.go (UploadFile)                      *)
(*                                                                         *)
(* A file is read and sent in chunks of 1024 bytes; the k-th chunk of an   *)
(* upload ends up in the k-th cell of the file it is written to, because   *)
(* every handler writes through a descriptor of its own, from offset 0.    *)
(* Clients, connections, the disk and the process may fail at any time.    *)
(***************************************************************************)
EXTENDS Integers

CONSTANTS
  Uploads,    \* runs of the client, each of one file
  Names,      \* names of files on the disk of the movie process
  MaxChunks,  \* the longest file, in chunks
  Window,     \* chunks that the flow control of a stream lets a client be ahead
  Absent,     \* what a cell beyond the end of a file holds
  Hole        \* what a cell holds that was skipped

ASSUME UploadAssumption ==
  /\ MaxChunks \in Nat /\ Window \in Nat \ {0}
  /\ Absent \notin Uploads /\ Hole \notin Uploads /\ Absent # Hole

VARIABLES
  name,     \* the name an upload is sent under
  size,     \* chunks of its source
  client,   \* the client
  sent,     \* chunks it has sent
  handler,  \* the goroutine of UploadFile
  recvd,    \* chunks the handler has received
  open,     \* uploads whose handler has a file
  offset,   \* chunks written through that file
  status,   \* what the handler has returned
  broken,   \* uploads whose stream is lost
  cells,    \* the files: whose chunk each cell holds
  owner,    \* history: the upload that created the file last
  overlap   \* history: uploads that had a file open with another one of the name

clientVars == <<client, sent>>
handlerVars == <<handler, recvd, open, offset, status>>
diskVars == <<cells, owner, overlap>>
vars == <<name, size, clientVars, handlerVars, broken, diskVars>>

Positions == 1..MaxChunks

TypeOK ==
  /\ name \in [Uploads -> Names]
  /\ size \in [Uploads -> 0..MaxChunks]
  /\ client \in [Uploads -> {"idle", "sending", "waiting", "ok", "failed"}]
  /\ sent \in [Uploads -> 0..MaxChunks]
  /\ handler \in [Uploads -> {"off", "recv", "create", "write", "close", "returned", "dead"}]
  /\ recvd \in [Uploads -> 0..MaxChunks]
  /\ open \subseteq Uploads
  /\ offset \in [Uploads -> 0..MaxChunks]
  /\ status \in [Uploads -> {"none", "OK", "error"}]
  /\ broken \subseteq Uploads
  /\ cells \in [Names -> [Positions -> Uploads \cup {Absent, Hole}]]
  /\ owner \in [Names -> Uploads \cup {Absent}]
  /\ overlap \subseteq Uploads
  /\ \A u \in Uploads : offset[u] <= recvd[u] /\ recvd[u] <= sent[u] /\ sent[u] <= size[u]

Init ==
  /\ name \in [Uploads -> Names]
  /\ size \in [Uploads -> 0..MaxChunks]
  /\ client = [u \in Uploads |-> "idle"] /\ sent = [u \in Uploads |-> 0]
  /\ handler = [u \in Uploads |-> "off"] /\ recvd = [u \in Uploads |-> 0]
  /\ open = {} /\ offset = [u \in Uploads |-> 0]
  /\ status = [u \in Uploads |-> "none"]
  /\ broken = {}
  /\ cells = [n \in Names |-> [k \in Positions |-> Absent]]
  /\ owner = [n \in Names |-> Absent] /\ overlap = {}

-----------------------------------------------------------------------------
(* The client *)

\* uploadFile opens the source and a stream; the server starts its handler.
Begin(u) ==
  /\ client[u] = "idle"
  /\ client' = [client EXCEPT ![u] = "sending"]
  /\ handler' = [handler EXCEPT ![u] = "recv"]
  /\ UNCHANGED <<name, size, sent, recvd, open, offset, status, broken, diskVars>>

\* One chunk is read and sent; Send waits for the flow control.
Send(u) ==
  /\ client[u] = "sending" /\ u \notin broken
  /\ sent[u] < size[u] /\ sent[u] - recvd[u] < Window
  /\ sent' = [sent EXCEPT ![u] = @ + 1]
  /\ UNCHANGED <<name, size, client, handlerVars, broken, diskVars>>

\* The client is done for: log.Fatalf ends it, and its stream with it.
Fail(u) ==
  /\ client' = [client EXCEPT ![u] = "failed"]
  /\ broken' = broken \cup {u}
  /\ UNCHANGED <<name, size, sent, handlerVars, diskVars>>

\* There is no source, or no stream.
BeginFails(u) == client[u] = "idle" /\ Fail(u)

\* The next chunk of the source cannot be read.
ReadFails(u) == client[u] = "sending" /\ sent[u] < size[u] /\ Fail(u)

\* Faulty variant of SendFails: only a lost connection ends a blocked Send.
SendFailsWhenBroken(u) ==
  /\ client[u] = "sending" /\ sent[u] < size[u]
  /\ u \in broken
  /\ Fail(u)

\* Send is an error once the stream has ended, for whatever reason.
SendFails(u) ==
  /\ client[u] = "sending" /\ sent[u] < size[u]
  /\ u \in broken \/ status[u] # "none"
  /\ Fail(u)

\* Faulty variant of CloseSend: nobody waits for the answer.
CloseSendOnly(u) ==
  /\ client[u] = "sending" /\ sent[u] = size[u]
  /\ client' = [client EXCEPT ![u] = "ok"]
  /\ UNCHANGED <<name, size, sent, handlerVars, broken, diskVars>>

\* At the end of the source, CloseAndRecv ends the client's side.
CloseSend(u) ==
  /\ client[u] = "sending" /\ sent[u] = size[u]
  /\ client' = [client EXCEPT ![u] = "waiting"]
  /\ UNCHANGED <<name, size, sent, handlerVars, broken, diskVars>>

\* The rest of CloseAndRecv: the answer comes when the handler has returned.
Answered(u) ==
  /\ client[u] = "waiting" /\ u \notin broken
  /\ handler[u] = "returned" /\ status[u] = "OK"
  /\ client' = [client EXCEPT ![u] = "ok"]
  /\ UNCHANGED <<name, size, sent, handlerVars, broken, diskVars>>

Refused(u) ==
  /\ client[u] = "waiting"
  /\ \/ u \in broken
     \/ handler[u] = "returned" /\ status[u] = "error"
  /\ Fail(u)

-----------------------------------------------------------------------------
(* The handler *)

\* The handler returns st; the deferred Close of its file, if any, is next.
Return(u, st) ==
  /\ handler' = [handler EXCEPT ![u] = "close"]
  /\ status' = [status EXCEPT ![u] = st]

\* Recv: the next chunk, which the first time needs a file.
Recv(u) ==
  /\ handler[u] = "recv" /\ recvd[u] < sent[u]
  /\ recvd' = [recvd EXCEPT ![u] = @ + 1]
  /\ handler' = [handler EXCEPT ![u] = IF u \in open THEN "write" ELSE "create"]
  /\ UNCHANGED <<name, size, clientVars, open, offset, status, broken, diskVars>>

\* Recv: io.EOF, and SendAndClose, whose error the handler would return.
RecvEOF(u) ==
  /\ handler[u] = "recv" /\ recvd[u] = size[u] /\ client[u] # "sending"
  /\ \/ Return(u, "OK")
     \/ u \in broken /\ Return(u, "error")
  /\ UNCHANGED <<name, size, clientVars, recvd, open, offset, broken, diskVars>>

\* Faulty variant of RecvError: every error of Recv ends the upload well.
RecvErrorIsEOF(u) ==
  /\ handler[u] = "recv" /\ u \in broken
  /\ Return(u, "OK")
  /\ UNCHANGED <<name, size, clientVars, recvd, open, offset, broken, diskVars>>

\* Recv: the stream is lost; chunks that were sent may be lost with it.
RecvError(u) ==
  /\ handler[u] = "recv" /\ u \in broken
  /\ Return(u, "error")
  /\ UNCHANGED <<name, size, clientVars, recvd, open, offset, broken, diskVars>>

\* Uploads other than u that have a file of the name of u open.
Rivals(u) == {v \in open \ {u} : name[v] = name[u]}

\* Faulty variant of Create: an existing file keeps its content.
CreateWithoutTruncation(u) ==
  /\ handler[u] = "create"
  /\ open' = open \cup {u}
  /\ owner' = [owner EXCEPT ![name[u]] = u]
  /\ overlap' = IF Rivals(u) = {} THEN overlap ELSE overlap \cup Rivals(u) \cup {u}
  /\ handler' = [handler EXCEPT ![u] = "write"]
  /\ UNCHANGED <<name, size, clientVars, recvd, offset, status, broken, cells>>

\* os.Create empties a file that exists, whoever else has it open.
Create(u) ==
  /\ handler[u] = "create"
  /\ open' = open \cup {u}
  /\ cells' = [cells EXCEPT ![name[u]] = [k \in Positions |-> Absent]]
  /\ owner' = [owner EXCEPT ![name[u]] = u]
  /\ overlap' = IF Rivals(u) = {} THEN overlap ELSE overlap \cup Rivals(u) \cup {u}
  /\ handler' = [handler EXCEPT ![u] = "write"]
  /\ UNCHANGED <<name, size, clientVars, recvd, offset, status, broken>>

CreateFails(u) ==
  /\ handler[u] = "create"
  /\ Return(u, "error")
  /\ UNCHANGED <<name, size, clientVars, recvd, open, offset, broken, diskVars>>

\* The file after u has written a chunk at its offset: a gap that another
\* upload's Create has left behind is filled with a hole.
Written(u) ==
  [k \in Positions |->
     IF k = offset[u] + 1 THEN u
     ELSE IF k <= offset[u] /\ cells[name[u]][k] = Absent THEN Hole
     ELSE cells[name[u]][k]]

Write(u) ==
  /\ handler[u] = "write"
  /\ cells' = [cells EXCEPT ![name[u]] = Written(u)]
  /\ offset' = [offset EXCEPT ![u] = @ + 1]
  /\ handler' = [handler EXCEPT ![u] = "recv"]
  /\ UNCHANGED <<name, size, clientVars, recvd, open, status, broken, owner, overlap>>

\* Faulty variant of WriteFails: the chunk is written again, from its start.
WriteIsRetried(u) ==
  /\ handler[u] = "write"
  /\ cells' = [cells EXCEPT ![name[u]] = Written(u)]
  /\ offset' = [offset EXCEPT ![u] = @ + 1]
  /\ UNCHANGED <<name, size, clientVars, handler, recvd, open, status, broken, owner, overlap>>

\* A Write that fails has written nothing, or a part, which counts as all.
WriteFails(u) ==
  /\ handler[u] = "write"
  /\ \/ UNCHANGED <<cells, offset>>
     \/ /\ cells' = [cells EXCEPT ![name[u]] = Written(u)]
        /\ offset' = [offset EXCEPT ![u] = @ + 1]
  /\ Return(u, "error")
  /\ UNCHANGED <<name, size, clientVars, recvd, open, broken, owner, overlap>>

\* The deferred Close; its error is logged.
Close(u) ==
  /\ handler[u] = "close"
  /\ open' = open \ {u}
  /\ handler' = [handler EXCEPT ![u] = "returned"]
  /\ UNCHANGED <<name, size, clientVars, recvd, offset, status, broken, diskVars>>

-----------------------------------------------------------------------------
(* The world around them *)

Running(u) == handler[u] \in {"recv", "create", "write", "close"}

\* A connection breaks.
Break(u) ==
  /\ Running(u)
  /\ broken' = broken \cup {u}
  /\ UNCHANGED <<name, size, clientVars, handlerVars, diskVars>>

\* The process ends in the middle of its handlers; its files stay. A client
\* that begins before it runs again has no stream (BeginFails).
Crash ==
  /\ \E u \in Uploads : Running(u)
  /\ handler' = [u \in Uploads |-> IF Running(u) THEN "dead" ELSE handler[u]]
  /\ open' = {}
  /\ broken' = broken \cup {u \in Uploads : Running(u)}
  /\ UNCHANGED <<name, size, clientVars, recvd, offset, status, diskVars>>

Client(u) ==
  \/ Send(u) \/ SendFails(u) \/ CloseSend(u) \/ Answered(u) \/ Refused(u)

Handler(u) ==
  \/ Recv(u) \/ RecvEOF(u) \/ RecvError(u) \/ Create(u) \/ CreateFails(u)
  \/ Write(u) \/ WriteFails(u) \/ Close(u)

Next ==
  \/ \E u \in Uploads : Begin(u) \/ BeginFails(u) \/ ReadFails(u) \/ Client(u) \/ Handler(u) \/ Break(u)
  \/ Crash

Spec == Init /\ [][Next]_vars

\* Clients and handlers run; no failure has to happen.
FairSpec == Spec /\ \A u \in Uploads : WF_vars(Client(u)) /\ WF_vars(Handler(u))

-----------------------------------------------------------------------------
(* Properties *)

\* A file whose last creator never had it open together with another upload
\* is a prefix of that one's source, whatever failed on the way: no chunk of
\* an earlier upload shows through, none is missing in the middle.
SoleUploadIsPrefix ==
  \A u \in Uploads :
    owner[name[u]] = u /\ u \notin overlap =>
      \A k \in Positions : cells[name[u]][k] = IF k <= offset[u] THEN u ELSE Absent

\* Whose chunks may stand where u has written: those of the uploads that it
\* shared the name with.
Sharers(u) == IF u \in overlap THEN {v \in overlap : name[v] = name[u]} ELSE {}

\* "File %s uploaded successfully" (grpc.go:80): when that is the answer to
\* an upload of at least one chunk, the file holds the whole source until the
\* name is used again.  If uploads of the name have overlapped, the chunks may
\* be any of theirs, but none is missing and none is of an older file.
OkIsWhole ==
  \A u \in Uploads :
    status[u] = "OK" /\ size[u] > 0 /\ owner[name[u]] = u =>
      \A k \in Positions :
        /\ k <= size[u] => cells[name[u]][k] \in {u} \cup Sharers(u)
        /\ k > size[u] => u \in overlap \/ cells[name[u]][k] = Absent

\* What the client prints is what the handler has done: it ends well only
\* after all its chunks have been written.
ClientOkIsWritten ==
  \A u \in Uploads : client[u] = "ok" => offset[u] = size[u] /\ u \notin open

\* Every client that has begun ends, though its handler may stop taking
\* chunks, with Send blocked by the flow control, or die.
EveryUploadEnds == \A u \in Uploads : client[u] = "sending" ~> client[u] \in {"ok", "failed"}
=============================================================================
