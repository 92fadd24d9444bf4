------------------------- MODULE MovieUpload_proofs --------------------------
(***************************************************************************)
(* Proofs about MovieUpload for any number of uploads, names and chunks.   *)
(*                                                                         *)
(* Phase relates the positions of one upload to the place of its handler;  *)
(* Alone says that the last creator of a file shares it with nobody unless *)
(* the history says so, hence nobody else can write to it; Marked that who *)
(* still writes after a later Create is in the history, so that what it    *)
(* overwrites stays covered (Covered).  Linked relates the ends of one     *)
(* stream: a client and its handler never wait for each other              *)
(* (NobodyIsStuck), and both have ever less to do (WorkShrinks).           *)
(***************************************************************************)
EXTENDS MovieUpload, TLAPS

Phase(u) ==
  /\ client[u] = "idle" => handler[u] = "off"
  /\ handler[u] = "off" => recvd[u] = 0
  /\ handler[u] \in {"off", "recv", "create", "write"} => status[u] = "none"
  /\ handler[u] = "recv" => recvd[u] = offset[u] /\ (u \in open \/ recvd[u] = 0)
  /\ handler[u] = "create" => recvd[u] = 1 /\ offset[u] = 0
  /\ handler[u] = "write" => recvd[u] = offset[u] + 1 /\ u \in open
  /\ u \in open => handler[u] \in {"recv", "write", "close"}
  /\ status[u] = "OK" => offset[u] = size[u]
  /\ client[u] = "ok" => handler[u] = "returned" /\ status[u] = "OK"

Phases == \A u \in Uploads : Phase(u)

Alone ==
  \A u \in Uploads : owner[name[u]] = u /\ u \notin overlap =>
    \A v \in open : name[v] = name[u] => v = u

Marked == \A v \in open : owner[name[v]] = v \/ v \in overlap

\* No cell that the last creator has written is lost, whoever else writes.
Covered ==
  \A u \in Uploads : owner[name[u]] = u =>
    \A k \in Positions : k <= offset[u] => cells[name[u]][k] \in {u} \cup Sharers(u)

\* The inductive invariant.
Inv == TypeOK /\ Phases /\ Alone /\ Marked /\ SoleUploadIsPrefix /\ Covered

LEMMA InitInv == Init => Inv
<1> SUFFICES ASSUME Init PROVE Inv
  OBVIOUS
<1> USE UploadAssumption DEF Init
<1>1. TypeOK
  BY DEF TypeOK, Positions
<1>2. Phases
  BY DEF Phases, Phase
<1>3. Alone
  BY DEF Alone
<1>4. SoleUploadIsPrefix
  BY DEF SoleUploadIsPrefix
<1>5. Marked /\ Covered
  BY DEF Marked, Covered
<1> QED
  BY <1>1, <1>2, <1>3, <1>4, <1>5 DEF Inv

\* The steps of the client leave the files and the handlers alone.
LEMMA ClientInv ==
  ASSUME NEW u \in Uploads, Inv, Begin(u) \/ BeginFails(u) \/ ReadFails(u) \/ Client(u)
  PROVE  Inv'
<1> USE DEF Inv, handlerVars, clientVars, diskVars
<1>1. TypeOK'
  <2>1. CASE Send(u)
    <3>1. sent[u] + 1 \in 0..MaxChunks
      BY <2>1, UploadAssumption DEF TypeOK, Send
    <3> QED
      BY <2>1, <3>1 DEF TypeOK, Send
  <2>2. CASE UNCHANGED <<name, size, sent, recvd, open, offset, status, cells, owner, overlap>>
    <3>1. client' \in [Uploads -> {"idle", "sending", "waiting", "ok", "failed"}]
      BY DEF TypeOK, Begin, BeginFails, ReadFails, Client, Send, SendFails, CloseSend, Answered, Refused, Fail
    <3>2. handler' \in [Uploads -> {"off", "recv", "create", "write", "close", "returned", "dead"}]
      BY DEF TypeOK, Begin, BeginFails, ReadFails, Client, Send, SendFails, CloseSend, Answered, Refused, Fail
    <3>3. broken' \subseteq Uploads
      BY DEF TypeOK, Begin, BeginFails, ReadFails, Client, Send, SendFails, CloseSend, Answered, Refused, Fail
    <3> QED
      BY <2>2, <3>1, <3>2, <3>3 DEF TypeOK
  <2> QED
    BY <2>1, <2>2 DEF Begin, BeginFails, ReadFails, Client, SendFails, CloseSend, Answered, Refused, Fail
<1>2. Phases'
  BY DEF TypeOK, Phases, Phase, Begin, BeginFails, ReadFails, Client, Send, SendFails, CloseSend,
         Answered, Refused, Fail
<1>3. UNCHANGED <<name, open, offset, diskVars>>
  BY DEF Begin, BeginFails, ReadFails, Client, Send, SendFails, CloseSend, Answered, Refused, Fail
<1>4. Alone' /\ Marked' /\ SoleUploadIsPrefix' /\ Covered'
  BY <1>3 DEF Alone, Marked, SoleUploadIsPrefix, Covered, Sharers
<1> QED
  BY <1>1, <1>2, <1>4

\* So do the steps of a handler between its writes, Close apart.
LEMMA RecvInv ==
  ASSUME NEW u \in Uploads, Inv, Recv(u) \/ RecvEOF(u) \/ RecvError(u) \/ CreateFails(u)
  PROVE  Inv'
<1> USE DEF Inv, handlerVars, clientVars, diskVars
<1>1. TypeOK'
  <2>1. CASE Recv(u)
    <3>1. recvd[u] + 1 \in 0..MaxChunks
      BY <2>1, UploadAssumption DEF TypeOK, Recv
    <3> QED
      BY <2>1, <3>1 DEF TypeOK, Recv
  <2>2. CASE RecvEOF(u) \/ RecvError(u) \/ CreateFails(u)
    BY <2>2 DEF TypeOK, RecvEOF, RecvError, CreateFails, Return
  <2> QED
    BY <2>1, <2>2
<1>2. Phases'
  BY DEF TypeOK, Phases, Phase, Recv, RecvEOF, RecvError, CreateFails, Return
<1>3. UNCHANGED <<name, open, offset, diskVars>>
  BY DEF Recv, RecvEOF, RecvError, CreateFails, Return
<1>4. Alone' /\ Marked' /\ SoleUploadIsPrefix' /\ Covered'
  BY <1>3 DEF Alone, Marked, SoleUploadIsPrefix, Covered, Sharers
<1> QED
  BY <1>1, <1>2, <1>4

LEMMA CreateInv ==
  ASSUME NEW u \in Uploads, Inv, Create(u)
  PROVE  Inv'
<1> USE DEF Inv, clientVars
<1>1. TypeOK'
  BY DEF TypeOK, Create, Rivals
<1>2. Phases'
  BY DEF TypeOK, Phases, Phase, Create
<1>3. Alone'
  <2> SUFFICES ASSUME NEW w \in Uploads, owner'[name[w]] = w, w \notin overlap',
                      NEW v \in open', name[v] = name[w]
               PROVE  v = w
    BY DEF Alone, Create
  <2>1. CASE name[w] = name[u]
    <3>1. w = u /\ Rivals(u) = {}
      BY <2>1 DEF TypeOK, Create
    <3> QED
      BY <3>1 DEF Create, Rivals
  <2>2. CASE name[w] # name[u]
    <3>1. owner[name[w]] = w /\ w \notin overlap /\ v \in open
      BY <2>2 DEF TypeOK, Create, Rivals
    <3> QED
      BY <3>1 DEF Alone
  <2> QED
    BY <2>1, <2>2
<1>4. SoleUploadIsPrefix'
  <2> SUFFICES ASSUME NEW w \in Uploads, owner'[name[w]] = w, w \notin overlap',
                      NEW k \in Positions
               PROVE  cells'[name[w]][k] = IF k <= offset[w] THEN w ELSE Absent
    BY DEF SoleUploadIsPrefix, Create
  <2>1. CASE name[w] = name[u]
    <3>1. w = u
      BY <2>1 DEF TypeOK, Create
    <3>2. offset[u] = 0 /\ cells'[name[u]][k] = Absent
      BY DEF TypeOK, Phases, Phase, Create
    <3> QED
      BY <3>1, <3>2 DEF Positions
  <2>2. CASE name[w] # name[u]
    <3>1. owner[name[w]] = w /\ w \notin overlap /\ cells'[name[w]] = cells[name[w]]
      BY <2>2 DEF TypeOK, Create, Rivals
    <3> QED
      BY <3>1 DEF SoleUploadIsPrefix
  <2> QED
    BY <2>1, <2>2
<1>5. Marked'
  <2> SUFFICES ASSUME NEW v \in open', owner'[name[v]] # v
               PROVE  v \in overlap'
    BY DEF Marked, Create
  <2>1. CASE name[v] = name[u]
    <3>1. v \in open \ {u}
      BY <2>1 DEF TypeOK, Create
    <3>2. v \in Rivals(u)
      BY <2>1, <3>1 DEF Rivals
    <3> QED
      BY <3>2 DEF Create
  <2>2. CASE name[v] # name[u]
    BY <2>2 DEF Marked, TypeOK, Create
  <2> QED
    BY <2>1, <2>2
<1>6. Covered'
  <2> SUFFICES ASSUME NEW w \in Uploads, owner'[name[w]] = w,
                      NEW k \in Positions, k <= offset[w]
               PROVE  cells'[name[w]][k] \in {w} \cup Sharers(w)'
    BY DEF Covered, Create
  <2>1. CASE name[w] = name[u]
    <3>1. w = u /\ offset[u] = 0
      BY <2>1 DEF TypeOK, Phases, Phase, Create
    <3> QED
      BY <3>1 DEF Positions
  <2>2. CASE name[w] # name[u]
    <3>1. owner[name[w]] = w /\ cells'[name[w]] = cells[name[w]]
      BY <2>2 DEF TypeOK, Create
    <3>2. Sharers(w) \subseteq Sharers(w)'
      BY DEF Sharers, Create
    <3> QED
      BY <3>1, <3>2 DEF Covered
  <2> QED
    BY <2>1, <2>2
<1> QED
  BY <1>1, <1>2, <1>3, <1>4, <1>5, <1>6

\* A chunk written, whatever Write has returned.
Stored(u) ==
  /\ u \in open /\ recvd[u] = offset[u] + 1
  /\ cells' = [cells EXCEPT ![name[u]] = Written(u)]
  /\ offset' = [offset EXCEPT ![u] = @ + 1]
  /\ UNCHANGED <<name, open, owner, overlap>>

LEMMA StoredIsPrefix ==
  ASSUME NEW u \in Uploads, Inv, Stored(u)
  PROVE  SoleUploadIsPrefix' /\ cells' \in [Names -> [Positions -> Uploads \cup {Absent, Hole}]]
<1> USE DEF Inv
<1>1. Written(u) \in [Positions -> Uploads \cup {Absent, Hole}]
  BY DEF TypeOK, Written
<1>2. cells' \in [Names -> [Positions -> Uploads \cup {Absent, Hole}]]
  BY <1>1 DEF TypeOK, Stored
<1>3. SoleUploadIsPrefix'
  <2> SUFFICES ASSUME NEW w \in Uploads, owner[name[w]] = w, w \notin overlap,
                      NEW k \in Positions
               PROVE  cells'[name[w]][k] = IF k <= offset'[w] THEN w ELSE Absent
    BY DEF SoleUploadIsPrefix, Stored
  <2>1. cells[name[w]][k] = IF k <= offset[w] THEN w ELSE Absent
    BY DEF SoleUploadIsPrefix
  <2>2. CASE w = u
    <3>1. offset'[u] = offset[u] + 1 /\ cells'[name[u]][k] = Written(u)[k]
      BY DEF TypeOK, Stored
    <3>2. k \in Int /\ offset[u] \in Int
      BY UploadAssumption DEF TypeOK, Positions
    <3>3. Absent # u
      BY UploadAssumption
    <3> QED
      BY <2>1, <2>2, <3>1, <3>2, <3>3 DEF Written
  <2>3. CASE w # u
    <3>1. name[w] # name[u]
      BY <2>3 DEF Alone, Stored
    <3>2. cells'[name[w]] = cells[name[w]] /\ offset'[w] = offset[w]
      BY <2>3, <3>1 DEF TypeOK, Stored
    <3> QED
      BY <2>1, <3>2
  <2> QED
    BY <2>2, <2>3
<1> QED
  BY <1>2, <1>3

\* A chunk may replace one of the last creator's, if both have overlapped; it
\* never leaves a hole where the last creator has written.
LEMMA StoredIsCovered ==
  ASSUME NEW u \in Uploads, Inv, Stored(u)
  PROVE  Covered'
<1> USE DEF Inv
<1> SUFFICES ASSUME NEW w \in Uploads, owner[name[w]] = w,
                    NEW k \in Positions, k <= offset'[w]
             PROVE  cells'[name[w]][k] \in {w} \cup Sharers(w)
  BY DEF Covered, Sharers, Stored
<1>1. k \in Int /\ offset[u] \in Int
  BY UploadAssumption DEF TypeOK, Positions
<1>2. CASE name[w] # name[u]
  <2>1. cells'[name[w]] = cells[name[w]] /\ offset'[w] = offset[w]
    BY <1>2 DEF TypeOK, Stored
  <2> QED
    BY <2>1 DEF Covered
<1>3. CASE name[w] = name[u]
  <2>1. cells'[name[w]][k] = Written(u)[k]
    BY <1>3 DEF TypeOK, Stored
  <2>2. CASE k = offset[u] + 1
    <3>1. Written(u)[k] = u
      BY <2>2 DEF Written
    <3>2. u = w \/ u \in overlap
      BY <1>3 DEF Marked, Stored
    <3>3. u = w \/ w \in overlap
      BY <1>3 DEF Alone, Stored
    <3> QED
      BY <1>3, <2>1, <3>1, <3>2, <3>3 DEF Sharers
  <2>3. CASE k # offset[u] + 1
    <3>1. k <= offset[w]
      <4>1. CASE w = u
        <5>1. offset'[u] = offset[u] + 1
          BY DEF TypeOK, Stored
        <5> QED
          BY <1>1, <2>3, <4>1, <5>1
      <4>2. CASE w # u
        BY <4>2 DEF TypeOK, Stored
      <4> QED
        BY <4>1, <4>2
    <3>2. cells[name[w]][k] \in {w} \cup Sharers(w)
      BY <3>1 DEF Covered
    <3>3. cells[name[w]][k] # Absent
      BY <3>2, UploadAssumption DEF Sharers, TypeOK
    <3>4. Written(u)[k] = cells[name[w]][k]
      BY <1>3, <2>3, <3>3 DEF Written
    <3> QED
      BY <2>1, <3>2, <3>4
  <2> QED
    BY <2>2, <2>3
<1> QED
  BY <1>2, <1>3

LEMMA WriteInv ==
  ASSUME NEW u \in Uploads, Inv, Write(u) \/ WriteFails(u)
  PROVE  Inv'
<1> USE DEF Inv, clientVars, diskVars
<1>1. handler[u] = "write" /\ u \in open /\ recvd[u] = offset[u] + 1
  BY DEF Phases, Phase, Write, WriteFails
<1>2. UNCHANGED <<name, size, clientVars, recvd, open, owner, overlap, broken>>
  BY DEF Write, WriteFails
<1>3. Stored(u) \/ UNCHANGED <<cells, offset>>
  BY <1>1, <1>2 DEF Write, WriteFails, Stored
<1>4. SoleUploadIsPrefix' /\ cells' \in [Names -> [Positions -> Uploads \cup {Absent, Hole}]]
  <2>1. CASE Stored(u)
    BY <2>1, StoredIsPrefix
  <2>2. CASE UNCHANGED <<cells, offset>>
    BY <1>2, <2>2 DEF TypeOK, SoleUploadIsPrefix
  <2> QED
    BY <1>3, <2>1, <2>2
<1>5. TypeOK'
  <2>1. offset' \in [Uploads -> 0..MaxChunks] /\ \A v \in Uploads : offset'[v] <= recvd[v]
    <3>1. offset[u] + 1 \in 0..MaxChunks /\ offset[u] + 1 <= recvd[u]
      BY <1>1, UploadAssumption DEF TypeOK
    <3> QED
      BY <1>3, <3>1 DEF TypeOK, Stored
  <2>2. handler' \in [Uploads -> {"off", "recv", "create", "write", "close", "returned", "dead"}]
    BY DEF TypeOK, Write, WriteFails, Return
  <2>3. status' \in [Uploads -> {"none", "OK", "error"}]
    BY DEF TypeOK, Write, WriteFails, Return
  <2> QED
    BY <1>2, <1>4, <2>1, <2>2, <2>3 DEF TypeOK
<1>6. Phases'
  <2> SUFFICES ASSUME NEW v \in Uploads PROVE Phase(v)'
    BY DEF Phases
  <2>1. CASE v # u
    <3>1. UNCHANGED <<handler[v], offset[v], status[v]>>
      BY <2>1, <1>3 DEF TypeOK, Write, WriteFails, Return, Stored
    <3> QED
      BY <1>2, <3>1 DEF Phases, Phase
  <2>2. CASE v = u /\ Write(u)
    BY <1>1, <2>2 DEF TypeOK, Phases, Phase, Write
  <2>3. CASE v = u /\ WriteFails(u)
    <3>1. handler'[u] = "close" /\ status'[u] = "error"
      BY <2>3 DEF TypeOK, WriteFails, Return
    <3>2. client[u] # "ok" /\ client[u] # "idle"
      BY <1>1 DEF Phases, Phase
    <3> QED
      BY <1>2, <2>3, <3>1, <3>2 DEF Phase
  <2> QED
    BY <2>1, <2>2, <2>3
<1>7. Alone' /\ Marked'
  BY <1>2 DEF Alone, Marked
<1>8. Covered'
  <2>1. CASE Stored(u)
    BY <2>1, StoredIsCovered
  <2>2. CASE UNCHANGED <<cells, offset>>
    BY <1>2, <2>2 DEF Covered, Sharers
  <2> QED
    BY <1>3, <2>1, <2>2
<1> QED
  BY <1>4, <1>5, <1>6, <1>7, <1>8

\* A file that is closed, by Close or by the end of the process, is one less
\* to be shared.
LEMMA CloseInv ==
  ASSUME Inv, Crash \/ \E u \in Uploads : Close(u) \/ Break(u)
  PROVE  Inv'
<1> USE DEF Inv, clientVars, handlerVars, diskVars
<1>1. TypeOK'
  BY DEF TypeOK, Crash, Close, Break, Running
<1>2. Phases'
  <2>1. CASE Crash
    BY <2>1 DEF TypeOK, Phases, Phase, Crash, Running
  <2>2. CASE \E u \in Uploads : Close(u)
    BY <2>2 DEF TypeOK, Phases, Phase, Close
  <2>3. CASE \E u \in Uploads : Break(u)
    BY <2>3 DEF Phases, Phase, Break
  <2> QED
    BY <2>1, <2>2, <2>3
<1>3. open' \subseteq open /\ UNCHANGED <<name, offset, diskVars>>
  BY DEF Crash, Close, Break
<1>4. Alone' /\ Marked' /\ SoleUploadIsPrefix' /\ Covered'
  BY <1>3 DEF Alone, Marked, SoleUploadIsPrefix, Covered, Sharers
<1> QED
  BY <1>1, <1>2, <1>4

LEMMA StepInv == Inv /\ [Next]_vars => Inv'
<1> SUFFICES ASSUME Inv, [Next]_vars PROVE Inv'
  OBVIOUS
<1>1. CASE \E u \in Uploads : Begin(u) \/ BeginFails(u) \/ ReadFails(u) \/ Client(u)
  BY <1>1, ClientInv
<1>2. CASE \E u \in Uploads : Handler(u)
  BY <1>2, RecvInv, CreateInv, WriteInv, CloseInv DEF Handler
<1>3. CASE Crash \/ \E u \in Uploads : Break(u)
  BY <1>3, CloseInv
<1>4. CASE UNCHANGED vars
  BY <1>4 DEF Inv, TypeOK, Phases, Phase, Alone, Marked, SoleUploadIsPrefix, Covered, Sharers, vars, clientVars, handlerVars, diskVars
<1> QED
  BY <1>1, <1>2, <1>3, <1>4 DEF Next

LEMMA InvHolds == Spec => []Inv
<1> QED
  BY InitInv, StepInv, PTL DEF Spec

\* No handler gets ahead of what it has received, nor a client of its source,
\* at any crash, lost connection or failed write.
THEOREM TypeCorrect == Spec => []TypeOK
<1> QED
  BY InvHolds, PTL DEF Inv

\* A file that its last creator had to itself is a prefix of its source.
THEOREM SoleUploadsArePrefixes == Spec => []SoleUploadIsPrefix
<1> QED
  BY InvHolds, PTL DEF Inv

\* An upload that is answered "uploaded successfully", of at least one chunk,
\* is in its file to the last chunk, where another one that overlapped it has
\* not put its own.
THEOREM AnsweredUploadsAreWhole == Spec => []OkIsWhole
<1>1. Inv => OkIsWhole
  <2> SUFFICES ASSUME Inv, NEW u \in Uploads, status[u] = "OK", owner[name[u]] = u,
                      NEW k \in Positions
               PROVE  /\ k <= size[u] => cells[name[u]][k] \in {u} \cup Sharers(u)
                      /\ k > size[u] => u \in overlap \/ cells[name[u]][k] = Absent
    BY DEF OkIsWhole
  <2>1. offset[u] = size[u] /\ k \in Int /\ size[u] \in Int
    BY UploadAssumption DEF Inv, Phases, Phase, TypeOK, Positions
  <2>2. k <= size[u] => cells[name[u]][k] \in {u} \cup Sharers(u)
    BY <2>1 DEF Inv, Covered
  <2>3. k > size[u] => u \in overlap \/ cells[name[u]][k] = Absent
    BY <2>1 DEF Inv, SoleUploadIsPrefix
  <2> QED
    BY <2>2, <2>3
<1> QED
  BY <1>1, InvHolds, PTL

\* The client's success follows the handler's.
THEOREM ClientsAreTold == Spec => []ClientOkIsWritten
<1>1. Inv => ClientOkIsWritten
  BY DEF Inv, Phases, Phase, ClientOkIsWritten
<1> QED
  BY <1>1, InvHolds, PTL

-----------------------------------------------------------------------------
(* Why every upload ends *)

\* What a client and its handler know of each other.
Linked(u) ==
  /\ client[u] \in {"sending", "waiting"} => handler[u] # "off"
  /\ client[u] = "waiting" => sent[u] = size[u]
  /\ handler[u] = "dead" => u \in broken
  /\ handler[u] \in {"close", "returned"} => status[u] # "none"

\* The guards of the actions of Client and of Handler.
ClientCanMove(u) ==
  \/ /\ client[u] = "sending"
     /\ \/ sent[u] = size[u]
        \/ u \notin broken /\ sent[u] - recvd[u] < Window
        \/ u \in broken \/ status[u] # "none"
  \/ client[u] = "waiting" /\ (u \in broken \/ handler[u] = "returned")
HandlerCanMove(u) ==
  \/ handler[u] \in {"create", "write", "close"}
  \/ /\ handler[u] = "recv"
     /\ \/ recvd[u] < sent[u] \/ u \in broken
        \/ recvd[u] = size[u] /\ client[u] # "sending"

\* A client blocked by the flow control, or by an answer that is not there
\* yet, waits for a handler that can move: they never wait for each other.
NobodyIsStuck ==
  \A u \in Uploads :
    client[u] \in {"sending", "waiting"} => ClientCanMove(u) \/ HandlerCanMove(u)

LEMMA LinkedStep ==
  ASSUME Inv, \A u \in Uploads : Linked(u), [Next]_vars
  PROVE  \A u \in Uploads : Linked(u)'
<1> USE DEF Inv, handlerVars, clientVars, diskVars
<1>1. ASSUME NEW v \in Uploads,
             Begin(v) \/ BeginFails(v) \/ ReadFails(v) \/ Client(v)
      PROVE  \A u \in Uploads : Linked(u)'
  BY <1>1 DEF TypeOK, Linked, Begin, BeginFails, ReadFails, Client, Send, SendFails, CloseSend,
              Answered, Refused, Fail
<1>2. ASSUME NEW v \in Uploads, Handler(v)
      PROVE  \A u \in Uploads : Linked(u)'
  BY <1>2 DEF TypeOK, Linked, Handler, Recv, RecvEOF, RecvError, Create, CreateFails, Write,
              WriteFails, Close, Return
<1>3. CASE Crash \/ (\E v \in Uploads : Break(v)) \/ UNCHANGED vars
  BY <1>3 DEF TypeOK, Linked, Crash, Break, Running, vars
<1> QED
  BY <1>1, <1>2, <1>3 DEF Next

LEMMA LinkedAlways == Spec => [](Inv /\ \A u \in Uploads : Linked(u))
<1> DEFINE AllLinked == \A u \in Uploads : Linked(u)
<1>1. Init => AllLinked
  BY DEF Init, Linked
<1>2. Inv /\ AllLinked /\ [Next]_vars => AllLinked'
  BY LinkedStep
<1> HIDE DEF AllLinked
<1>3. Spec => [](Inv /\ AllLinked)
  BY <1>1, <1>2, InvHolds, PTL DEF Spec
<1> QED
  BY <1>3 DEF AllLinked

\* Send may block in the client (uploadclient/main.go:56) and Recv in the
\* handler (grpc.go:77), but never both, for any window and length.
THEOREM NoUploadIsStuck == Spec => []NobodyIsStuck
<1>1. ASSUME Inv, NEW u \in Uploads, Linked(u), client[u] \in {"sending", "waiting"}
      PROVE  ClientCanMove(u) \/ HandlerCanMove(u)
  <2>1. sent[u] \in Nat /\ recvd[u] \in Nat /\ size[u] \in Nat /\ recvd[u] <= sent[u]
    BY <1>1, UploadAssumption DEF Inv, TypeOK
  <2>2. handler[u] \in {"recv", "create", "write", "close", "returned", "dead"}
    BY <1>1 DEF Inv, TypeOK, Linked
  <2>3. CASE client[u] = "sending"
    <3>1. CASE handler[u] \in {"returned", "dead"}
      BY <1>1, <2>3, <3>1 DEF Linked, ClientCanMove
    <3>2. CASE handler[u] = "recv" /\ recvd[u] = sent[u]
      BY <1>1, <2>1, <2>3, <3>2, UploadAssumption DEF ClientCanMove
    <3> QED
      BY <2>1, <2>2, <3>1, <3>2 DEF HandlerCanMove
  <2>4. CASE client[u] = "waiting"
    BY <1>1, <2>1, <2>2, <2>4 DEF Linked, ClientCanMove, HandlerCanMove
  <2> QED
    BY <1>1, <2>3, <2>4
<1>2. Inv /\ (\A u \in Uploads : Linked(u)) => NobodyIsStuck
  BY <1>1 DEF NobodyIsStuck
<1> QED
  BY <1>2, LinkedAlways, PTL

\* How many steps a client and a handler may still take.
ClientWork(u) ==
  CASE client[u] = "sending" -> size[u] - sent[u] + 2
    [] client[u] = "waiting" -> 1
    [] OTHER -> 0
HandlerWork(u) ==
  CASE handler[u] = "recv"   -> 3 * (size[u] - recvd[u]) + 3
    [] handler[u] = "create" -> 3 * (size[u] - recvd[u]) + 5
    [] handler[u] = "write"  -> 3 * (size[u] - recvd[u]) + 4
    [] handler[u] = "close"  -> 1
    [] OTHER -> 0

\* Every step of a client and of a handler brings it nearer to its end, and
\* what others do, other uploads, lost connections and crashes, takes neither
\* back.
WorkShrinks ==
  \A u \in Uploads :
    /\ ClientWork(u) \in Nat /\ HandlerWork(u) \in Nat
    /\ Client(u) => ClientWork(u)' < ClientWork(u) /\ HandlerWork(u)' = HandlerWork(u)
    /\ Handler(u) => HandlerWork(u)' < HandlerWork(u) /\ ClientWork(u)' = ClientWork(u)
    /\ client[u] # "idle" => ClientWork(u)' <= ClientWork(u) /\ HandlerWork(u)' <= HandlerWork(u)
UploadsAreBounded == [][WorkShrinks]_vars

LEMMA WorkTypes ==
  ASSUME Inv, NEW u \in Uploads
  PROVE  ClientWork(u) \in Nat /\ HandlerWork(u) \in Nat
<1>1. sent[u] \in Nat /\ recvd[u] \in Nat /\ size[u] \in Nat /\ sent[u] <= size[u] /\ recvd[u] <= sent[u]
  BY UploadAssumption DEF Inv, TypeOK
<1> QED
  BY <1>1 DEF ClientWork, HandlerWork

LEMMA ClientWorks ==
  ASSUME Inv, Inv', NEW u \in Uploads, Client(u)
  PROVE  ClientWork(u)' < ClientWork(u) /\ HandlerWork(u)' = HandlerWork(u)
<1>1. UNCHANGED <<size, handlerVars>>
  BY DEF Client, Send, SendFails, CloseSend, Answered, Refused, Fail
<1>2. HandlerWork(u)' = HandlerWork(u)
  BY <1>1 DEF HandlerWork, handlerVars
<1>3. ClientWork(u)' < ClientWork(u)
  <2>1. sent[u] \in Nat /\ size[u] \in Nat /\ sent[u] <= size[u]
    BY UploadAssumption DEF Inv, TypeOK
  <2>2. CASE Send(u)
    BY <1>1, <2>1, <2>2 DEF Inv, TypeOK, Send, ClientWork
  <2>3. CASE SendFails(u) \/ CloseSend(u) \/ Answered(u) \/ Refused(u)
    BY <1>1, <2>1, <2>3 DEF Inv, TypeOK, SendFails, CloseSend, Answered, Refused, Fail, ClientWork
  <2> QED
    BY <2>2, <2>3 DEF Client
<1> QED
  BY <1>2, <1>3

LEMMA HandlerWorks ==
  ASSUME Inv, Inv', NEW u \in Uploads, Handler(u)
  PROVE  HandlerWork(u)' < HandlerWork(u) /\ ClientWork(u)' = ClientWork(u)
<1>1. UNCHANGED <<size, clientVars>>
  BY DEF Handler, Recv, RecvEOF, RecvError, Create, CreateFails, Write, WriteFails, Close, clientVars
<1>2. ClientWork(u)' = ClientWork(u)
  BY <1>1 DEF ClientWork, clientVars
<1>3. HandlerWork(u)' < HandlerWork(u)
  <2>1. recvd[u] \in Nat /\ size[u] \in Nat /\ recvd[u] <= size[u]
    <3>1. recvd[u] \in Nat /\ sent[u] \in Nat /\ size[u] \in Nat /\ recvd[u] <= sent[u] /\ sent[u] <= size[u]
      BY UploadAssumption DEF Inv, TypeOK
    <3> QED
      BY <3>1
  <2>2. CASE Recv(u)
    <3>1. recvd'[u] = recvd[u] + 1 /\ handler[u] = "recv" /\ handler'[u] \in {"write", "create"}
      BY <2>2 DEF Inv, TypeOK, Recv
    <3> QED
      BY <1>1, <2>1, <3>1 DEF HandlerWork
  <2>3. CASE Create(u) \/ Write(u)
    <3>1. /\ UNCHANGED recvd
          /\ \/ handler[u] = "create" /\ handler'[u] = "write"
             \/ handler[u] = "write" /\ handler'[u] = "recv"
      BY <2>3 DEF Inv, TypeOK, Create, Write
    <3> QED
      BY <1>1, <2>1, <3>1 DEF HandlerWork
  <2>4. CASE RecvEOF(u) \/ RecvError(u) \/ CreateFails(u) \/ WriteFails(u)
    <3>1. handler[u] \in {"recv", "create", "write"} /\ handler'[u] = "close"
      BY <2>4 DEF Inv, TypeOK, RecvEOF, RecvError, CreateFails, WriteFails, Return
    <3> QED
      BY <2>1, <3>1 DEF HandlerWork
  <2>5. CASE Close(u)
    BY <2>5 DEF Inv, TypeOK, Close, HandlerWork
  <2> QED
    BY <2>2, <2>3, <2>4, <2>5 DEF Handler
<1> QED
  BY <1>2, <1>3

\* What anybody but the two does to an upload that has begun.
LEMMA OthersKeepWork ==
  ASSUME Inv, [Next]_vars, NEW u \in Uploads, client[u] # "idle", ~ Client(u), ~ Handler(u)
  PROVE  /\ UNCHANGED <<size, sent[u], recvd[u]>>
         /\ client'[u] \in {client[u], "failed"}
         /\ handler'[u] \in {handler[u], "dead"}
<1> USE DEF Inv, TypeOK, handlerVars, clientVars, diskVars
<1>1. ASSUME NEW v \in Uploads, v # u, Begin(v) \/ BeginFails(v) \/ ReadFails(v) \/ Client(v)
      PROVE  UNCHANGED <<size, sent[u], recvd[u], client[u], handler[u]>>
  BY <1>1 DEF Begin, BeginFails, ReadFails, Client, Send, SendFails, CloseSend, Answered, Refused,
              Fail
<1>2. ASSUME NEW v \in Uploads, v # u, Handler(v)
      PROVE  UNCHANGED <<size, sent[u], recvd[u], client[u], handler[u]>>
  BY <1>2 DEF Handler, Recv, RecvEOF, RecvError, Create, CreateFails, Write, WriteFails, Close,
              Return
<1>3. CASE Begin(u) \/ BeginFails(u) \/ ReadFails(u)
  BY <1>3 DEF Begin, BeginFails, ReadFails, Fail
<1>4. CASE Crash \/ (\E v \in Uploads : Break(v)) \/ UNCHANGED vars
  BY <1>4 DEF Crash, Break, Running, vars
<1> QED
  BY <1>1, <1>2, <1>3, <1>4 DEF Next

\* The steps of an upload are bounded by the length of its source, whatever
\* fails or runs beside it; with NoUploadIsStuck, that is why every upload
\* ends (uploadclient/main.go:42-71, grpc.go:71-102).
THEOREM UploadsTakeBoundedWork == Spec => UploadsAreBounded
<1>1. ASSUME Inv, Inv', [Next]_vars, NEW u \in Uploads, client[u] # "idle"
      PROVE  ClientWork(u)' <= ClientWork(u) /\ HandlerWork(u)' <= HandlerWork(u)
  <2>1. /\ ClientWork(u) \in Nat /\ HandlerWork(u) \in Nat
        /\ ClientWork(u)' \in Nat /\ HandlerWork(u)' \in Nat
    <3>1. /\ sent'[u] \in Nat /\ recvd'[u] \in Nat /\ size'[u] \in Nat
          /\ sent'[u] <= size'[u] /\ recvd'[u] <= sent'[u]
      BY <1>1, UploadAssumption DEF Inv, TypeOK
    <3> QED
      BY <1>1, <3>1, WorkTypes DEF ClientWork, HandlerWork
  <2>2. CASE Client(u)
    BY <1>1, <2>1, <2>2, ClientWorks
  <2>3. CASE Handler(u)
    BY <1>1, <2>1, <2>3, HandlerWorks
  <2>4. CASE ~ Client(u) /\ ~ Handler(u)
    <3>1. ClientWork(u)' = ClientWork(u) \/ ClientWork(u)' = 0
      BY <1>1, <2>4, OthersKeepWork DEF ClientWork
    <3>2. HandlerWork(u)' = HandlerWork(u) \/ HandlerWork(u)' = 0
      BY <1>1, <2>4, OthersKeepWork DEF HandlerWork
    <3> QED
      BY <2>1, <3>1, <3>2
  <2> QED
    BY <2>2, <2>3, <2>4
<1>2. Inv /\ Inv' /\ [Next]_vars => [WorkShrinks]_vars
  BY <1>1, WorkTypes, ClientWorks, HandlerWorks DEF WorkShrinks
<1> QED
  BY <1>2, InvHolds, PTL DEF Spec, UploadsAreBounded
=============================================================================
