------------------------ MODULE RatingService_proofs -------------------------
(***************************************************************************)
(* Proofs about RatingService for any calls, requests, rows and events.    *)
(*                                                                         *)
(* No Rating that the service makes is valid (NothingIsStored), so the     *)
(* table only grows from outside; Good follows one call through its        *)
(* handler, and Ahead the events between Kafka and PutRating.  So no put   *)
(* succeeds and no event is stored, ever (NoPutSucceeds, NothingIsIngested). *)
(* A call reads a snapshot, which is finite, hence it ends (Work).         *)
(***************************************************************************)
EXTENDS RatingService, FiniteSetTheorems, TLAPS

RowsOf(c) == {r \in rows : r.record = request[c].record}

\* What one call may rely on.
Good(c) ==
  /\ begun[c] \subseteq rows
  /\ seen[c] \subseteq snapshot[c] /\ snapshot[c] \subseteq RowsOf(c)
  /\ pc[c] # "done" /\ request[c].op = "get" => code[c] = "none"
  /\ pc[c] \in {"query", "scan", "aggregate"} => request[c].op = "get"
  /\ pc[c] \in {"token", "put"} => request[c].op # "get"
  /\ pc[c] \in {"idle", "query"} => snapshot[c] = {}
  /\ pc[c] \in {"scan", "aggregate"}
       => {r \in begun[c] : r.record = request[c].record} \subseteq snapshot[c]
  /\ pc[c] = "aggregate" /\ c \notin faulted => seen[c] = snapshot[c]

Fresh(c) ==
  request[c].op = "get" /\ c \notin faulted /\ code[c] \in {"OK", "NotFound"} =>
    /\ {r \in begun[c] : r.record = request[c].record} \subseteq snapshot[c]
    /\ IF snapshot[c] = {} THEN code[c] = "NotFound"
       ELSE code[c] = "OK" /\ answer[c] = Average(snapshot[c])

OfRows(c) ==
  request[c].op = "get" /\ request[c].api = "grpc" /\ code[c] = "OK" =>
    seen[c] # {} /\ answer[c] = Average(seen[c])

CallInv(c) == Good(c) /\ Fresh(c) /\ OfRows(c)

CallsType ==
  /\ rows \subseteq Ratings /\ issued \subseteq Users
  /\ pc \in [Calls -> {"idle", "token", "put", "query", "scan", "aggregate", "done"}]
  /\ request \in [Calls -> Requests]
  /\ code \in [Calls -> Codes]
  /\ checked \subseteq Calls /\ faulted \subseteq Calls
  /\ snapshot \in [Calls -> SUBSET Ratings] /\ seen \in [Calls -> SUBSET Ratings]
  /\ begun \in [Calls -> SUBSET Ratings]

EventsType ==
  /\ next \in 0..Len(File)
  /\ topic \in Seq(Ratings) /\ Len(topic) <= next
  /\ {position, committed, hand, channel} \subseteq Offsets
  /\ handled \subseteq Offsets /\ dropped \subseteq Offsets
  /\ committed <= position /\ hand \in {0, position} /\ channel <= position

\* The inductive invariant.
IInv ==
  /\ CallsType /\ answer = [c \in Calls |-> answer[c]]
  /\ \A c \in Calls : CallInv(c)
  /\ EventsType /\ EventsAreHandled
  /\ unchecked = {}

-----------------------------------------------------------------------------
LEMMA InitInv == Init => IInv
<1> SUFFICES ASSUME Init PROVE IInv
  OBVIOUS
<1>1. CallsType /\ answer = [c \in Calls |-> answer[c]] /\ unchecked = {}
  BY DEF Init, CallsType, Codes
<1>2. \A c \in Calls : CallInv(c)
  BY DEF Init, CallInv, Good, Fresh, OfRows, RowsOf
<1>3. EventsType /\ EventsAreHandled
  BY RatingAssumption DEF Init, EventsType, EventsAreHandled, Offsets
<1> QED
  BY <1>1, <1>2, <1>3 DEF IInv

\* PutRating never changes the table: the Ratings it is given have no record.
LEMMA NothingIsStored ==
  /\ \A q, record : TablesAfter(record, RatingOf(q)) = {rows}
  /\ \A e, record : TablesAfter(record, RatingOfEvent(e)) = {rows}
BY DEF TablesAfter, Valid, RatingOf, RatingOfEvent

\* A call that a step leaves alone stays as it is while the table grows.
LEMMA OthersStay ==
  ASSUME NEW d \in Calls, CallInv(d), rows \subseteq rows',
         UNCHANGED <<request[d], pc[d], code[d], snapshot[d], seen[d], answer[d], begun[d]>>,
         d \in faulted => d \in faulted', d \in faulted' <=> d \in faulted
  PROVE  CallInv(d)'
BY DEF CallInv, Good, Fresh, OfRows, RowsOf

\* Steps that are not about events.
LEMMA EventsStay ==
  ASSUME IInv, UNCHANGED <<next, eventVars>>
  PROVE  (EventsType /\ EventsAreHandled)'
BY DEF IInv, EventsType, EventsAreHandled, Offsets, eventVars

-----------------------------------------------------------------------------
(* Calls *)

LEMMA AcceptInv ==
  ASSUME IInv, NEW c \in Calls, Accept(c)
  PROVE  IInv'
<1> USE DEF Accept, Unreachable, GatewayFails, Limit, Refuse, Get, PutByGRPC, PutByHTTP, Begin, Return, Goto,
            Status, readVars
<1>1. CallsType'
  BY DEF IInv, CallsType, Codes
<1>2. CallInv(c)'
  <2>1. UNCHANGED <<rows, request, snapshot, seen, answer>> /\ begun'[c] = rows
    BY DEF IInv, CallsType
  <2>2. CallInv(c) /\ pc[c] = "idle"
    BY DEF IInv
  <2>3. \/ pc'[c] = "done" /\ code'[c] \notin {"OK", "NotFound"}
        \/ pc'[c] = "query" /\ code'[c] = code[c] /\ request[c].op = "get"
        \/ pc'[c] \in {"token", "done"} /\ request[c].op # "get"
    BY <2>2 DEF IInv, CallsType, CallInv, Good
  <2> QED
    BY <2>1, <2>2, <2>3 DEF CallInv, Good, Fresh, OfRows, RowsOf
<1>3. ASSUME NEW d \in Calls, d # c PROVE CallInv(d)'
  <2>1. UNCHANGED <<request[d], pc[d], code[d], snapshot[d], seen[d], answer[d], begun[d]>>
    BY <1>3 DEF IInv, CallsType
  <2>2. rows' = rows /\ (d \in faulted' <=> d \in faulted)
    BY <1>3
  <2> QED
    BY <2>1, <2>2, OthersStay DEF IInv
<1>4. UNCHANGED <<answer, unchecked, next, eventVars>>
  OBVIOUS
<1> QED
  BY <1>1, <1>2, <1>3, <1>4, EventsStay DEF IInv

LEMMA PutInv ==
  ASSUME IInv, NEW c \in Calls, TokenPasses(c) \/ TokenFails(c) \/ PutRating(c)
  PROVE  IInv'
<1> USE DEF TokenPasses, TokenFails, PutRating, Return, Goto, Status, readVars
<1>1. UNCHANGED <<rows, issued, request, snapshot, seen, answer, begun, unchecked, next, eventVars>>
  BY NothingIsStored DEF IInv
<1>2. CallsType'
  BY <1>1 DEF IInv, CallsType, Codes
<1>3. CallInv(c)'
  <2>1. CallInv(c) /\ request[c].op # "get" /\ pc'[c] \in {"put", "done"}
    BY DEF IInv, CallInv, Good, CallsType
  <2> QED
    BY <1>1, <2>1 DEF CallInv, Good, Fresh, OfRows, RowsOf
<1>4. ASSUME NEW d \in Calls, d # c PROVE CallInv(d)'
  <2>1. UNCHANGED <<pc[d], code[d]>> /\ (d \in faulted' <=> d \in faulted)
    BY <1>4 DEF IInv, CallsType
  <2> QED
    BY <1>1, <2>1, OthersStay DEF IInv
<1> QED
  BY <1>1, <1>2, <1>3, <1>4, EventsStay DEF IInv

LEMMA GetInv ==
  ASSUME IInv, NEW c \in Calls,
         Query(c) \/ RepoFails(c) \/ ScanRow(c) \/ EndScan(c) \/ Aggregate(c)
  PROVE  IInv'
<1> USE DEF Query, RepoFails, ScanRow, EndScan, Aggregate, Return, Goto, Status, readVars, Reading
<1>1. UNCHANGED <<rows, issued, request, checked, begun, unchecked, next, eventVars>>
  OBVIOUS
<1>2. CallsType'
  BY <1>1 DEF IInv, CallsType, Codes
<1>3. answer' = [d \in Calls |-> answer'[d]]
  BY DEF IInv
<1>4. CallInv(c)'
  <2>0. CallInv(c) /\ request[c].op = "get" /\ code[c] = "none"
    BY DEF IInv, CallInv, Good
  <2>1. CASE Query(c)
    BY <1>1, <2>0, <2>1 DEF IInv, CallsType, CallInv, Good, Fresh, OfRows, RowsOf
  <2>2. CASE RepoFails(c)
    <3>1. c \in faulted' /\ pc'[c] = "done" /\ UNCHANGED <<snapshot, seen, answer>>
      BY <2>2 DEF IInv, CallsType
    <3>2. request[c].api = "grpc" => code'[c] # "OK"
      BY <2>0, <2>2 DEF IInv, CallsType
    <3> QED
      BY <1>1, <2>0, <3>1, <3>2 DEF CallInv, Good, Fresh, OfRows, RowsOf
  <2>3. CASE ScanRow(c)
    <3>1. seen'[c] \subseteq snapshot[c] /\ pc[c] = "scan" /\ UNCHANGED <<snapshot, pc, code, answer, faulted>>
      BY <2>0, <2>3 DEF IInv, CallsType, CallInv, Good
    <3> QED
      BY <1>1, <2>0, <3>1 DEF CallInv, Good, Fresh, OfRows, RowsOf
  <2>4. CASE EndScan(c)
    <3>1. pc[c] = "scan" /\ pc'[c] = "aggregate" /\ UNCHANGED <<snapshot, seen, code, answer>>
      BY <2>4 DEF IInv, CallsType
    <3>2. c \notin faulted' => seen[c] = snapshot[c]
      BY <2>4
    <3> QED
      BY <1>1, <2>0, <3>1, <3>2 DEF CallInv, Good, Fresh, OfRows, RowsOf
  <2>5. CASE Aggregate(c)
    <3>1. pc[c] = "aggregate" /\ pc'[c] = "done" /\ UNCHANGED <<snapshot, seen, faulted>>
      BY <2>5 DEF IInv, CallsType
    <3>2. /\ code'[c] = IF seen[c] = {} THEN "NotFound" ELSE "OK"
          /\ seen[c] # {} => answer'[c] = Average(seen[c])
      BY <2>0, <2>5 DEF IInv, CallsType
    <3> QED
      BY <1>1, <2>0, <3>1, <3>2 DEF CallInv, Good, Fresh, OfRows, RowsOf
  <2> QED
    BY <2>1, <2>2, <2>3, <2>4, <2>5
<1>5. ASSUME NEW d \in Calls, d # c PROVE CallInv(d)'
  <2>1. UNCHANGED <<pc[d], code[d], snapshot[d], seen[d]>>
    BY <1>5 DEF IInv, CallsType
  <2>2. answer'[d] = answer[d] /\ (d \in faulted' <=> d \in faulted)
    BY <1>5 DEF IInv
  <2> QED
    BY <1>1, <2>1, <2>2, OthersStay DEF IInv
<1> QED
  BY <1>1, <1>2, <1>3, <1>4, <1>5, EventsStay DEF IInv

-----------------------------------------------------------------------------
(* The table, the tokens and the events *)

LEMMA WorldInv ==
  ASSUME IInv, Import \/ GetToken
  PROVE  IInv'
<1>1. rows \subseteq rows' /\ UNCHANGED <<callVars, unchecked, next, eventVars>>
  BY DEF Import, GetToken
<1>2. CallsType'
  BY <1>1, RatingAssumption DEF IInv, CallsType, Import, GetToken, callVars, readVars
<1>3. \A d \in Calls : CallInv(d)'
  BY <1>1, OthersStay DEF IInv, callVars, readVars
<1> QED
  BY <1>1, <1>2, <1>3, EventsStay DEF IInv, callVars, readVars

\* The calls, while events move.
LEMMA CallsStay ==
  ASSUME IInv, UNCHANGED <<rows, issued, callVars, unchecked>>
  PROVE  CallsType' /\ (answer = [c \in Calls |-> answer[c]])' /\ (\A c \in Calls : CallInv(c))'
         /\ unchecked' = {}
BY DEF IInv, CallsType, CallInv, Good, Fresh, OfRows, RowsOf, callVars, readVars

LEMMA ProduceInv ==
  ASSUME IInv, Produce
  PROVE  IInv'
<1>1. EventsType'
  <2>1. next' \in 0..Len(File) /\ File[next'] \in Ratings
    BY RatingAssumption DEF IInv, EventsType, Produce
  <2>2. topic' \in Seq(Ratings) /\ Len(topic') <= next' /\ Len(topic) <= Len(topic')
    <3>1. CASE topic' = topic
      BY <2>1, <3>1 DEF IInv, EventsType, Produce
    <3>2. CASE topic' = Append(topic, File[next'])
      <4>1. topic' \in Seq(Ratings) /\ Len(topic') = Len(topic) + 1
        BY <2>1, <3>2 DEF IInv, EventsType
      <4> QED
        BY <4>1 DEF IInv, EventsType, Produce
    <3> QED
      BY <3>1, <3>2 DEF Produce
  <2> QED
    BY <2>1, <2>2 DEF IInv, EventsType, Offsets, Produce
<1>2. EventsAreHandled'
  BY DEF IInv, EventsAreHandled, Produce
<1> QED
  BY <1>1, <1>2, CallsStay DEF IInv, Produce

LEMMA MoveInv ==
  ASSUME IInv, ReadMessage \/ Send \/ AutoCommit
  PROVE  IInv'
<1> USE DEF Ingesting
<1>1. UNCHANGED <<rows, issued, callVars, unchecked, next, topic, handled, dropped>>
  BY DEF ReadMessage, Send, AutoCommit
<1>2. EventsType'
  BY <1>1 DEF IInv, EventsType, Offsets, ReadMessage, Send, AutoCommit
<1>3. EventsAreHandled'
  BY <1>1 DEF IInv, EventsType, EventsAreHandled, Offsets, ReadMessage, Send, AutoCommit
<1> QED
  BY <1>1, <1>2, <1>3, CallsStay DEF IInv

\* A process that ends leaves its calls without an answer of their own.
LEMMA RestartInv ==
  ASSUME IInv, Restart, handled \subseteq handled', handled' \subseteq handled \cup {channel},
         UNCHANGED <<rows, issued, unchecked, next, topic>>
  PROVE  IInv'
<1> USE DEF Restart, Cut, readVars
<1>1. CallsType' /\ answer' = answer
  BY DEF IInv, CallsType, Codes
<1>2. ASSUME NEW d \in Calls PROVE CallInv(d)'
  <2>1. UNCHANGED <<request, snapshot, seen, answer, begun>>
    OBVIOUS
  <2>2. CASE pc[d] \in {"idle", "done"}
    <3>1. UNCHANGED <<pc[d], code[d]>> /\ (d \in faulted' <=> d \in faulted)
      BY <2>2 DEF IInv, CallsType
    <3> QED
      BY <2>1, <3>1, OthersStay DEF IInv
  <2>3. CASE pc[d] \notin {"idle", "done"}
    <3>1. pc'[d] = "done" /\ code'[d] = "Unavailable"
      BY <2>3
    <3> QED
      BY <2>1, <3>1 DEF IInv, CallInv, Good, Fresh, OfRows, RowsOf
  <2> QED
    BY <2>2, <2>3
<1>3. EventsType'
  BY DEF IInv, EventsType, Offsets
<1>4. EventsAreHandled'
  BY DEF IInv, EventsType, EventsAreHandled, Offsets
<1> QED
  BY <1>1, <1>2, <1>3, <1>4 DEF IInv

LEMMA StepInv == IInv /\ [Next]_vars => IInv'
<1> SUFFICES ASSUME IInv, [Next]_vars PROVE IInv'
  OBVIOUS
<1>1. CASE \E c \in Calls : Accept(c)
  BY <1>1, AcceptInv
<1>2. CASE \E c \in Calls : Handle(c)
  BY <1>2, PutInv, GetInv DEF Handle
<1>3. CASE Import \/ GetToken \/ Produce
  BY <1>3, WorldInv, ProduceInv
<1>4. CASE ReadMessage \/ Send \/ AutoCommit
  BY <1>4, MoveInv
<1>5. CASE Consume
  <2>1. rows' = rows /\ handled' = handled \cup {channel} /\ UNCHANGED <<issued, unchecked, next, topic>>
    BY <1>5, NothingIsStored DEF Consume
  <2>2. Restart
    BY <1>5, <2>1 DEF Consume
  <2> QED
    BY <2>1, <2>2, RestartInv
<1>6. CASE Kill
  BY <1>6, RestartInv DEF Kill
<1>7. CASE UNCHANGED vars
  BY <1>7, CallsStay, EventsStay DEF IInv, vars
<1> QED
  BY <1>1, <1>2, <1>3, <1>4, <1>5, <1>6, <1>7 DEF Next, Ingestion

LEMMA InvHolds == Spec => []IInv
<1> QED
  BY InitInv, StepInv, PTL DEF Spec

-----------------------------------------------------------------------------
\* Calls and positions keep their ranges at any crash: in particular nothing is
\* committed that has not been read.
THEOREM TypeCorrect == Spec => []TypeOK
<1>1. IInv => TypeOK
  BY DEF IInv, CallsType, EventsType, TypeOK
<1> QED
  BY <1>1, InvHolds, PTL

\* An undisturbed read averages every rating that was there when it began, and
\* says that there is none only when there was none.
THEOREM AveragesAreFresh == Spec => []AverageIsFresh
<1>1. IInv => AverageIsFresh
  BY DEF IInv, CallInv, Good, Fresh, RowsOf, AverageIsFresh
<1> QED
  BY <1>1, InvHolds, PTL

\* A gRPC read is never answered with anything but an average of stored ratings.
THEOREM AveragesAreOfRows == Spec => []AverageIsOfRows
<1>1. IInv => AverageIsOfRows
  BY DEF IInv, CallInv, Good, OfRows, RowsOf, AverageIsOfRows
<1> QED
  BY <1>1, InvHolds, PTL

\* No call stores a rating without the token of its user.
THEOREM UncheckedAreNotStored == Spec => []UncheckedIsNotStored
<1>1. IInv => UncheckedIsNotStored
  BY DEF IInv, UncheckedIsNotStored
<1> QED
  BY <1>1, InvHolds, PTL

\* No event is lost between the ingester and PutRating while the process runs.
THEOREM EventsReachPutRating == Spec => []EventsAreHandled
<1>1. IInv => EventsAreHandled
  BY DEF IInv
<1> QED
  BY <1>1, InvHolds, PTL

-----------------------------------------------------------------------------
(* What the service never stores *)

\* A put is refused, or lost with its process, but never answered OK.
PutsAreRefused == \A c \in Calls : request[c].op = "put" => code[c] # "OK"

\* The table only changes from outside, and the first event that reaches
\* StartIngestion ends the process.
OnlyImportsStore ==
  [][/\ rows' # rows => Import
     /\ Consume => Restart]_vars

LEMMA PutsRefusedStep ==
  ASSUME IInv, PutsAreRefused, [Next]_vars
  PROVE  PutsAreRefused'
<1>0. CallsType /\ \A c \in Calls : Good(c)
  BY DEF IInv, CallInv
<1> USE DEF PutsAreRefused
<1>1. ASSUME NEW c \in Calls, Accept(c)
      PROVE  PutsAreRefused'
  BY <1>0, <1>1 DEF CallsType, Accept, Unreachable, GatewayFails, Limit, Refuse, Get, PutByGRPC,
                    PutByHTTP, Begin, Return, Goto, Status
<1>2. ASSUME NEW c \in Calls, TokenPasses(c) \/ TokenFails(c) \/ PutRating(c)
      PROVE  PutsAreRefused'
  BY <1>0, <1>2, NothingIsStored
     DEF CallsType, TokenPasses, TokenFails, PutRating, Return, Goto, Status
\* Only a GET comes this far.
<1>3. ASSUME NEW c \in Calls,
             Query(c) \/ RepoFails(c) \/ ScanRow(c) \/ EndScan(c) \/ Aggregate(c)
      PROVE  PutsAreRefused'
  <2>1. request[c].op = "get" /\ request' = request
    BY <1>0, <1>3 DEF Good, Query, RepoFails, ScanRow, EndScan, Aggregate, Reading
  <2>2. \A d \in Calls : d # c => code'[d] = code[d]
    BY <1>0, <1>3 DEF CallsType, Query, RepoFails, ScanRow, EndScan, Aggregate, Return, Status
  <2> QED
    BY <2>1, <2>2
<1>4. CASE Restart /\ request' = request
  BY <1>0, <1>4 DEF CallsType, Restart, Cut
<1>5. ASSUME UNCHANGED <<request, code>>
      PROVE  PutsAreRefused'
  BY <1>5
<1>6. CASE Consume
  <2>1. Restart
    BY <1>6, NothingIsStored DEF Consume
  <2> QED
    BY <1>4, <2>1 DEF Restart, Cut
<1>7. CASE Kill
  BY <1>4, <1>7 DEF Kill, Restart, Cut
<1>8. CASE Import \/ GetToken \/ Produce \/ ReadMessage \/ Send \/ AutoCommit \/ UNCHANGED vars
  BY <1>5, <1>8 DEF Import, GetToken, Produce, ReadMessage, Send, AutoCommit, Ingesting, callVars, vars
<1> QED
  BY <1>1, <1>2, <1>3, <1>6, <1>7, <1>8 DEF Next, Handle, Ingestion

\* The Rating of the handlers has no RecordId (grpc.go:72, http.go:71): no
\* PutRating ever succeeds, whatever is asked, with whatever token.
THEOREM NoPutSucceeds == Spec => []PutsAreRefused
<1>1. Init => PutsAreRefused
  BY DEF Init, PutsAreRefused
<1>2. IInv /\ PutsAreRefused /\ [Next]_vars => PutsAreRefused'
  BY PutsRefusedStep
<1> QED
  BY <1>1, <1>2, InvHolds, PTL DEF Spec

\* Nor has that of StartIngestion (controller.go:99): no event is ever stored,
\* and each one that is handled ends the process.
THEOREM NothingIsIngested == Spec => OnlyImportsStore
<1>1. ASSUME IInv, Next
      PROVE  (rows' # rows => Import) /\ (Consume => Restart)
  <2>1. Consume => Restart /\ rows' = rows
    BY NothingIsStored DEF Consume
  <2>2. ASSUME NEW c \in Calls, Accept(c) \/ Handle(c)
        PROVE  rows' = rows
    BY <2>2, NothingIsStored
       DEF Accept, Unreachable, GatewayFails, Limit, Refuse, Get, PutByGRPC, PutByHTTP, Begin,
           Handle, TokenPasses, TokenFails, PutRating, Query, RepoFails, ScanRow, EndScan,
           Aggregate, Reading
  <2>3. GetToken \/ Produce \/ ReadMessage \/ Send \/ AutoCommit \/ Kill => rows' = rows
    BY DEF GetToken, Produce, ReadMessage, Send, AutoCommit, Kill, Ingesting
  <2> QED
    BY <1>1, <2>1, <2>2, <2>3 DEF Next, Ingestion
<1>2. IInv /\ [Next]_vars => [(rows' # rows => Import) /\ (Consume => Restart)]_vars
  BY <1>1
<1> QED
  BY <1>2, InvHolds, PTL DEF Spec, OnlyImportsStore

-----------------------------------------------------------------------------
(* Why every call ends *)

\* How many steps of its handler a call may still take.
Work(c) ==
  CASE pc[c] = "query"     -> Cardinality(Imports) + 3
    [] pc[c] = "scan"      -> Cardinality(snapshot[c] \ seen[c]) + 2
    [] pc[c] = "aggregate" -> 1
    [] pc[c] = "token"     -> 2
    [] pc[c] = "put"       -> 1
    [] OTHER -> 0

\* A handler has less to do after each of its steps: rows that arrive while it
\* reads do not keep it reading, nor does anything else give it more.
WorkShrinks ==
  \A c \in Calls :
    /\ Work(c) \in Nat
    /\ Handle(c) => Work(c)' < Work(c)
    /\ pc[c] # "idle" => Work(c)' <= Work(c)
CallsAreBounded == [][WorkShrinks]_vars

ImportsOnly == rows \subseteq Imports

LEMMA SnapshotsAreFinite ==
  ASSUME IInv, ImportsOnly, NEW c \in Calls
  PROVE  LET S == snapshot[c] \ seen[c]
         IN  IsFiniteSet(S) /\ Cardinality(S) \in Nat /\ Cardinality(S) <= Cardinality(Imports)
<1>1. snapshot[c] \ seen[c] \in SUBSET Imports
  BY DEF IInv, CallInv, Good, RowsOf, ImportsOnly
<1> QED
  BY <1>1, RatingAssumption, FS_Subset, FS_CardinalityType

LEMMA WorkType ==
  ASSUME IInv, ImportsOnly, NEW c \in Calls
  PROVE  Work(c) \in Nat
BY SnapshotsAreFinite, RatingAssumption, FS_CardinalityType DEF Work

LEMMA HandlerWorks ==
  ASSUME IInv, ImportsOnly, IInv', ImportsOnly', NEW c \in Calls, Handle(c)
  PROVE  Work(c)' < Work(c)
<1>0. CallsType /\ Good(c)
  BY DEF IInv, CallInv
<1>1. /\ Cardinality(Imports) \in Nat /\ Cardinality(snapshot[c] \ seen[c]) \in Nat
      /\ Cardinality(snapshot'[c] \ seen'[c]) \in Nat
      /\ Cardinality(snapshot'[c] \ seen'[c]) <= Cardinality(Imports)
  <2>1. /\ Cardinality(Imports) \in Nat /\ Cardinality(snapshot[c] \ seen[c]) \in Nat
    BY SnapshotsAreFinite, RatingAssumption, FS_CardinalityType
  <2>2. snapshot'[c] \ seen'[c] \in SUBSET Imports
    BY DEF IInv, CallInv, Good, RowsOf, ImportsOnly
  <2> QED
    BY <2>1, <2>2, RatingAssumption, FS_Subset, FS_CardinalityType
<1>2. CASE Query(c)
  <2>1. pc[c] = "query" /\ pc'[c] = "scan"
    BY <1>0, <1>2 DEF CallsType, Query, Goto
  <2> QED
    BY <1>1, <2>1 DEF Work
<1>3. CASE ScanRow(c)
  <2>1. PICK r \in snapshot[c] \ seen[c] : seen' = [seen EXCEPT ![c] = @ \cup {r}]
    BY <1>3 DEF ScanRow
  <2>2. snapshot'[c] \ seen'[c] = (snapshot[c] \ seen[c]) \ {r}
    BY <1>0, <1>3, <2>1 DEF CallsType, ScanRow
  <2>3. Cardinality(snapshot'[c] \ seen'[c]) = Cardinality(snapshot[c] \ seen[c]) - 1
    <3>1. IsFiniteSet(snapshot[c] \ seen[c])
      BY SnapshotsAreFinite, RatingAssumption
    <3>2. Cardinality((snapshot[c] \ seen[c]) \ {r}) = Cardinality(snapshot[c] \ seen[c]) - 1
      BY <3>1, FS_RemoveElement
    <3> QED
      BY <2>2, <3>2
  <2>4. pc[c] = "scan" /\ pc'[c] = "scan"
    BY <1>3 DEF ScanRow
  <2> QED
    BY <1>1, <2>3, <2>4 DEF Work
<1>4. CASE RepoFails(c) \/ EndScan(c) \/ Aggregate(c)
  <2>1. \/ pc[c] \in {"query", "scan", "aggregate"} /\ pc'[c] = "done"
        \/ pc[c] = "scan" /\ pc'[c] = "aggregate"
    BY <1>0, <1>4 DEF CallsType, RepoFails, EndScan, Aggregate, Goto, Return
  <2> QED
    BY <1>1, <2>1 DEF Work
<1>5. CASE TokenPasses(c) \/ TokenFails(c) \/ PutRating(c)
  BY <1>0, <1>5 DEF CallsType, TokenPasses, TokenFails, PutRating, Goto, Return, Work
<1> QED
  BY <1>2, <1>3, <1>4, <1>5 DEF Handle

\* What anybody else does to a call that has begun.
LEMMA OthersKeepWork ==
  ASSUME IInv, [Next]_vars, NEW c \in Calls, pc[c] # "idle", ~ Handle(c)
  PROVE  pc'[c] \in {pc[c], "done"} /\ UNCHANGED <<snapshot[c], seen[c]>>
<1>0. CallsType
  BY DEF IInv
<1>1. ASSUME NEW d \in Calls, d # c, Accept(d)
      PROVE  pc'[c] = pc[c] /\ UNCHANGED <<snapshot, seen>>
  BY <1>0, <1>1 DEF CallsType, Accept, Unreachable, GatewayFails, Limit, Refuse, Get, PutByGRPC,
                    PutByHTTP, Begin, Return, Goto, readVars
<1>2. ASSUME NEW d \in Calls, d # c, Handle(d)
      PROVE  pc'[c] = pc[c] /\ UNCHANGED <<snapshot[c], seen[c]>>
  BY <1>0, <1>2 DEF CallsType, Handle, TokenPasses, TokenFails, PutRating, Query, RepoFails,
                    ScanRow, EndScan, Aggregate, Return, Goto, readVars
<1>3. ~ Accept(c)
  BY DEF Accept, Unreachable, GatewayFails, Limit, Refuse, Get, PutByGRPC, PutByHTTP, Begin
<1>4. CASE Restart
  BY <1>0, <1>4 DEF CallsType, Restart, Cut, readVars
<1>5. CASE Import \/ GetToken \/ Produce \/ Ingestion \/ Kill \/ UNCHANGED vars
  BY <1>4, <1>5 DEF Import, GetToken, Produce, Ingestion, ReadMessage, Send, AutoCommit, Consume,
                    Kill, Ingesting, callVars, readVars, vars
<1> QED
  BY <1>1, <1>2, <1>3, <1>5 DEF Next

\* A GET reads at most as many rows as there are to read, and a put asks for
\* its token once, whatever fails: the reason why every call ends
\* (mysql.go:44-76, grpc.go:33-86, http.go:33-81).
THEOREM CallsTakeBoundedWork == Spec => CallsAreBounded
<1>1. Init => ImportsOnly
  BY DEF Init, ImportsOnly
<1>2. ImportsOnly /\ [(rows' # rows => Import) /\ (Consume => Restart)]_vars => ImportsOnly'
  BY DEF ImportsOnly, Import, vars
<1>3. Spec => [](IInv /\ ImportsOnly)
  BY <1>1, <1>2, InvHolds, NothingIsIngested, PTL DEF Spec, OnlyImportsStore
<1>4. ASSUME IInv, IInv', ImportsOnly, ImportsOnly', [Next]_vars, NEW c \in Calls, pc[c] # "idle"
      PROVE  Work(c)' <= Work(c)
  <2>1. Work(c) \in Nat
    BY <1>4, WorkType
  <2>2. CASE Handle(c)
    <3>1. Work(c)' < Work(c)
      BY <1>4, <2>2, HandlerWorks
    <3>2. Work(c)' \in Nat
      <4>1. snapshot'[c] \ seen'[c] \in SUBSET Imports
        BY <1>4 DEF IInv, CallInv, Good, RowsOf, ImportsOnly
      <4> QED
        BY <4>1, RatingAssumption, FS_Subset, FS_CardinalityType DEF Work
    <3> QED
      BY <2>1, <3>1, <3>2
  <2>3. CASE ~ Handle(c)
    <3>1. Work(c)' = Work(c) \/ Work(c)' = 0
      BY <1>4, <2>3, OthersKeepWork DEF Work
    <3> QED
      BY <2>1, <3>1
  <2> QED
    BY <2>2, <2>3
<1>5. IInv /\ IInv' /\ ImportsOnly /\ ImportsOnly' /\ [Next]_vars => [WorkShrinks]_vars
  BY <1>4, WorkType, HandlerWorks DEF WorkShrinks
<1> QED
  BY <1>3, <1>5, PTL DEF Spec, CallsAreBounded
=============================================================================
