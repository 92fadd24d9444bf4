---------------------------- MODULE RatingService ----------------------------
(***************************************************************************)
(* One process of the rating service: its gRPC and HTTP handlers, its      *)
(* controller, its table in MySQL, the check of tokens by the auth service *)
(* and the events it takes from Kafka, from                                *)
(*   rating/internal/handler/grpc/grpc.go, handler/http/http.go            *)
(*   rating/internal/controller/rating/controller.go                       *)
(*   rating/internal/repository/mysql/mysql.go, schema/schema.sql          *)
(*   rating/internal/gateway/auth/grpc/auth.go                             *)
(*   auth/internal/handler/grpc/grpc.go                                    *)
(*   rating/internal/ingester/kafka/ingester.go, cmd/ratingproducer        *)
(*   movie/internal/gateway/rating/{grpc,http}/rating.go (the callers)     *)
(*                                                                         *)
(* HTTP statuses go by the names of the gRPC codes they correspond to: 200 *)
(* OK, 400 InvalidArgument, 404 NotFound, 500 Internal.  Record types are  *)
(* left out: a record stands for its type and its id.                      *)
(***************************************************************************)
EXTENDS Integers, Sequences, FiniteSets, FiniteSetsExt

CONSTANTS
  Calls,     \* calls that clients make
  Records,   \* the records that are rated
  Users,     \* the users of the auth service
  Requests,  \* what the calls may ask
  Imports,   \* rows that others than this service may add to the table
  File,      \* the rating events in the file of the producer
  Empty,     \* an empty id, user or token
  Forged,    \* a token that is not signed with the secret of the auth service
  Junk       \* a form value that is no number

Ratings == [record : Records \cup {Empty}, user : Users \cup {Empty}, value : Int]

\* The answer of a GET, as a sum and a count: what every value is to begin with.
Zero == <<0, 1>>

ASSUME RatingAssumption ==
  /\ Empty \notin Records \cup Users /\ Forged \notin Users \cup {Empty} /\ Junk \notin Int
  /\ Requests \subseteq [op : {"get", "put", "other"}, api : {"grpc", "http", "gateway"},
                         record : Records \cup {Empty}, user : Users \cup {Empty},
                         value : Int \cup {Junk}, token : Users \cup {Empty, Forged}]
  /\ \A q \in Requests : q.api = "grpc" => q.op # "other" /\ q.value # Junk
  /\ Imports \subseteq Ratings /\ IsFiniteSet(Imports)
  /\ File \in Seq(Ratings)

VARIABLES
  rows,      \* the table ratings
  issued,    \* users who have got a token from the auth service
  request,   \* what a call asks
  pc,        \* where its handler is
  code,      \* the status it has written
  checked,   \* calls whose token has passed
  snapshot,  \* the rows that its SELECT is about
  seen,      \* those of them that it has read
  answer,    \* the rating it has answered
  begun,     \* history: the table when it began
  faulted,   \* history: calls that something has failed for
  unchecked, \* history: rows stored by calls whose token had not passed
  next,      \* events of the file that the producer has dealt with
  topic,     \* the events in Kafka
  position,  \* how many of them the ingester has read
  committed, \* the position from which a new process reads
  hand,      \* the event that the ingester is about to send, or 0
  channel,   \* the event in its channel, or 0
  handled,   \* history: events given to PutRating
  dropped    \* history: events that were on their way when a process ended

readVars == <<snapshot, seen, answer>>
callVars == <<request, pc, code, checked, readVars, begun, faulted>>
eventVars == <<topic, position, committed, hand, channel, handled, dropped>>
vars == <<rows, issued, callVars, unchecked, next, eventVars>>

Codes == {"none", "OK", "InvalidArgument", "NotFound", "Internal", "Unknown",
          "ResourceExhausted", "Unavailable"}

Offsets == 0..Len(topic)

TypeOK ==
  /\ rows \subseteq Ratings /\ issued \subseteq Users
  /\ pc \in [Calls -> {"idle", "token", "put", "query", "scan", "aggregate", "done"}]
  /\ request \in [Calls -> Requests]
  /\ code \in [Calls -> Codes]
  /\ checked \subseteq Calls /\ faulted \subseteq Calls
  /\ snapshot \in [Calls -> SUBSET Ratings] /\ seen \in [Calls -> SUBSET Ratings]
  /\ begun \in [Calls -> SUBSET Ratings]
  /\ next \in 0..Len(File)
  /\ topic \in Seq(Ratings) /\ Len(topic) <= next
  /\ {position, committed, hand, channel} \subseteq Offsets
  /\ handled \subseteq Offsets /\ dropped \subseteq Offsets
  /\ committed <= position /\ hand \in {0, position} /\ channel <= position

Init ==
  /\ rows = {} /\ issued = {}
  /\ request \in [Calls -> Requests]
  /\ pc = [c \in Calls |-> "idle"] /\ code = [c \in Calls |-> "none"]
  /\ checked = {} /\ faulted = {}
  /\ snapshot = [c \in Calls |-> {}] /\ seen = [c \in Calls |-> {}]
  /\ answer = [c \in Calls |-> Zero] /\ begun = [c \in Calls |-> {}]
  /\ unchecked = {}
  /\ next = 0 /\ topic = <<>> /\ position = 0 /\ committed = 0
  /\ hand = 0 /\ channel = 0 /\ handled = {} /\ dropped = {}

-----------------------------------------------------------------------------
(* Ratings and the table *)

\* The validation of model.Rating.
Valid(r) == r.record # Empty /\ r.user # Empty /\ r.value \in 1..5

\* Faulty variant of RatingOf: the id is passed on.
RatingWithRecord(q) ==
  [record |-> q.record, user |-> q.user,
   value |-> IF q.api = "grpc" THEN q.value ELSE q.value \div 10]

\* The Rating that a handler makes of a request: without an id.  HTTP has the
\* value as a float, here in tenths, which is cut to an integer.
RatingOf(q) ==
  [record |-> Empty, user |-> q.user,
   value |-> IF q.api = "grpc" THEN q.value ELSE q.value \div 10]

\* The primary key of the table is the record with the user.
Insertable(row) == \A r \in rows : r.record # row.record \/ r.user # row.user

\* What Controller.PutRating may make of the table: nothing of a rating that
\* is not valid, and an INSERT or its failure of one that is.
TablesAfter(record, r) ==
  LET row == [record |-> record, user |-> r.user, value |-> r.value]
  IN  IF Valid(r) /\ Insertable(row) THEN {rows, rows \cup {row}} ELSE {rows}

Average(rs) == <<MapThenSumSet(LAMBDA r : r.value, rs), Cardinality(rs)>>

\* A row comes from elsewhere.
Import ==
  /\ \E r \in Imports : Insertable(r) /\ rows' = rows \cup {r}
  /\ UNCHANGED <<issued, callVars, unchecked, next, eventVars>>

-----------------------------------------------------------------------------
(* The auth service *)

\* The auth service signs a token for whoever gives a name and a password.
GetToken ==
  /\ \E u \in Users \ issued : issued' = issued \cup {u}
  /\ UNCHANGED <<rows, callVars, unchecked, next, eventVars>>

\* The name that the auth service finds in a token; none in one it refuses.
NameIn(token) == IF token \in issued THEN token ELSE Empty

-----------------------------------------------------------------------------
(* The handlers *)

Goto(c, point) == pc' = [pc EXCEPT ![c] = point]

\* The first status that is written is the one that counts.
Status(c, st) == code' = [code EXCEPT ![c] = IF @ = "none" THEN st ELSE @]

Return(c, st) == Goto(c, "done") /\ Status(c, st)

\* The record that the handler finds in a request: the HTTP gateway sends
\* recordId and recordType where the handler reads id and type.
RecordSeen(q) == IF q.api = "gateway" THEN Empty ELSE q.record

\* A request that lacks what the handler needs.  The gRPC PutRating asks for
\* nothing, the HTTP handler for a token even to read.
BadRequest(q) ==
  \/ q.api = "grpc" /\ q.op = "get" /\ q.record = Empty
  \/ /\ q.api # "grpc"
     /\ \/ RecordSeen(q) = Empty \/ q.token = Empty \/ q.op = "other"
        \/ q.op = "put" /\ q.value = Junk

\* A call that begins.
Begin(c) ==
  /\ pc[c] = "idle"
  /\ request[c].token \in Users => request[c].token \in issued
  /\ begun' = [begun EXCEPT ![c] = rows]
  /\ UNCHANGED <<rows, issued, request, checked, readVars, unchecked, next, eventVars>>

\* ServiceConnection or the connection fails, in both methods of the gRPC gateway
\* or for a client of its own.
Unreachable(c) ==
  /\ Begin(c) /\ request[c].api # "gateway"
  /\ Return(c, "Unavailable")
  /\ faulted' = faulted \cup {c}

\* The registry or the request of the HTTP gateway fails.
GatewayFails(c) ==
  /\ Begin(c) /\ request[c].api = "gateway"
  /\ Return(c, "Unavailable")
  /\ faulted' = faulted \cup {c}

\* The interceptor of the limiter refuses a call.
Limit(c) ==
  /\ Begin(c) /\ request[c].api = "grpc"
  /\ Return(c, "ResourceExhausted")
  /\ faulted' = faulted \cup {c}

Refuse(c) ==
  /\ Begin(c) /\ BadRequest(request[c])
  /\ Return(c, "InvalidArgument")
  /\ UNCHANGED faulted

Get(c) ==
  /\ Begin(c) /\ request[c].op = "get" /\ ~ BadRequest(request[c])
  /\ Goto(c, "query")
  /\ UNCHANGED <<code, faulted>>

\* The gRPC handler validates the Rating before it looks at the token.
PutByGRPC(c) ==
  /\ Begin(c) /\ request[c].op = "put" /\ request[c].api = "grpc"
  /\ Goto(c, IF Valid(RatingOf(request[c])) THEN "token" ELSE "done")
  /\ Status(c, IF Valid(RatingOf(request[c])) THEN "none" ELSE "Unknown")
  /\ UNCHANGED faulted

PutByHTTP(c) ==
  /\ Begin(c) /\ request[c].op = "put" /\ request[c].api # "grpc" /\ ~ BadRequest(request[c])
  /\ Goto(c, "token")
  /\ UNCHANGED <<code, faulted>>

\* ValidateToken: the token of the user whose rating it is.
TokenPasses(c) ==
  /\ pc[c] = "token"
  /\ NameIn(request[c].token) # Empty /\ NameIn(request[c].token) = RatingOf(request[c]).user
  /\ checked' = checked \cup {c}
  /\ Goto(c, "put")
  /\ UNCHANGED <<rows, issued, request, code, readVars, begun, faulted, unchecked, next, eventVars>>

\* The token is refused or the auth service is not reached.  The HTTP handler
\* writes its status and goes on.
TokenFails(c) ==
  /\ pc[c] = "token"
  /\ Goto(c, IF request[c].api = "grpc" THEN "done" ELSE "put")
  /\ Status(c, "InvalidArgument")
  /\ faulted' = IF NameIn(request[c].token) = request[c].user THEN faulted \cup {c} ELSE faulted
  /\ UNCHANGED <<rows, issued, request, checked, readVars, begun, unchecked, next, eventVars>>

PutRating(c) ==
  /\ pc[c] = "put"
  /\ rows' \in TablesAfter(request[c].record, RatingOf(request[c]))
  /\ Return(c, IF rows' = rows THEN "Internal" ELSE "OK")
  /\ unchecked' = IF c \in checked THEN unchecked ELSE unchecked \cup (rows' \ rows)
  /\ UNCHANGED <<issued, request, checked, readVars, begun, faulted, next, eventVars>>

-----------------------------------------------------------------------------
(* The aggregated rating *)

\* What the steps of a GET leave alone.
Reading == UNCHANGED <<rows, issued, request, checked, begun, unchecked, next, eventVars>>

\* Faulty variant of Query: the rows of every record.
QueryAll(c) ==
  /\ pc[c] = "query"
  /\ snapshot' = [snapshot EXCEPT ![c] = rows]
  /\ Goto(c, "scan")
  /\ UNCHANGED <<code, seen, answer, faulted>> /\ Reading

\* The SELECT: its result is fixed when it runs.
Query(c) ==
  /\ pc[c] = "query"
  /\ snapshot' = [snapshot EXCEPT ![c] = {r \in rows : r.record = request[c].record}]
  /\ Goto(c, "scan")
  /\ UNCHANGED <<code, seen, answer, faulted>> /\ Reading

\* Faulty variant of RepoFails: no handler looks at the error.
RepoFailsUnseen(c) ==
  /\ pc[c] \in {"query", "scan"}
  /\ Return(c, "OK")
  /\ faulted' = faulted \cup {c}
  /\ UNCHANGED readVars /\ Reading

\* Faulty variant of RepoFails: the query is tried again and again.
RepoFailsAndRetries(c) ==
  /\ pc[c] \in {"query", "scan"}
  /\ Goto(c, "query") /\ faulted' = faulted \cup {c}
  /\ seen' = [seen EXCEPT ![c] = {}]
  /\ UNCHANGED <<code, snapshot, answer>> /\ Reading

\* The query or the Scan of a row fails.  The HTTP handler knows no error but
\* ErrNotFound, and answers 200 with the 0 it has got.
RepoFails(c) ==
  /\ pc[c] \in {"query", "scan"}
  /\ Return(c, IF request[c].api = "grpc" THEN "Internal" ELSE "OK")
  /\ faulted' = faulted \cup {c}
  /\ UNCHANGED readVars /\ Reading

ScanRow(c) ==
  /\ pc[c] = "scan"
  /\ \E r \in snapshot[c] \ seen[c] : seen' = [seen EXCEPT ![c] = @ \cup {r}]
  /\ UNCHANGED <<pc, code, snapshot, answer, faulted>> /\ Reading

\* rows.Next is false after the last row, and after an error that nobody asks
\* for.
EndScan(c) ==
  /\ pc[c] = "scan"
  /\ faulted' = IF seen[c] = snapshot[c] THEN faulted ELSE faulted \cup {c}
  /\ Goto(c, "aggregate")
  /\ UNCHANGED <<code, readVars>> /\ Reading

Aggregate(c) ==
  /\ pc[c] = "aggregate"
  /\ Return(c, IF seen[c] = {} THEN "NotFound" ELSE "OK")
  /\ answer' = [answer EXCEPT ![c] = IF seen[c] = {} THEN @ ELSE Average(seen[c])]
  /\ UNCHANGED <<snapshot, seen, faulted>> /\ Reading

-----------------------------------------------------------------------------
(* Rating events *)

\* What the steps of the ingestion leave alone.
Ingesting == UNCHANGED <<rows, issued, callVars, unchecked, next, topic>>

\* The producer goes through its file: it leaves out what is not valid, and
\* gives up on what has not been delivered when Flush has waited long enough.
Produce ==
  /\ next < Len(File)
  /\ next' = next + 1
  /\ topic' \in IF Valid(File[next']) THEN {topic, Append(topic, File[next'])} ELSE {topic}
  /\ UNCHANGED <<rows, issued, callVars, unchecked, position, committed, hand, channel, handled, dropped>>

\* ReadMessage, once the event before is in the channel.
ReadMessage ==
  /\ hand = 0 /\ position < Len(topic)
  /\ position' = position + 1 /\ hand' = position + 1
  /\ UNCHANGED <<committed, channel, handled, dropped>> /\ Ingesting

\* Faulty variant of Send: what is in the channel is not waited for.
SendOver ==
  /\ hand # 0
  /\ channel' = hand /\ hand' = 0
  /\ UNCHANGED <<position, committed, handled, dropped>> /\ Ingesting

\* The channel has room for one event.
Send ==
  /\ hand # 0 /\ channel = 0
  /\ channel' = hand /\ hand' = 0
  /\ UNCHANGED <<position, committed, handled, dropped>> /\ Ingesting

\* The client of Kafka commits the position it has read to, every few seconds
\* and whatever has become of the events.
AutoCommit ==
  /\ committed # position
  /\ committed' = position
  /\ UNCHANGED <<position, hand, channel, handled, dropped>> /\ Ingesting

\* The calls of a process that ends.
Cut ==
  /\ pc' = [c \in Calls |-> IF pc[c] = "idle" THEN "idle" ELSE "done"]
  /\ code' = [c \in Calls |-> IF pc[c] \in {"idle", "done"} THEN code[c] ELSE "Unavailable"]
  /\ faulted' = faulted \cup {c \in Calls : pc[c] \notin {"idle", "done"}}
  /\ UNCHANGED <<request, checked, readVars, begun>>

\* Faulty variant of Restart: events outlive the process.
RestartWithEvents ==
  /\ position' = committed
  /\ Cut /\ UNCHANGED <<committed, hand, channel, dropped>>

\* The process ends with its calls, and another one takes its place, which
\* reads from the position that has been committed.
Restart ==
  /\ position' = committed /\ hand' = 0 /\ channel' = 0
  /\ dropped' = dropped \cup ({hand, channel} \ {0})
  /\ Cut /\ UNCHANGED committed

\* The Rating that StartIngestion makes of an event.
RatingOfEvent(e) == [record |-> Empty, user |-> e.user, value |-> e.value]

\* StartIngestion: an event that PutRating fails for is the end of the process.
Consume ==
  /\ channel # 0
  /\ rows' \in TablesAfter(topic[channel].record, RatingOfEvent(topic[channel]))
  /\ handled' = handled \cup {channel}
  /\ IF rows' = rows
     THEN Restart
     ELSE channel' = 0 /\ UNCHANGED <<callVars, position, committed, hand, dropped>>
  /\ UNCHANGED <<issued, unchecked, next, topic>>

\* The process ends for another reason.
Kill == Restart /\ UNCHANGED <<rows, issued, unchecked, next, topic, handled>>

-----------------------------------------------------------------------------
Handle(c) ==
  \/ TokenPasses(c) \/ TokenFails(c) \/ PutRating(c)
  \/ Query(c) \/ RepoFails(c) \/ ScanRow(c) \/ EndScan(c) \/ Aggregate(c)

Accept(c) ==
  \/ Unreachable(c) \/ GatewayFails(c) \/ Limit(c) \/ Refuse(c)
  \/ Get(c) \/ PutByGRPC(c) \/ PutByHTTP(c)

Ingestion == ReadMessage \/ Send \/ AutoCommit \/ Consume

Next ==
  \/ \E c \in Calls : Accept(c) \/ Handle(c)
  \/ Import \/ GetToken \/ Produce \/ Ingestion \/ Kill

Spec == Init /\ [][Next]_vars

\* The handlers run; MySQL and the auth service answer, or fail.
FairSpec == Spec /\ \A c \in Calls : WF_vars(Handle(c))

-----------------------------------------------------------------------------
(* Properties *)

\* A GET for which nothing has failed averages all the ratings that its
\* record had when the call began, and no row that is not there: rows that
\* arrive while it reads may count or not.  ErrNotFound says that there were
\* none.
AverageIsFresh ==
  \A c \in Calls :
    request[c].op = "get" /\ c \notin faulted /\ code[c] \in {"OK", "NotFound"} =>
      /\ {r \in begun[c] : r.record = request[c].record} \subseteq snapshot[c]
      /\ snapshot[c] \subseteq {r \in rows : r.record = request[c].record}
      /\ IF snapshot[c] = {} THEN code[c] = "NotFound"
         ELSE code[c] = "OK" /\ answer[c] = Average(snapshot[c])

\* Whatever fails, an answer to a gRPC call is an average of ratings of its
\* record, of some of them when rows.Err would have told (mysql.go:63).
AverageIsOfRows ==
  \A c \in Calls :
    request[c].op = "get" /\ request[c].api = "grpc" /\ code[c] = "OK" =>
      /\ seen[c] # {} /\ answer[c] = Average(seen[c])
      /\ seen[c] \subseteq {r \in rows : r.record = request[c].record}

\* No call stores a rating for a user whose token it has not got, although
\* the HTTP handler goes on after a refused token (http.go:70-72).
UncheckedIsNotStored == unchecked = {}

\* Every event that the ingester has read is given to PutRating, unless the
\* process ends with the event in its channel or in its hand.
EventsAreHandled ==
  \A i \in 1..position : i \in handled \cup dropped \cup {hand, channel}

\* Every call ends.
EveryCallEnds == \A c \in Calls : pc[c] \notin {"idle", "done"} ~> pc[c] = "done"

\* What the integration test does (test/integration/main.go:149-160): a valid
\* rating, put with the token of its user while nothing fails, is stored.
ValidPutSucceeds ==
  \A c \in Calls :
    LET q == request[c]
    IN  /\ pc[c] = "done" /\ c \notin faulted /\ q.op = "put" /\ q.api = "grpc"
        /\ q.record # Empty /\ q.user # Empty /\ q.token = q.user /\ q.value \in 1..5
        => code[c] = "OK"
=============================================================================
