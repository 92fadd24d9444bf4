---------------------------- MODULE MovieDetails ----------------------------
(***************************************************************************)
(* GetMovieDetails in one movie process: the handlers, the controller and  *)
(* the gateways it calls, from                                             *)
(*   movie/internal/handler/grpc/grpc.go, handler/http/http.go             *)
(*   movie/internal/controller/movie/controller.go                         *)
(*   movie/internal/gateway/metadata/grpc/metadata.go                      *)
(*   movie/internal/gateway/metadata/http/metadata.go                      *)
(*   movie/internal/gateway/rating/grpc/rating.go                          *)
(* The controller has one metadata gateway, of gRPC or of HTTP; the one of *)
(* HTTP for ratings does not have the PutRating that the controller wants. *)
(* A call comes by gRPC or by HTTP, which only matters for what a handler  *)
(* refuses at once and for where its panic ends.                           *)
(*                                                                         *)
(* Every call asks for one movie.  The instances of the metadata service   *)
(* stop and start while calls retry; the rating service is asked once.     *)
(* Beside such outages a call may meet faults: the registry fails, the     *)
(* metadata service answers Internal, the rating service cannot be reached *)
(* or answers an error other than NotFound, or the client's context ends.  *)
(***************************************************************************)
EXTENDS Integers

CONSTANTS
  Calls,       \* client goroutines; each makes one call at a time
  Instances,   \* instances of the metadata service
  MaxRetries   \* metadata.go:42

ASSUME MovieDetailsAssumption == MaxRetries \in Nat \ {0}

VARIABLES
  gateway,  \* the metadata gateway that the controller was made with
  pc,       \* where the handler goroutine of a call is
  addr,     \* the address its metadata connection was made for
  tries,    \* attempts that failed with a code worth a retry
  rating,   \* details.Rating, "nil" until it is known
  code,     \* the status the call is answered with
  ctx,      \* the context of the call
  up,       \* whether the movie process runs
  listed,   \* metadata instances the registry lists
  serving,  \* metadata instances that answer
  records,  \* what is stored of the movie: "metadata", "rating"
  begun,    \* history: records as of the begin of each call
  steady,   \* history: calls whose instance has served since Connect
  faulted   \* history: calls that have met a fault

callVars == <<pc, addr, tries, rating, code, ctx, begun, steady, faulted>>
worldVars == <<gateway, up, listed, serving, records>>
vars == <<gateway, pc, addr, tries, rating, code, ctx, up, listed, serving, records, begun,
          steady, faulted>>

None == "none"
Points == {"idle", "connect", "fetch", "sleep", "rate", "reply", "panicked"}
Codes == {None, "OK", "NotFound", "InvalidArgument", "ResourceExhausted", "Internal", "Unavailable"}

Records == {"metadata", "rating"}

TypeOK ==
  /\ gateway \in {"grpc", "http"}
  /\ pc \in [Calls -> Points]
  /\ addr \in [Calls -> Instances \cup {None}]
  /\ tries \in [Calls -> 0..MaxRetries]
  /\ rating \in [Calls -> {"nil", "value"}]
  /\ code \in [Calls -> Codes]
  /\ ctx \in [Calls -> {"live", "deadline", "cancel"}]
  /\ listed \subseteq Instances /\ serving \subseteq Instances
  /\ up \in BOOLEAN
  /\ records \subseteq Records
  /\ begun \in [Calls -> SUBSET Records]
  /\ steady \subseteq Calls /\ faulted \subseteq Calls
  /\ \A c \in Calls : (pc[c] = "reply") = (code[c] # None)

Init ==
  /\ gateway \in {"grpc", "http"}
  /\ pc = [c \in Calls |-> "idle"]
  /\ addr = [c \in Calls |-> None]
  /\ tries = [c \in Calls |-> 0]
  /\ rating = [c \in Calls |-> "nil"]
  /\ code = [c \in Calls |-> None]
  /\ ctx = [c \in Calls |-> "live"]
  /\ begun = [c \in Calls |-> {}]
  /\ steady = {} /\ faulted = {}
  /\ up = TRUE
  /\ records = {} /\ listed = {} /\ serving = {}

-----------------------------------------------------------------------------
Goto(c, point) == pc' = [pc EXCEPT ![c] = point]

\* The handler returns with status k.
Return(c, k) == Goto(c, "reply") /\ code' = [code EXCEPT ![c] = k]

Continue(c, point) == Goto(c, point) /\ UNCHANGED code

\* The handler takes a call.  That of gRPC has the rate limiter and the check
\* of the id before the controller, that of HTTP has neither.
Receive(c) ==
  /\ up /\ pc[c] = "idle"
  /\ begun' = [begun EXCEPT ![c] = records]
  /\ \/ Continue(c, "connect")
     \/ Return(c, "ResourceExhausted")
     \/ Return(c, "InvalidArgument")
  /\ UNCHANGED <<addr, tries, rating, ctx, steady, faulted, worldVars>>

\* ServiceConnection picks one listed address for all attempts; nothing
\* listed, or a failing registry, is an error of the controller.
Connect(c) ==
  /\ up /\ pc[c] = "connect"
  /\ \/ \E i \in listed :
          /\ addr' = [addr EXCEPT ![c] = i]
          /\ steady' = IF i \in serving THEN steady \cup {c} ELSE steady
          /\ Continue(c, "fetch")
          /\ UNCHANGED faulted
     \/ /\ faulted' \in {faulted \cup {c}} \cup IF listed = {} THEN {faulted} ELSE {}
        /\ Return(c, "Internal")
        /\ UNCHANGED <<addr, steady>>
  /\ UNCHANGED <<tries, rating, ctx, begun, worldVars>>

\* What the metadata service may answer to c.  Internal is every refusal of
\* its own.
Answers(c) ==
  IF ctx[c] = "deadline" THEN {"DeadlineExceeded"}
  ELSE IF ctx[c] = "cancel" THEN {"Canceled"}
  ELSE IF addr[c] \notin serving THEN {"Unavailable"}
  ELSE {IF "metadata" \in records THEN "OK" ELSE "NotFound", "Internal"}

\* Faulty variants of Retriable: an Internal answer is retried; an instance
\* that cannot be reached is not.
RetriableInternal == {"DeadlineExceeded", "ResourceExhausted", "Unavailable", "Internal"}
RetriableWhenReached == {"DeadlineExceeded", "ResourceExhausted"}

\* shouldRetry.
Retriable == {"DeadlineExceeded", "ResourceExhausted", "Unavailable"}

\* Faulty variant of Fetch: the attempts are not counted.
FetchUncounted(c) ==
  /\ up /\ pc[c] = "fetch" /\ gateway = "grpc"
  /\ \E k \in Answers(c) :
       \/ k = "OK" /\ Continue(c, "rate")
       \/ k \in Retriable /\ Continue(c, "sleep")
       \/ k \notin Retriable \cup {"OK"} /\ Return(c, "Internal")
  /\ UNCHANGED <<addr, tries, rating, ctx, begun, steady, faulted, worldVars>>

\* One pass of the retry loop of the gRPC gateway: an answer goes on to the rating, a retriable
\* error sleeps, any other error leaves the loop.  None of them is
\* gateway.ErrNotFound, so the handler answers Internal, for NotFound too.
Fetch(c) ==
  /\ up /\ pc[c] = "fetch" /\ gateway = "grpc"
  /\ \E k \in Answers(c) :
       /\ \/ /\ k = "OK"
             /\ Continue(c, "rate")
             /\ UNCHANGED tries
          \/ /\ k \in Retriable
             /\ tries' = [tries EXCEPT ![c] = @ + 1]
             /\ Continue(c, "sleep")
          \/ /\ k \notin Retriable \cup {"OK"}
             /\ Return(c, "Internal")
             /\ UNCHANGED tries
       /\ faulted' = IF k = "Internal" THEN faulted \cup {c} ELSE faulted
  /\ UNCHANGED <<addr, rating, ctx, begun, steady, worldVars>>

\* The HTTP gateway asks once, and what is not a 2xx is an error.  A movie
\* that is not there is none of the 404 it looks for: the HTTP handler of the
\* metadata service answers 500.
FetchOnce(c) ==
  /\ up /\ pc[c] = "fetch" /\ gateway = "http"
  /\ \E k \in Answers(c) :
       /\ \/ k = "OK" /\ Continue(c, "rate")
          \/ k # "OK" /\ Return(c, "Internal")
       /\ faulted' = IF k = "Internal" THEN faulted \cup {c} ELSE faulted
  /\ UNCHANGED <<addr, tries, rating, ctx, begun, steady, worldVars>>

\* Faulty variant of Wake: one attempt too many.
WakeOnceMore(c) ==
  /\ up /\ pc[c] = "sleep"
  /\ Continue(c, "fetch")
  /\ UNCHANGED <<addr, tries, rating, ctx, begun, steady, faulted, worldVars>>

\* After the sleep the loop goes on while attempts are left.
Wake(c) ==
  /\ up /\ pc[c] = "sleep" /\ tries[c] < MaxRetries
  /\ Continue(c, "fetch")
  /\ UNCHANGED <<addr, tries, rating, ctx, begun, steady, faulted, worldVars>>

\* The loop is over without an answer.  The err that Get returns is the one
\* of ServiceConnection, which is nil; the controller dereferences the nil
\* metadata, and the panic of a gRPC handler ends the process.
GiveUp(c) ==
  /\ up /\ pc[c] = "sleep" /\ tries[c] = MaxRetries
  /\ up' = FALSE
  /\ Continue(c, "panicked")
  /\ UNCHANGED <<addr, tries, rating, ctx, begun, steady, faulted, gateway, listed, serving,
                 records>>

\* net/http recovers the same panic of an HTTP handler, and closes the
\* connection of this one call.
Recover(c) ==
  /\ up /\ pc[c] = "sleep" /\ tries[c] = MaxRetries
  /\ Return(c, "Unavailable")
  /\ UNCHANGED <<addr, tries, rating, ctx, begun, steady, faulted, worldVars>>

\* Faulty variant of Rate: every error of the rating service is fine.
RateTolerant(c) ==
  /\ up /\ pc[c] = "rate"
  /\ \/ rating' = [rating EXCEPT ![c] = IF "rating" \in records THEN "value" ELSE "nil"]
     \/ UNCHANGED rating
  /\ Return(c, "OK")
  /\ UNCHANGED <<addr, tries, ctx, begun, steady, faulted, worldVars>>

\* GetAggregatedRating: a rating, or the NotFound of the rating service,
\* which is fine; every other error is Internal.
Rate(c) ==
  /\ up /\ pc[c] = "rate"
  /\ \/ /\ ctx[c] = "live"
        /\ rating' = [rating EXCEPT ![c] = IF "rating" \in records THEN "value" ELSE "nil"]
        /\ Return(c, "OK")
        /\ UNCHANGED faulted
     \/ /\ faulted' = faulted \cup {c}
        /\ Return(c, "Internal")
        /\ UNCHANGED rating
  /\ UNCHANGED <<addr, tries, ctx, begun, steady, worldVars>>

\* The calls in progress end with their process: Unavailable to the client.
Lost(c) ==
  /\ ~ up /\ pc[c] \notin {"idle", "reply"}
  /\ Return(c, "Unavailable")
  /\ UNCHANGED <<addr, tries, rating, ctx, begun, steady, faulted, worldVars>>

\* The client takes the answer.
Take(c) ==
  /\ pc[c] = "reply"
  /\ pc' = [pc EXCEPT ![c] = "idle"]
  /\ addr' = [addr EXCEPT ![c] = None]
  /\ tries' = [tries EXCEPT ![c] = 0]
  /\ rating' = [rating EXCEPT ![c] = "nil"]
  /\ code' = [code EXCEPT ![c] = None]
  /\ ctx' = [ctx EXCEPT ![c] = "live"]
  /\ begun' = [begun EXCEPT ![c] = {}]
  /\ steady' = steady \ {c}
  /\ faulted' = faulted \ {c}
  /\ UNCHANGED worldVars

-----------------------------------------------------------------------------
(* The world around the calls *)

\* The deadline of the client passes, or the client cancels.
EndContext(c) ==
  /\ pc[c] \in {"connect", "fetch", "sleep", "rate"} /\ ctx[c] = "live"
  /\ \E k \in {"deadline", "cancel"} : ctx' = [ctx EXCEPT ![c] = k]
  /\ faulted' = faulted \cup {c}
  /\ UNCHANGED <<pc, addr, tries, rating, code, begun, steady, worldVars>>

StartInstance(i) ==
  /\ serving' = serving \cup {i}
  /\ UNCHANGED <<callVars, gateway, up, listed, records>>

\* An instance stops, listed or not.
StopInstance(i) ==
  /\ serving' = serving \ {i}
  /\ steady' = {c \in steady : addr[c] # i}
  /\ UNCHANGED <<pc, addr, tries, rating, code, ctx, begun, faulted, gateway, up, listed,
                 records>>

\* The registry lists an instance or drops it, before it serves, while it
\* does or after it has stopped: Discovery says when.
Relist(i) ==
  /\ \E L \in {listed \cup {i}, listed \ {i}} : listed' = L
  /\ UNCHANGED <<callVars, gateway, up, serving, records>>

\* The other services only ever add records.
AddRecord(r) ==
  /\ records' = records \cup {r}
  /\ UNCHANGED <<callVars, gateway, up, listed, serving>>

\* The process is started again once nobody waits for the old one.
Restart ==
  /\ ~ up /\ \A c \in Calls : pc[c] \in {"idle", "reply"}
  /\ up' = TRUE
  /\ UNCHANGED <<callVars, gateway, listed, serving, records>>

Handle(c) ==
  \/ Connect(c) \/ Fetch(c) \/ FetchOnce(c) \/ Wake(c) \/ GiveUp(c) \/ Recover(c)
  \/ Rate(c) \/ Lost(c)

Next ==
  \/ \E c \in Calls : Receive(c) \/ Handle(c) \/ Take(c) \/ EndContext(c)
  \/ \E i \in Instances : StartInstance(i) \/ StopInstance(i) \/ Relist(i)
  \/ \E r \in Records : AddRecord(r)
  \/ Restart

Spec == Init /\ [][Next]_vars

\* The goroutine of a call runs; nothing is assumed about the instances.
FairSpec == Spec /\ \A c \in Calls : WF_vars(Handle(c))

-----------------------------------------------------------------------------
(* Properties *)

\* An OK answer has the rating of a movie that was rated when the call was
\* made: an error of the rating service is never passed off as "no rating".
OkIsComplete ==
  \A c \in Calls : code[c] = "OK" =>
    "metadata" \in records /\ ("rating" \in begun[c] => rating[c] = "value")

\* The process dies only of a call whose metadata instance was away at some
\* time or whose deadline passed: no answer of an instance that serves all
\* the time brings it down, and nothing does with the HTTP gateway.
PanicNeedsAnOutage ==
  \A c \in Calls : pc[c] = "panicked" =>
    gateway = "grpc" /\ (c \notin steady \/ ctx[c] = "deadline")

\* When outages of metadata instances are all that a call has met and it has
\* found one listed for a movie that is stored, it is not refused: the retries
\* of the gRPC gateway hide the outage, unless it lasts for all of them.
OutageIsHidden ==
  gateway = "grpc" => \A c \in Calls :
    code[c] = "Internal" /\ "metadata" \in begun[c] /\ c \notin faulted => addr[c] = None

\* Every call is answered, whatever the metadata instances do.
EveryCallEnds == \A c \in Calls : pc[c] = "connect" ~> pc[c] \in {"idle", "reply"}

-----------------------------------------------------------------------------
(* The promise to the caller *)

Status == [c \in Calls |->
  IF pc[c] = "idle" THEN "idle" ELSE IF pc[c] = "reply" THEN code[c] ELSE "open"]

Promise == INSTANCE DetailsRead WITH status <- Status

\* Whatever fails, retries, comes and goes meanwhile, a call that is answered
\* with details has read metadata and rating as they were at one instant.
ImplementsDetailsRead == Promise!Spec

\* "Get returns the movie details including the aggregated rating and movie
\* metadata" (controller.go:45), or an error: it does not end the process.
GetReturns == \A c \in Calls : pc[c] # "panicked"
=============================================================================
