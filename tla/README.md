# mwg in TLA+

This directory holds a model of mwg, the movie application of four gRPC
services (auth, metadata, rating, movie) that find each other through Consul:
TLA+ modules, the TLC configurations that check them on small instances, and
proofs that TLAPS checks for every instance. `PROJECT.json` lists the runs, the
mutants, the hazards and, for every definition, the lines of `src/` it models.

    tlc -workers 2 -config <run>.cfg MC<Module>.tla    # model-check one run
    tlapm <Module>_proofs.tla                          # check the proofs of a module

## The system

A client asks the **movie** service for the details of a movie; it asks the
**metadata** service for the record and the **rating** service for the
aggregated rating. The rating service checks tokens with the **auth** service
and also reads rating events from Kafka. Every process registers in Consul and
reports its health every second; whoever calls a service asks Consul for an
address first. The movie service also runs a background processor that holds a
lock of Consul while it works. Metadata and ratings are rows of MySQL.

### Inventory

| Component | Source | State | Operations | Interacts with | What is hard | What makes it correct |
|---|---|---|---|---|---|---|
| metadata service | `metadata/internal/{handler,controller,repository}` | the movies table, one cache per replica | GetMetadata, PutMetadata | MySQL; callers | a cache nobody invalidates, filled after the read without a lock; statements that fail and run nevertheless; replicas that restart | replicas with caches look like one store |
| movie processor and lock | `movie/internal/processor`, `movie/internal/lock/consul` | the loop, the Consul session, the key | Start, Acquire, Release, Close | Consul; movie main | a session that expires under its user, a lost or late release, a crash with the lock held | one instance processes at a time; the lock of a dead one is freed |
| service discovery | `pkg/discovery`, `internal/grpcutil` | the records and their age | Register, Deregister, ReportHealthyState, ServiceAddresses, ServiceConnection | all services | reports that fail or arrive late, crashes without Deregister | who is up is listed, who is gone is not |
| movie details | `movie/internal/{handler,controller,gateway}` | one goroutine per call | GetMovieDetails | discovery, metadata, rating | retries against an instance that comes and goes, deadlines, errors of either backend | every call is answered, with the right status and a complete answer |
| service process | `*/cmd/main.go`, `pkg/tracing`, `pkg/metrics` | the statement of main, its deferred functions, the signal goroutine, the goroutines that serve metrics, the gRPC server | start, signal, stop | Consul, gRPC, the tracer, Kafka | signals at any time, several goroutines that may end the process, panics, deferred calls | no record and no session is left, no call is cut off, the process ends |
| rating ingestion | `rating/internal/ingester/kafka`, `StartIngestion`, `cmd/ratingproducer` | positions in the topic, a channel of capacity 1 | Ingest, StartIngestion, produce | Kafka, rating controller | a blocking read, a channel closed from a loop, commits by a timer, a process that ends with events on their way | no event is passed over; the process survives its shutdown |
| rating service | `rating/internal/{handler,controller,repository,gateway}` | the ratings table | GetAggregatedRating, PutRating | MySQL, auth | a table that is read row by row while it grows, errors nobody looks at, two validations with a token check in between | an average of what is stored; only the token's user rates |
| auth service | `auth/internal/handler/grpc` | the secret | GetToken, ValidateToken | rating | a refused token in the middle of a put | a name only for a token it has signed |
| movie upload | `movie/internal/handler/grpc`, `cmd/uploadclient` | a file per name, a descriptor and an offset per upload | UploadFile | the client's stream, the disk | streams that break off, a client that Send blocks, two uploads with one name | a file that is complete when the answer says so |
| rate limiter | `pkg/limiter` | a token bucket | Limit | the gRPC servers of rating and movie | | refuses before anything is done |
| HTTP handlers and gateways | `*/internal/handler/http`, `movie/internal/gateway/*/http` | none | as gRPC | no main uses them | handlers that write a status and go on, errors that are compared with the wrong value | as gRPC |
| metrics counters, logging, configuration, DNS, generated code, sizecompare, tests | | | | | | |

## The modules

Each component has a module with one action per call, handler step or event of
its environment; `MC<Module>` and the `.cfg` files make it finite;
`<Module>_proofs` holds the theorems. Definitions headed *Faulty variant of*
are not part of any specification: they are small bugs that each property has
to catch when they take the place of the definition they name.

### MetadataService, WriteOnceStore

`movies` is the table, `cache[r]` the map of the replica `r`, `call[c]` the
request in progress of the client goroutine `c` with its program point:
`cache` → `repo` → `fill` → `reply` for a Get (`Controller.Get`), `repo` →
`reply` for a Put. Steps of different requests interleave between any two calls
that leave the goroutine. `RepoPut` inserts into a table whose id is the
primary key (`schema/schema.sql`), so a second Put of an id is an error.
Over HTTP a request takes the same steps (`handler/http`, statuses by the names
of the gRPC codes), but for two: `RepoGetMissingOverHTTP` answers Internal for a
row that is not there, and `RepoPutIncompleteOverHTTP` stores a record for which
400 has been written already. A value may have empty fields. A method other
than GET and PUT is one more request that is refused at once, like `RejectGet`.
`RepoPutFails` reports an error for an INSERT that never runs or that is left in
`loose`, from where `LateInsert` may run it at any later time. `Crash` empties
one cache and drops the requests of that replica. An empty id is refused by
GetMetadata and accepted by PutMetadata, as in the handler.

`WriteOnceStore` is what clients may rely on: one store, no cache, no replica,
in which an id is written at most once and each answer is fixed at one instant
between the request and the answer. A write that was refused may still be done,
at once or later (`Refuse`, `Disown`, `Land`). `ImplementsWriteOnceStore` is the
refinement: the store is the table, and an answer counts as fixed when the
cache or the repository has been read.

The module shows *why* a cache that Put never invalidates is right: the table
refuses to change a row. The mutant that replaces INSERT by REPLACE breaks it.
The repository in memory, which overwrites, is used as a repository by tests
only; with it in place of MySQL the cache could be stale.

### MovieLock

Per instance: `main` and `pc` (the two goroutines), `timer` (what is left of a
sleep), `held` (time since the grant), `session` and `age`; of Consul: `holder`,
`delay` (the lock-delay of the key) and `late` (releases that were reported
failed and still run). `Select` … `ReleaseFails` are the loop of
`Processor.Start`, `CloseProvider` the deferred `Close` of main, which does not
wait for the processor. `Tick` is time; it stops where something is due. Consul
ends a session between TTL and twice the TTL. Nothing renews a session.

### Discovery, Directory

One service. Per instance: `life` (main), `beat` and `timer` (the heartbeat
goroutine and its wait), `missed`; of the registry: `registered`, `passing`,
`age`. `kind`, picked in Init, is the registry of the program:
`pkg/discovery/consul` (used by the mains) or `pkg/discovery/memory` (used by
the integration test, in which reports do not fail and heartbeats go on after
Deregister), so one run covers both. A report that is `sending` may arrive after
Deregister or after the end of its process. `Lookup` is `ServiceConnection`.

`Directory` is what is left of it for those who look a service up: a set of
listed instances, without records, reports, ages or time. An instance that is up
never drops out of it, one that has left never comes back, nor does one that
crashed and has been forgotten; a lookup sees the set at one instant.
`ImplementsDirectory` is the refinement: `listed` is what ServiceAddresses takes
for active, and a crashed instance counts as forgotten when its last report has
aged out (`Fate`).

### MovieDetails, DetailsRead

One movie process, `Calls` concurrent calls. `gateway` is the metadata gateway
the controller was made with. `Connect` picks one address for all attempts
(`Gateway.Get`), `Fetch` is one pass of the retry loop of the gRPC gateway,
`Wake` the end of its sleep, `GiveUp` the exit of the loop after the last
attempt, `Rate` the call of the rating service; `FetchOnce` is the HTTP gateway,
which does not retry. Instances start and stop, the registry lists and drops them
as it likes (`Relist`), and contexts end at any time. The rating service is asked once and is represented
by its answers. `up` is the process: a panic in a gRPC handler ends it and every
call in it, one in an HTTP handler is recovered by net/http (`Recover`). The HTTP
gateway of ratings is not an alternative here, because its PutRating lacks the
token that the controller's interface asks for.

`DetailsRead` is what a caller gets: one atomic read of metadata and rating, or
an error, without instances, retries, deadlines or panics.
`ImplementsDetailsRead` is the refinement. The read takes place when the rating
service answers (`Rate`): the metadata that was read before is still stored then,
because nothing deletes or overwrites it.

### MovieUpload

Uploads of files to one process, chunk by chunk. `client` and `sent` are
`uploadFile` of `cmd/uploadclient`, `handler`, `recvd`, `open` and `offset` the
goroutine of `UploadFile` with its descriptor, `cells` the files on disk. The
client may be `Window` chunks ahead (the flow control of the stream). Every
handler creates its file when the first chunk arrives (`os.Create` truncates)
and writes from offset 0, so a file that two uploads have open holds cells of
both, or a `Hole`. `Break` loses a stream, `Crash` ends the process, and reads,
creates and writes may fail. The history variables `owner` and `overlap` say
which upload created a file last and which have had it open together.

### RatingService

One process of the rating service at a time, with its successors. `rows` is the
table, `issued` what the auth service has signed. A call has one request, and
goes `token` → `put` for a put, `query` → `scan` → `aggregate` for a get
(`repository/mysql`: the SELECT fixes `snapshot`, each Scan adds to `seen`).
`api` says whether it comes over gRPC, over HTTP, or from the HTTP gateway of
the movie service, which names its form values differently from what the
handler reads (`RecordSeen`). `RatingOf` and `RatingOfEvent` make a Rating
without a record, as the code does, so `Valid` refuses each of them and rows only
come from elsewhere (`Import`). `Produce`, `ReadMessage`, `Send`, `AutoCommit`
and `Consume` are the way of an event from the producer's file to PutRating,
with the positions of the consumer; `Consume` of an event that fails is the end
of the process (`Restart`), and the next one reads from `committed`.

### ServiceProcess

`service` is one of the four, `Program(service)` its main as the sequence of the
statements that matter, `main` the statement it has reached; the variable is
picked in Init, so one run covers all four. `deferred` are the functions that
will run when main returns or panics (shut the tracer down, deregister, close
the lock provider), last to first (`Unwind`, `Runs`). `listeners` are the
goroutines that serve metrics and profiles and may call log.Fatal at any time;
`stopper` is the goroutine that waits for a signal, `server` the gRPC server as
Serve and GracefulStop see it, `con` and `ing` the goroutines of StartIngestion
and Ingest with the channel (`buffered`, `closed`) between them; `registered`
and `session` are what Consul has of the process. `End` ends the process: main
returns, main has panicked and its deferred functions have run, log.Fatal
anywhere, a panic of another goroutine, or a signal that kills. Deferred
functions that change nothing the model has (the configuration file) have no
step.

### How they fit together

The modules meet in states and answers, not in shared variables. MovieDetails
leaves `listed` and `serving` independent of each other (`Relist`), so it covers
every registry, those that Directory allows included: an instance may be listed
and dead, or serving and not listed. Its metadata answers come from
MetadataService (OK, NotFound, Internal), its rating answers from RatingService. RatingService's `Kill` and `Restart` are ends and starts of
ServiceProcess, which has the same two goroutines of the ingestion with their
channel as far as they can end the process. Discovery's `Cancel`,
`Deregister` and `Crash` are what ServiceProcess does in detail. MovieLock's
`main` is the same for the movie service with its lock provider.

## The runs

| Run | Bounds | Shows |
|---|---|---|
| `metadata` | 1 id and the empty id, 2 values, 2 replicas, 2 callers | caches agree with the table; acknowledged writes last and are read through every replica; the refinement |
| `lock_safety` | 2 instances, lost and late answers | two instances process at once only after a late release has freed a key acquired again; a lost lock stays under its lock-delay |
| `lock_liveness` | 2 instances, lost answers, releases that work or never run | the lock of a dead instance is freed; the processor returns after a signal |
| `lock_session_never_renewed` | 1 instance, no fault | **violated**: no retry succeeds after the session has expired |
| `discovery` | both registries, 2 instances, 1 client, one missed report in a row, reports that take 1s | no record comes back, the dead are forgotten, who is up is and stays listed, no lookup panics; the refinement of Directory |
| `details` | 2 calls, 1 instance, 3 attempts, both metadata gateways | an OK is complete and of one instant; outages are hidden; only an outage or a deadline brings the process down; every call ends |
| `details_panic` | 1 call, 5 attempts | **violated**: Get returns |
| `process` | all four services, 2 calls, of which one may be an upload | every end of main removes record and session and cuts no call; a signal ends the process, unless a client keeps an upload open |
| `process_panic` | 1 call | **violated**: no panic in the shutdown |
| `upload` | 2 uploads under 1 name, up to 3 chunks, window 1 | a file that one upload had for itself is a prefix of its source; after OK nothing of the source is missing, but what an overlapping upload has overwritten; the client's OK is the handler's; every client ends |
| `rating` | 1 call out of 14 requests, 2 records, 2 users, 3 imported rows, 3 events | averages are of what was stored, a refused token stores nothing, no event is passed over, the call ends |
| `rating_put` | as `rating` | **violated**: a valid put with the token of its user is accepted |

Why the bounds are enough to meet the interesting cases:

- *metadata*: a race needs two requests on one id at two replicas, with two
  values to tell an old row from a new one. The empty id is a second key with
  different rules, so a mix-up of keys would show.
- *lock*: time is in units of 5s, so TTL 2, lock-delay 3, process 1, retry
  delay 2 are the numbers of the code and of Consul; MaxLatency 1 lets a grant
  and a processing be as late as the lock-delay allows. Sessions are swept
  anywhere between 2 and 4 units, so they expire in every state of the loop.
  Two instances are what mutual exclusion is about; a third can only wait.
- *discovery*: time is in seconds with the 5s and 1s of the code. In memory a
  graceful stop of more than 5s is what makes a record stale if its heartbeat
  does not go on (the mutant of `EmptyIsNotFound`). With Consul, one failed
  report and one slow one in a row is the most that a window of 5s survives with
  room for the next: see `HeartbeatsSuffice` below.
- *details*: 3 attempts where the code has 5: a first one, one in between and a
  last one are what the loop tells apart, and the proofs are for any number. One
  instance, because all attempts of a call go to one address. Two calls, because a panic ends the calls of others.
- *process*: nothing is bounded but the calls; two, so that one may end while
  the other holds GracefulStop. One of them is an upload, which only the movie
  service takes.
- *upload*: uploads under different names do not meet, so one name; two uploads
  overlap, follow each other or truncate each other's file, and with three
  chunks a cell can be skipped, overwritten and appended. A wider window only
  adds chunks in flight.
- *rating*: calls share nothing but the table, which Import changes under every
  step of a call, so one call meets what a second could do to it. The requests
  are one for each way through the handlers. Two rows of one record and one of
  another make averages that differ by what is left out or mixed in; three
  events fill the topic, the hand and the channel, and one of them is not valid.

`metadata` and `lock_safety` use symmetry; they check safety only. Deadlock is
checked everywhere but in the runs of ServiceProcess, where a process ends, and
of MovieUpload, where every client comes to an end.

### Fairness

- MovieLock: goroutines run, Consul answers and sweeps sessions, time passes.
  Nothing for signals, crashes, the graceful stop (a stream may last for ever)
  or late releases.
- Discovery: heartbeat goroutines run, Consul expires checks, time passes.
- MovieDetails: the goroutine of a call runs (each step ends: gRPC calls are
  bounded by their context, and by the connection's own failure). Nothing for
  the instances.
- ServiceProcess: main and the signal goroutine run, and the handlers of unary
  calls return: each is a bounded sequence of queries of MySQL and gRPC calls,
  which answer or fail (GetMovieDetails retries a bounded number of times).
  Nothing for uploads (`Streams`): UploadFile waits in Recv without a deadline for
  what its client sends. `SignalEndsProcess` has the client's part as a premise,
  for each upload `[]<>(c \notin calls)`: it does not stay open for ever. Without
  that premise the property fails. Nothing for Kafka: `ReadMessage(-1)` may wait
  for ever.
- MovieUpload: clients and handlers run, each step of them as long as it is not
  blocked (Send by the flow control, Recv by a client that sends nothing).
  Nothing for failures.
- RatingService: the handlers run; MySQL and the auth service answer or fail.
  Nothing for the ingestion, the producer or those who add rows.

### What the violations say

1. *The session is never renewed* (`consul.go:28`). It has a TTL of 10s, the
   provider creates one at start and nothing renews it. After its expiry each
   Acquire fails for the rest of the process, and the log says "retrying" for
   ever.
2. *The retry loop returns nothing* (`grpc/metadata.go:54`). After its last
   attempt the `err` that is returned is an outer one, which is nil; the
   controller dereferences the nil metadata.
3. *The channel is closed twice* (`ingester.go:51`). The loop goes on after
   ctx.Done; the panic ends the process before its calls are answered and its
   record is removed.
4. *A valid put is refused* (`rating/internal/handler/grpc/grpc.go:72`). The
   handler validates a Rating of which it never sets the two fields that are
   required, so no rating is ever put; the integration test puts one and takes an
   error for fatal.

### What else the modules say of the code

No run is spent on these; the actions named have them.

- A release of the lock that failed and was only late frees the key under the
  next processing, since the loop acquires again at once with the session that
  still holds it (`processor.go:49`, `LateRelease`). `OnlyOvertakingBreaksIt`
  says that nothing else lets two instances process at once.
- The registry in memory answers an empty list without an error when all records
  are stale, and `rand.Intn(0)` would panic (`memory.go:92`, `NothingFound`,
  `Outcomes`). Only its user keeps it from that: the heartbeats of the integration
  test go on until the record is deregistered, so it is never stale as long as a
  heartbeat is not late by more than 4s (`EmptyIsNotFound`, `LookupsNeverPanic`).
  The heartbeats of the mains end with the signal: with them the registry in
  memory would panic during a graceful stop of more than 5s. That of Consul does
  not, whatever the heartbeats do.
- A client that neither sends a chunk nor breaks off keeps UploadFile in Recv,
  which has no deadline, and with it GracefulStop and a movie process that was
  told to stop, for ever (`grpc.go:77`, the premise of `SignalEndsProcess`).
- Two uploads of one name that overlap may both be answered "uploaded
  successfully" over a file that is a mix of both (`Create`, `Write`);
  `OkIsWhole` bounds the mix.
- A movie without metadata is answered Internal: no gateway ever returns the
  error the controller looks for (`Fetch`, `FetchOnce`).
- A PUT of metadata over HTTP that is answered 400 is stored all the same
  (`RepoPutIncompleteOverHTTP`).
- After a refused token the HTTP handler of ratings goes on to the controller;
  `UncheckedIsNotStored` holds only because the second validation refuses every
  rating. Its mutant sets the record of a Rating, and rows get in unchecked: the
  repair of 4 needs the missing return as well.
- A second rating of a record by the same user is a duplicate key
  (`schema.sql`, `Insertable`), while the integration test puts two and the
  repository in memory takes both.
- A GET of ratings over HTTP answers 200 with 0 when the repository fails
  (`RepoFails`), and the HTTP gateway sends form values the handler does not read,
  so every call of it is refused (`RecordSeen`).
- The first event of Kafka ends the process, whatever it says (`Consume`); unless
  a commit came first, it does so again at the next start. Deletions are treated
  as puts.
- An upload without a chunk creates no file and is answered as uploaded, with an
  empty name (`RecvEOF`).
- An id that is empty can be put but not read (`InvokePut`, `RejectGet`).

## The proofs

All hold for every value of the constants that satisfies the named assumptions.

| Module | Theorem | States | Assumes |
|---|---|---|---|
| MetadataService_proofs | TypeCorrect, CacheIsCoherent, AckedPutsAreStored, ReadsAgree, WritesAreRead, Refinement | the five invariants of the run, and that the service implements WriteOnceStore | `NoneAssumption`: nil is no id and no value |
| MovieLock_proofs | TypeCorrect, ProcessingIsExclusive, LostLockIsDelayed, ExclusiveWithoutLateReleases, KeyIsFreedInTime, EndedSessionsStayEnded, ProcessorTakesBoundedWork, ProcessorIsNeverStuck | exclusion until a late release overtakes, and for good where none is late; a lost lock is under its delay; a key comes free within 2 TTL + LockDelay; a processor whose session has ended is never granted the lock again; after the signal a processor is at most five steps and one wait from its return | `TimeAssumption`, and `DelayAssumption`: MaxHold < LockDelay; ExclusiveWithoutLateReleases `"late" \notin Faults` |
| Discovery_proofs | TypeCorrect, LeftStaysAway, DeadAreForgotten, LookupsNeverPanic, UpIsListedOn, DirectoryIsImplemented, UpIsListedInTime | no record comes back; the dead are forgotten; no lookup picks from an empty list; who is up is listed in time and stays listed; the refinement of Directory; all with either registry | `DiscoveryAssumption`; LookupsNeverPanic `Period + MaxLatency <= Window`, UpIsListedOn and DirectoryIsImplemented `HeartbeatsSuffice` |
| MovieDetails_proofs | TypeCorrect, OkAnswersAreComplete, PanicsNeedAnOutage, OutagesAreHidden, ReadIsImplemented, CallsTakeBoundedWork | the safety properties of `details`; the refinement of DetailsRead; a call takes at most 2 MaxRetries + 3 steps; for any number of attempts | `MovieDetailsAssumption` |
| ServiceProcess_proofs | TypeCorrect, EndsWithoutRecord, CallsAreAnswered, ShutdownIsNeverStuck, ShutdownTakesBoundedWork | the safety properties of `process`; only calls in progress hold a shutdown up, and it has ever less to do; for any number of calls, uploads among them | `StreamsAssumption`: uploads are calls |
| MovieUpload_proofs | TypeCorrect, SoleUploadsArePrefixes, AnsweredUploadsAreWhole, ClientsAreTold, NoUploadIsStuck, UploadsTakeBoundedWork | the safety properties of `upload`; client and handler never wait for each other, and have ever less to do; for any uploads, names, sizes and windows | `UploadAssumption` |
| RatingService_proofs | TypeCorrect, AveragesAreFresh, AveragesAreOfRows, UncheckedAreNotStored, EventsReachPutRating, NoPutSucceeds, NothingIsIngested, CallsTakeBoundedWork | the safety properties of `rating`; no put succeeds and no event is stored; a call has ever less to do; for any calls, requests, rows and events | `RatingAssumption` |

The arguments:

- **MetadataService.** The table only gains rows (`movies[i]` is set once). The
  invariant says that everything else that holds a value (each cache, each read
  on its way into a cache or to a client, each acknowledged Put) holds the value
  of its row. No single property is inductive: a cache is filled from a read
  that is on its way, so the read must be covered too. The refinement maps each
  step to a step of WriteOnceStore or to a stutter, under this invariant.
- **MovieLock.** An instance that processes need not hold the lock, because its
  session may have ended under it. The invariant adds what protects it then:
  the time since the grant and what is left of the lock-delay add up to at least
  the whole delay, so by `DelayAssumption` the delay outlasts the processing.
  Nothing in the code relates these two numbers; the assumption is where the
  safety of the lock rests. Only a release that fails and runs later can overtake
  (`NothingIsLate`), so without such faults exclusion needs nothing but that
  assumption.
  `SessionBacked` says that a holder has a live session, whose age bounds how long
  a dead holder keeps others away: `FreeIn`, what is left of the session and its
  delay, shrinks with every tick, and only a grant sets it back. The same
  invariant says that a session that has ended is the last of its process
  (`EndedForGood`), which is what `lock_session_never_renewed` meets, for any
  number of instances and any faults.
- **Discovery.** The invariant bounds the age of a record by where the heartbeat
  of its instance is: waiting, or on its way, after so many failures. With
  `HeartbeatsSuffice` (MaxMissed + 1 slow cycles are shorter than the window) no
  record of an instance that is up grows stale. For a dead instance it says
  that a report under way is the last. Both are what the refinement of Directory
  needs: an ExpireCheck or a Tick takes only instances off the list that are not
  up, and a report that lands late finds no record or is of one not forgotten yet.
  For the registry in memory (`Kept`) the heartbeat goes on for as long as there
  is a record, whose age it therefore bounds by one heartbeat: so what a lookup
  finds and what it lists are the same (`FoundIsListed`).
  `Left`, the time until the next accepted report, also bounds how long an
  instance that is up can be missing from the list, whatever the window is.
- **MovieDetails.** The invariant follows a call through its points: what has
  been read by then, and that a call whose instance has served all the time has
  failed no attempt unless its deadline has passed. The same facts map each step
  to a step of DetailsRead: what has been read is still so when Rate answers.
- **ServiceProcess.** Whatever Consul has of the process, its removal is deferred
  (`Owned`): that is what holds at every statement of each of the four mains, and
  what the panics and fatal errors between them cannot break. Past a Serve that
  returned without an error the server is stopped, which it is only without
  calls (`ServerEmpty`). `StopReached` adds where main can be after a signal, and
  from it follows that main and the goroutine of the signal never wait for each
  other, nor wg.Wait for anything but calls.
- **MovieUpload.** `Phase` relates the offsets of an upload to the point of its
  handler; `Alone` says that the last creator of a file shares it with nobody
  unless the history says so. Together they make the prefix property inductive:
  no other handler can write to the file, and its own appends one cell. Where
  another handler can write, it is in the history (`Marked`), and what it writes
  over a cell of the last creator is a chunk, never a hole (`Covered`). `Linked`
  is about the two ends of one stream, and excludes that the client waits for
  room or for its answer while its handler waits for a chunk.
- **RatingService.** No Rating that the service makes is valid, so the table only
  grows from outside; `Good` follows one call through its handler: what it has
  seen is of its snapshot, and the snapshot of the table between its begin and
  now. For the events, whatever has been read is handled, in the hand, in the
  channel, or was there when a process ended. That no put succeeds generalises
  what `rating_put` shows, to all requests and to the events of Kafka.

**Why things end.** The liveness properties need fairness and stay with TLC, but
their safety content is proved. It has two halves. Whoever is not finished can
take a step, waits for somebody who can, or for time to pass (`NobodyIsStuck`,
`OnlyCallsHoldItUp`, `OnlyWaitsHoldItUp`). And each step makes a natural number
smaller that no other step makes larger (`Work`, `ClientWork` and `HandlerWork`,
`MainWork` and `StopperWork`, `StepsLeft`) or, where it is time that must pass,
every tick does (`FreeIn`, `Left`, the `timer` of `Waits`). So neither retries,
nor failures, nor what others do can start a call, an upload or a shutdown anew.
ENABLED is out of the prover's reach: the `CanMove` predicates restate the guards
of the actions of a client, a handler, main and its goroutine.

Only model-checked: the liveness properties as such (DeadHolderIsFreed,
ProcessorReturns, UpIsEventuallyListed, both EveryCallEnds, EveryUploadEnds,
SignalEndsProcess), which need fairness and are out of this prover's reach, and
the violations. All invariants, action properties and refinements of the runs
are proved.

## What is not modelled

- Formatting, logging, counters and spans: no decision reads them.
- DNS, TLS, the parsing of configuration and addresses: pure I/O. A port that
  is no number fails Register as any other error does; credentials that do not
  load are a step of ServiceProcess.
- The token bucket of the limiter is in `golang.org/x/time/rate`; whether a call
  is refused is a choice (`Limit`).
- The expiry and the form of tokens: the auth service sets no expiry, and a
  signature is of its secret or not.
- The Put methods of the metadata gateways: nobody calls them.
- The repositories in memory as repositories: tests only. The one of metadata is
  modelled as the cache it is used as.
- Generated code, mocks, `cmd/sizecompare`, which prints sizes, and the tests,
  which are read for what they promise.

## Plan

Done: MetadataService with WriteOnceStore, MovieLock, Discovery, MovieDetails,
MovieUpload, RatingService, ServiceProcess for the four services, the HTTP
variants of the handlers and gateways, and proofs of the safety properties of
all of them, with the refinements of WriteOnceStore, Directory and DetailsRead and
the bounds behind the liveness properties. Left, in this order:

1. **A composition of Directory and MovieDetails**: the theorem that the address a
   call has got was listed, and is at most the window and the latency of a
   report out of date.
2. **An abstract ledger of ratings** that RatingService implements: a rating that
   was accepted counts in every later average. It says little as long as no put
   is accepted (`NoPutSucceeds`).
3. **Limiter**: the token bucket in integers, composed with the handlers, and
   bounds on what passes in a window.
