---------------------------- MODULE ServiceProcess ----------------------------
(***************************************************************************)
(* The life of one process of any of the four services, from the start of  *)
(* main to its end, and the goroutines that take part in it, from          *)
(*   auth/cmd/main.go, metadata/cmd/main.go, rating/cmd/main.go,           *)
(*   movie/cmd/main.go, pkg/metrics, pkg/tracing, internal/grpcutil        *)
(*   rating/internal/ingester/kafka/ingester.go                            *)
(*   rating/internal/controller/rating/controller.go (StartIngestion)      *)
(* The heartbeat is in Discovery, the movie processor in MovieLock.        *)
(*                                                                         *)
(* A process ends when main returns, when main has panicked and its        *)
(* deferred functions have run, or at once: log.Fatal anywhere, a panic of *)
(* another goroutine, a signal that kills.  The gRPC server (Serve,        *)
(* GracefulStop), Consul, Kafka and the tracer are modelled as this code   *)
(* meets them.                                                             *)
(***************************************************************************)
EXTENDS Integers, Sequences

CONSTANTS
  Calls,  \* gRPC calls that clients may make
  Streams \* those that are uploads to the movie service: their handler waits
          \* for what the client sends

ASSUME StreamsAssumption == Streams \subseteq Calls

VARIABLES
  service,     \* whose main it is
  main,        \* the statement of main, or "unwind"
  panicking,   \* whether main unwinds with a panic
  deferred,    \* the deferred functions that matter
  listeners,   \* goroutines that serve the metrics and the profiler
  stopper,     \* the goroutine that waits for a signal
  pending,     \* whether sigChan holds a signal
  server,      \* the gRPC server
  calls,       \* calls in progress
  con,         \* the goroutine of StartIngestion
  ing,         \* the goroutine of Ingest
  buffered,    \* whether the channel between them holds an event
  closed,      \* whether that channel has been closed
  registered,  \* whether Consul has the record of the process
  session,     \* whether Consul has the session of its lock provider
  exit,        \* how the process has ended
  consulFailed, \* history: a call of Consul that adds or removes these has failed
  cut          \* history: calls that ended with the process

mainVars == <<service, main, panicking, deferred, listeners>>
serverVars == <<stopper, pending, server, calls>>
ingestVars == <<con, ing, buffered, closed>>
worldVars == <<registered, session, exit, consulFailed, cut>>
vars == <<mainVars, serverVars, ingestVars, worldVars>>

-----------------------------------------------------------------------------
(* The four mains, as the sequences of what they set up and run *)

AuthMain ==
  <<"logger", "config", "tracer", "registry", "register", "metrics", "listen",
    "credentials", "notify", "serve", "serving", "wait">>

MetadataMain ==
  <<"logger", "profiler", "config", "tracer", "registry", "register", "metrics",
    "repository", "credentials", "listen", "notify", "serve", "serving", "wait">>

RatingMain ==
  <<"logger", "config", "tracer", "registry", "register", "repository", "ingester",
    "credentials", "ingestion", "metrics", "listen", "notify", "serve", "serving", "wait">>

MovieMain ==
  <<"logger", "config", "tracer", "registry", "register", "lock", "processor",
    "credentials", "metrics", "listen", "notify", "serve", "serving", "wait">>

Services == {"auth", "metadata", "rating", "movie"}

Program(s) ==
  CASE s = "auth" -> AuthMain [] s = "metadata" -> MetadataMain
    [] s = "rating" -> RatingMain [] s = "movie" -> MovieMain

\* Statements without an effect on what is modelled, and those that may panic
\* or call log.Fatal.
Plain == {"logger", "config", "registry", "repository", "ingester", "processor",
          "credentials", "listen"}
Panicky == {"logger", "config", "registry", "repository"}
Fatal == {"tracer", "ingester", "listen", "lock"}

Statements == Plain \cup {"profiler", "tracer", "register", "metrics", "lock", "ingestion",
                          "notify", "serve", "serving", "wait", "unwind"}

-----------------------------------------------------------------------------
\* The process has not ended.
Running == exit = "none"

\* cancel() has been called.
Cancelled == stopper \in {"cancelled", "stopping", "done"}

StopperPoints == {"off", "waiting", "cancelled", "stopping", "done"}
ServerStates == {"new", "serving", "quit", "stopped"}
ConPoints == {"off", "subscribe", "range", "returned"}
IngPoints == {"off", "select", "reading", "sending", "closing"}
Exits == {"none", "ok", "panic", "setup", "tracer", "metrics", "profiler", "ingestion",
          "ingester", "killed"}

TypeOK ==
  /\ service \in Services /\ main \in Statements
  /\ deferred \subseteq {"shutdown", "deregister", "close"}
  /\ listeners \subseteq {"metrics", "profiler"}
  /\ stopper \in StopperPoints /\ server \in ServerStates
  /\ con \in ConPoints /\ ing \in IngPoints
  /\ panicking \in BOOLEAN /\ pending \in BOOLEAN /\ buffered \in BOOLEAN
  /\ closed \in BOOLEAN /\ registered \in BOOLEAN /\ session \in BOOLEAN
  /\ consulFailed \in BOOLEAN
  /\ exit \in Exits
  /\ calls \subseteq Calls /\ cut \subseteq Calls
  /\ closed => Cancelled

Init ==
  /\ service \in Services /\ main = "logger" /\ panicking = FALSE
  /\ deferred = {} /\ listeners = {}
  /\ stopper = "off" /\ pending = FALSE /\ server = "new" /\ calls = {}
  /\ con = "off" /\ ing = "off" /\ buffered = FALSE /\ closed = FALSE
  /\ registered = FALSE /\ session = FALSE
  /\ exit = "none" /\ consulFailed = FALSE /\ cut = {}

\* The process ends with all its goroutines.
End(how) ==
  /\ exit' = how
  /\ cut' = cut \cup calls /\ calls' = {}
  /\ UNCHANGED <<mainVars, stopper, pending, server, ingestVars, registered, session, consulFailed>>

MainAt(statement) == Running /\ main = statement

\* main goes on to the statement that follows in its program.
Continue ==
  /\ \E i \in 1..(Len(Program(service)) - 1) :
       Program(service)[i] = main /\ main' = Program(service)[i + 1]
  /\ UNCHANGED <<service, panicking>>

\* panic in main: the functions deferred so far run.
Panic ==
  /\ main' = "unwind" /\ panicking' = TRUE
  /\ UNCHANGED <<service, deferred, listeners>>

-----------------------------------------------------------------------------
(* main, up to Serve *)

\* What only matters when it fails; the goroutine of the processor ends with
\* a warning, if it ends.
SetUp ==
  /\ Running /\ main \in Plain
  /\ Continue
  /\ UNCHANGED <<deferred, listeners, serverVars, ingestVars, worldVars>>

SetUpPanics ==
  /\ Running /\ main \in Panicky
  /\ Panic
  /\ UNCHANGED <<serverVars, ingestVars, worldVars>>

\* log.Fatal runs no deferred function: the record stays, if there is one.
SetUpFails == Running /\ main \in Fatal /\ End("setup")

\* The certificate or its key cannot be read or is none.
CredentialsFail == MainAt("credentials") /\ End("setup")

\* The exporter of the spans; its Shutdown is deferred.
StartTracer ==
  /\ MainAt("tracer")
  /\ Continue
  /\ deferred' = deferred \cup {"shutdown"}
  /\ UNCHANGED <<listeners, serverVars, ingestVars, worldVars>>

Register ==
  /\ MainAt("register")
  /\ Continue
  /\ registered' = TRUE
  /\ deferred' = deferred \cup {"deregister"}
  /\ UNCHANGED <<listeners, serverVars, ingestVars, session, exit, consulFailed, cut>>

\* A registration that is reported failed may have taken effect; Deregister
\* is not deferred yet.
RegisterFails ==
  /\ MainAt("register")
  /\ Panic
  /\ registered' \in BOOLEAN
  /\ consulFailed' = TRUE
  /\ UNCHANGED <<serverVars, ingestVars, session, exit, cut>>

\* The lock provider of the movie service creates its session.
OpenLock ==
  /\ MainAt("lock")
  /\ Continue
  /\ session' = TRUE
  /\ deferred' = deferred \cup {"close"}
  /\ UNCHANGED <<listeners, serverVars, ingestVars, registered, exit, consulFailed, cut>>

\* A goroutine that serves the metrics, or the profiler when a flag says so.
StartListener ==
  /\ Running /\ main \in {"metrics", "profiler"}
  /\ Continue
  /\ listeners' \in {listeners \cup {main}} \cup (IF main = "profiler" THEN {listeners} ELSE {})
  /\ UNCHANGED <<deferred, serverVars, ingestVars, worldVars>>

\* That goroutine cannot listen.
ListenerFails == Running /\ \E l \in listeners : End(l)

\* The goroutine of StartIngestion.
StartIngestion ==
  /\ MainAt("ingestion")
  /\ Continue
  /\ con' = "subscribe"
  /\ UNCHANGED <<deferred, listeners, serverVars, ing, buffered, closed, worldVars>>

\* signal.Notify, and the goroutine that waits for the signal.
Notify ==
  /\ MainAt("notify")
  /\ Continue
  /\ stopper' = "waiting"
  /\ UNCHANGED <<deferred, listeners, pending, server, calls, ingestVars, worldVars>>

-----------------------------------------------------------------------------
(* main, from Serve on *)

\* Serve, which after GracefulStop returns ErrServerStopped at once.
Serve ==
  /\ MainAt("serve")
  /\ IF server = "new"
     THEN server' = "serving" /\ Continue /\ UNCHANGED <<deferred, listeners>>
     ELSE Panic /\ UNCHANGED server
  /\ UNCHANGED <<stopper, pending, calls, ingestVars, worldVars>>

\* Accept fails for good: Serve returns its error.
ServeFails ==
  /\ MainAt("serving") /\ server = "serving"
  /\ Panic
  /\ UNCHANGED <<serverVars, ingestVars, worldVars>>

\* When the server has been stopped, Serve returns nil after GracefulStop.
ServeReturns ==
  /\ MainAt("serving") /\ server = "stopped"
  /\ Continue
  /\ UNCHANGED <<deferred, listeners, serverVars, ingestVars, worldVars>>

\* main returns: its deferred functions run.
Unwind ==
  /\ main' = "unwind"
  /\ UNCHANGED <<service, panicking, deferred, listeners, serverVars, ingestVars, worldVars>>

\* Faulty variant of Wait: main waits for the ingestion as well.
WaitForIngestion == MainAt("wait") /\ stopper = "done" /\ con = "returned" /\ Unwind

\* wg.Wait: for the signal goroutine only.
Wait == MainAt("wait") /\ stopper = "done" /\ Unwind

-----------------------------------------------------------------------------
(* The deferred functions, last to first; those that only log are left out *)

\* f is the next deferred function to run.
Runs(f) ==
  /\ MainAt("unwind") /\ f \in deferred
  /\ deferred \subseteq (CASE f = "close" -> {"close", "deregister", "shutdown"}
                           [] f = "deregister" -> {"deregister", "shutdown"}
                           [] f = "shutdown" -> {"shutdown"})
  /\ deferred' = deferred \ {f}
  /\ UNCHANGED <<service, main, panicking, listeners, serverVars, ingestVars>>

\* The lock provider destroys its session.
CloseLock ==
  /\ Runs("close")
  /\ session' = FALSE
  /\ UNCHANGED <<registered, exit, consulFailed, cut>>

\* Consul fails, before or after it has removed the session; a warning.
CloseLockFails ==
  /\ Runs("close")
  /\ session' \in BOOLEAN
  /\ consulFailed' = TRUE
  /\ UNCHANGED <<registered, exit, cut>>

\* Faulty variant of Deregister: it heeds the context it is called with.
DeregisterInContext ==
  /\ Runs("deregister")
  /\ registered' = Cancelled
  /\ UNCHANGED <<session, exit, consulFailed, cut>>

\* Deregister pays no attention to its context, which may be cancelled.
Deregister ==
  /\ Runs("deregister")
  /\ registered' = FALSE
  /\ UNCHANGED <<session, exit, consulFailed, cut>>

\* Consul fails, before or after it has removed the record; a warning.
DeregisterFails ==
  /\ Runs("deregister")
  /\ registered' \in BOOLEAN
  /\ consulFailed' = TRUE
  /\ UNCHANGED <<session, exit, cut>>

ShutdownTracer == Runs("shutdown") /\ UNCHANGED worldVars

\* The tracer is given the context too, and heeds it: log.Fatal.
ShutdownFails ==
  /\ MainAt("unwind") /\ deferred = {"shutdown"} /\ Cancelled
  /\ End("tracer")

\* main has returned, or its panic ends the process.
Exit ==
  /\ MainAt("unwind") /\ deferred = {}
  /\ End(IF panicking THEN "panic" ELSE "ok")

-----------------------------------------------------------------------------
(* Signals and the server *)

\* SIGTERM or an interrupt.
Signal ==
  /\ Running /\ stopper # "off"
  /\ pending' = TRUE
  /\ UNCHANGED <<mainVars, stopper, server, calls, ingestVars, worldVars>>

\* SIGKILL, or any signal before signal.Notify.
Kill == Running /\ End("killed")

Cancel ==
  /\ Running /\ stopper = "waiting" /\ pending
  /\ stopper' = "cancelled"
  /\ UNCHANGED <<mainVars, pending, server, calls, ingestVars, worldVars>>

\* GracefulStop closes the listener of a server that serves, and a server
\* that does not serve yet will not.
BeginStop ==
  /\ Running /\ stopper = "cancelled"
  /\ stopper' = "stopping"
  /\ server' = "quit"
  /\ UNCHANGED <<mainVars, pending, calls, ingestVars, worldVars>>

\* Faulty variant of EndStop: Stop in place of GracefulStop.
EndStopAtOnce ==
  /\ Running /\ stopper = "stopping"
  /\ stopper' = "done"
  /\ server' = "stopped"
  /\ UNCHANGED <<mainVars, pending, calls, ingestVars, worldVars>>

\* GracefulStop returns when no call is in progress.
EndStop ==
  /\ Running /\ stopper = "stopping" /\ calls = {}
  /\ stopper' = "done"
  /\ server' = "stopped"
  /\ UNCHANGED <<mainVars, pending, calls, ingestVars, worldVars>>

BeginCall(c) ==
  /\ MainAt("serving") /\ server = "serving"
  /\ c \notin calls /\ (c \in Streams => service = "movie")
  /\ calls' = calls \cup {c}
  /\ UNCHANGED <<mainVars, stopper, pending, server, ingestVars, worldVars>>

EndCall(c) ==
  /\ Running /\ c \in calls
  /\ calls' = calls \ {c}
  /\ UNCHANGED <<mainVars, stopper, pending, server, ingestVars, worldVars>>

-----------------------------------------------------------------------------
(* The ingestion *)

\* Ingest subscribes, makes the channel and starts its goroutine.
Subscribe ==
  /\ Running /\ con = "subscribe"
  /\ con' = "range" /\ ing' = "select"
  /\ UNCHANGED <<mainVars, serverVars, buffered, closed, worldVars>>

SubscribeFails == Running /\ con = "subscribe" /\ End("ingestion")

\* The select of Ingest: the default, or ctx.Done.
Select ==
  /\ Running /\ ing = "select" /\ ~ Cancelled
  /\ ing' = "reading"
  /\ UNCHANGED <<mainVars, serverVars, con, buffered, closed, worldVars>>

CloseChannel ==
  /\ Running /\ ing = "select" /\ Cancelled /\ ~ closed
  /\ closed' = TRUE
  /\ ing' = "closing"
  /\ UNCHANGED <<mainVars, serverVars, con, buffered, worldVars>>

\* The loop goes on after ctx.Done, and the second close is a panic.
CloseAgain == Running /\ ing = "select" /\ Cancelled /\ closed /\ End("ingester")

CloseConsumer ==
  /\ Running /\ ing = "closing"
  /\ ing' = "select"
  /\ UNCHANGED <<mainVars, serverVars, con, buffered, closed, worldVars>>

\* Faulty variant of ReadMessage: an error of the consumer ends the loop.
ReadMessageOrClose ==
  /\ Running /\ ing = "reading"
  /\ \/ ing' = "sending" /\ UNCHANGED closed
     \/ ing' = "closing" /\ closed' = TRUE
  /\ UNCHANGED <<mainVars, serverVars, con, buffered, worldVars>>

\* ReadMessage returns an event, an error, or what is no event.  It waits
\* without a timeout and without the context.
ReadMessage ==
  /\ Running /\ ing = "reading"
  /\ ing' \in {"sending", "select"}
  /\ UNCHANGED <<mainVars, serverVars, con, buffered, closed, worldVars>>

Send ==
  /\ Running /\ ing = "sending" /\ ~ buffered
  /\ buffered' = TRUE
  /\ ing' = "select"
  /\ UNCHANGED <<mainVars, serverVars, con, closed, worldVars>>

\* StartIngestion hands PutRating a Rating without the RecordId and the
\* RecordType it requires: the first event is an error, and log.Fatal.
Consume == Running /\ con = "range" /\ buffered /\ End("ingestion")

RangeEnds ==
  /\ Running /\ con = "range" /\ closed /\ ~ buffered
  /\ con' = "returned"
  /\ UNCHANGED <<mainVars, serverVars, ing, buffered, closed, worldVars>>

-----------------------------------------------------------------------------
Main ==
  \/ SetUp \/ SetUpPanics \/ SetUpFails \/ CredentialsFail
  \/ StartTracer \/ Register \/ RegisterFails \/ OpenLock \/ StartListener \/ StartIngestion
  \/ Notify \/ Serve \/ ServeReturns \/ Wait
  \/ CloseLock \/ CloseLockFails \/ Deregister \/ DeregisterFails
  \/ ShutdownTracer \/ ShutdownFails \/ Exit

Stopper == Cancel \/ BeginStop \/ EndStop

Ingestion ==
  \/ Subscribe \/ SubscribeFails \/ Select \/ CloseChannel \/ CloseConsumer
  \/ CloseAgain \/ ReadMessage \/ Send
  \/ Consume \/ RangeEnds

Next ==
  \/ Main \/ ServeFails \/ ListenerFails
  \/ Signal \/ Kill \/ Stopper
  \/ \E c \in Calls : BeginCall(c) \/ EndCall(c)
  \/ Ingestion

Spec == Init /\ [][Next]_vars

\* main and the signal goroutine run, and the handlers of unary calls return.
\* Nothing is assumed of uploads, whose Recv has no deadline, nor of Kafka:
\* ReadMessage may wait for ever.
FairSpec ==
  /\ Spec
  /\ WF_vars(Main) /\ WF_vars(Stopper)
  /\ \A c \in Calls \ Streams : WF_vars(EndCall(c))

-----------------------------------------------------------------------------
(* Properties *)

\* However signal, Serve, GracefulStop, a failing Accept, a panic of main at
\* any statement and the deferred functions meet, a process whose main ran to
\* its end, by a return, a panic or a failing tracer, has left no record in
\* Consul that would send clients to it and no session that would hold the
\* lock, unless Consul itself has failed.
EndsDeregistered ==
  exit \in {"ok", "panic", "tracer"} /\ ~ consulFailed => ~ registered /\ ~ session

\* A process that a signal has brought to its end in main has answered every
\* call it had begun.
StopCutsNoCall == exit \in {"ok", "tracer"} /\ ~ panicking => cut = {}

\* A signal that has been received ends the process, unless a client keeps an
\* upload open for ever: it is the only one that can hold up GracefulStop.
\* Neither wg.Wait nor Serve hangs, though the ingester may wait for Kafka for
\* ever.
SignalEndsProcess ==
  (\A c \in Streams : []<>(c \notin calls)) => (Cancelled ~> ~ Running)

\* "Got signal, attempting graceful shutdown" (main.go:151): no panic of the
\* ingester ends the process in the middle of its shutdown.
ShutdownDoesNotPanic == exit # "ingester"
=============================================================================
