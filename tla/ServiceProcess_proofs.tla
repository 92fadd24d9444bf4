----------------------- MODULE ServiceProcess_proofs -----------------------
(***************************************************************************)
(* What a process leaves behind when its main has run to the end, for any  *)
(* service and any number of calls: no record and no session in Consul,    *)
(* and no call without an answer.                                          *)
(*                                                                         *)
(* Whatever Consul has of the process, its removal is deferred (Owned), so *)
(* nothing is left when no function is deferred any more; past a Serve     *)
(* that returned without an error the server is stopped (ServerEmpty),     *)
(* which it is only without calls.                                         *)
(*                                                                         *)
(* The last part is about the shutdown: nobody but a call in progress holds *)
(* it up (OnlyCallsHoldItUp), and each of its steps brings it nearer to the *)
(* end (ShutdownShrinks).                                                  *)
(***************************************************************************)
EXTENDS ServiceProcess, TLAPS

\* Up to the call of signal.Notify, and of every function that may panic.
BeforeNotify == Plain \cup {"profiler", "tracer", "register", "metrics", "lock", "ingestion",
                            "notify"}
BeforePanic == BeforeNotify \cup {"serve", "serving", "wait"}

Owned ==
  ~ consulFailed =>
    (registered => "deregister" \in deferred) /\ (session => "close" \in deferred)

ServerEmpty ==
  /\ server = "quit" => stopper = "stopping"
  /\ server = "stopped" => stopper = "done"
  /\ server = "stopped" => calls = {}
  /\ main \in {"wait", "unwind"} /\ ~ panicking => server = "stopped"
  /\ main \in BeforePanic => ~ panicking
  /\ main \in BeforeNotify => stopper = "off"

EndsAtTheEnd ==
  /\ exit \in {"ok", "panic"} => main = "unwind" /\ deferred = {}
  /\ exit = "tracer" => main = "unwind" /\ deferred = {"shutdown"}

CutAtEnd ==
  /\ Running => cut = {}
  /\ exit \in {"ok", "tracer"} /\ ~ panicking => cut = {}

IInv == TypeOK /\ Owned /\ ServerEmpty /\ EndsAtTheEnd /\ CutAtEnd

-----------------------------------------------------------------------------
LEMMA InitInv == Init => IInv
BY DEF Init, IInv, TypeOK, Owned, ServerEmpty, EndsAtTheEnd, CutAtEnd, Running,
       Cancelled, Services, Statements, Plain, StopperPoints, ServerStates, ConPoints, IngPoints, Exits,
       BeforeNotify, BeforePanic

\* In all four programs, what follows is a statement; the server is set up
\* before signal.Notify, and Serve and Wait are the last ones.
LEMMA ProgramOrder ==
  ASSUME service \in Services, Continue
  PROVE  /\ main' \in Statements \ {"unwind"}
         /\ main' \in BeforeNotify => main \in BeforeNotify \ {"notify"}
         /\ main = "notify" => main' = "serve"
         /\ main = "serve" => main' = "serving"
         /\ main = "serving" => main' = "wait"
         /\ main' = "wait" => main = "serving"
         /\ main \in BeforeNotify \ {"notify"} => main' \in BeforeNotify
<1> USE DEF Continue, Program, Statements, BeforeNotify, Plain
<1>1. CASE service = "auth"
  BY <1>1 DEF AuthMain
<1>2. CASE service = "metadata"
  BY <1>2 DEF MetadataMain
<1>3. CASE service = "rating"
  BY <1>3 DEF RatingMain
<1>4. CASE service = "movie"
  BY <1>4 DEF MovieMain
<1> QED
  BY <1>1, <1>2, <1>3, <1>4 DEF Services

\* A step of main that does not end the process.
Sets == SetUp \/ StartTracer \/ Register \/ OpenLock \/ StartListener \/ StartIngestion
Panics == SetUpPanics \/ RegisterFails \/ ServeFails
Serves == Notify \/ Serve \/ ServeReturns \/ Wait
Undoes == CloseLock \/ CloseLockFails \/ Deregister \/ DeregisterFails \/ ShutdownTracer

\* A step of another goroutine, a client or a signal that does not end it.
OthersMove ==
  \/ Signal \/ Cancel \/ BeginStop \/ EndStop
  \/ \E c \in Calls : BeginCall(c) \/ EndCall(c)
  \/ Subscribe \/ Select \/ CloseChannel \/ CloseConsumer \/ ReadMessage \/ Send
  \/ RangeEnds

\* Every way for the process to end is an End.
Ends ==
  /\ Running
  /\ \/ \E how \in {"setup", "metrics", "profiler", "ingestion", "ingester", "killed"} : End(how)
     \/ main = "unwind" /\ deferred = {} /\ End(IF panicking THEN "panic" ELSE "ok")
     \/ main = "unwind" /\ deferred = {"shutdown"} /\ End("tracer")

\* Setting up: whatever is added to Consul has its removal deferred at once.
LEMMA SetsInv ==
  ASSUME IInv, Sets
  PROVE  IInv'
<1> USE DEF MainAt, Running, Cancelled, serverVars, ingestVars, worldVars
<1>1. Running /\ Continue /\ main \in BeforeNotify \ {"notify"}
  BY DEF Sets, SetUp, StartTracer, Register, OpenLock, StartListener, StartIngestion, BeforeNotify, Plain
<1>2. main' \in Statements /\ main' \in BeforeNotify
  BY <1>1, ProgramOrder DEF IInv, TypeOK
<1>3. UNCHANGED <<service, panicking, stopper, pending, server, calls, ing, buffered, closed, exit,
                  consulFailed, cut>>
  BY DEF Continue, Sets, SetUp, StartTracer, Register, OpenLock, StartListener, StartIngestion
<1>4. TypeOK'
  <2>1. deferred' \subseteq {"shutdown", "deregister", "close"} /\ listeners' \subseteq {"metrics", "profiler"}
    BY DEF IInv, TypeOK, Sets, SetUp, StartTracer, Register, OpenLock, StartListener, StartIngestion
  <2>2. con' \in ConPoints /\ registered' \in BOOLEAN /\ session' \in BOOLEAN
    BY DEF IInv, TypeOK, ConPoints, Sets, SetUp, StartTracer, Register, OpenLock, StartListener, StartIngestion
  <2> QED
    BY <1>2, <1>3, <2>1, <2>2 DEF IInv, TypeOK
<1>5. Owned'
  BY DEF IInv, Owned, Sets, SetUp, StartTracer, Register, OpenLock, StartListener, StartIngestion
<1>6. ServerEmpty'
  BY <1>1, <1>2, <1>3 DEF IInv, ServerEmpty, BeforeNotify, BeforePanic, Plain
<1>7. EndsAtTheEnd' /\ CutAtEnd'
  BY <1>1, <1>3 DEF IInv, EndsAtTheEnd, CutAtEnd
<1> QED
  BY <1>4, <1>5, <1>6, <1>7 DEF IInv

LEMMA PanicsInv ==
  ASSUME IInv, Panics
  PROVE  IInv'
<1> USE DEF MainAt, Running, Cancelled, serverVars, ingestVars, worldVars
<1>1. Running /\ Panic /\ UNCHANGED <<session, exit, cut, serverVars, ingestVars>>
  BY DEF Panics, SetUpPanics, RegisterFails, ServeFails
<1>2. /\ registered' \in BOOLEAN /\ consulFailed' \in BOOLEAN
      /\ ~ consulFailed' => registered' = registered /\ ~ consulFailed
  BY DEF IInv, TypeOK, Panics, SetUpPanics, RegisterFails, ServeFails
<1>3. TypeOK'
  BY <1>1, <1>2 DEF Panic, IInv, TypeOK, Statements
<1>4. Owned' /\ EndsAtTheEnd' /\ CutAtEnd'
  BY <1>1, <1>2 DEF Panic, IInv, Owned, EndsAtTheEnd, CutAtEnd
<1>5. ServerEmpty'
  BY <1>1 DEF Panic, IInv, ServerEmpty, BeforeNotify, BeforePanic, Plain
<1> QED
  BY <1>3, <1>4, <1>5 DEF IInv

LEMMA ServesInv ==
  ASSUME IInv, Serves
  PROVE  IInv'
<1> USE DEF MainAt, Running, Cancelled, serverVars, ingestVars, worldVars, mainVars
<1>1. Running /\ UNCHANGED <<service, deferred, listeners, pending, calls, ingestVars, worldVars>>
  BY DEF Serves, Notify, Serve, ServeReturns, Wait, Continue, Panic, Unwind
<1>2. main' \in Statements /\ panicking' \in BOOLEAN
  BY ProgramOrder DEF IInv, TypeOK, Statements, Serves, Notify, Serve, ServeReturns, Wait, Continue, Panic,
                      Unwind
<1>3. stopper' \in StopperPoints /\ server' \in ServerStates /\ (Cancelled => Cancelled')
  BY DEF IInv, TypeOK, StopperPoints, ServerStates, ServerEmpty, BeforeNotify, Serves, Notify, Serve,
         ServeReturns, Wait, Unwind
<1>4. TypeOK'
  BY <1>1, <1>2, <1>3 DEF IInv, TypeOK
<1>5. Owned' /\ EndsAtTheEnd' /\ CutAtEnd'
  BY <1>1 DEF IInv, Owned, EndsAtTheEnd, CutAtEnd
<1>6. ServerEmpty'
  <2>1. CASE Notify
    <3>1. main' = "serve" /\ ~ panicking' /\ stopper = "off" /\ UNCHANGED <<server, calls>>
      BY <2>1, ProgramOrder DEF Notify, Continue, IInv, TypeOK, ServerEmpty, BeforePanic, BeforeNotify
    <3> QED
      BY <2>1, <3>1 DEF Notify, IInv, ServerEmpty, BeforePanic, BeforeNotify, Plain
  <2>2. CASE Serve
    <3>1. CASE server = "new"
      <4>1. main' = "serving" /\ ~ panicking' /\ server' = "serving" /\ UNCHANGED stopper
        BY <2>2, <3>1, ProgramOrder DEF Serve, Continue, IInv, TypeOK, ServerEmpty, BeforePanic
      <4> QED
        BY <4>1 DEF ServerEmpty, BeforePanic, BeforeNotify, Plain
    <3>2. CASE server # "new"
      BY <2>2, <3>2 DEF Serve, Panic, IInv, ServerEmpty, BeforePanic, BeforeNotify, Plain
    <3> QED
      BY <3>1, <3>2
  <2>3. CASE ServeReturns
    <3>1. main' = "wait" /\ server = "stopped" /\ UNCHANGED <<panicking, serverVars>>
      BY <2>3, ProgramOrder DEF ServeReturns, Continue, IInv, TypeOK
    <3> QED
      BY <2>3, <3>1 DEF ServeReturns, IInv, ServerEmpty, BeforePanic, BeforeNotify, Plain
  <2>4. CASE Wait
    BY <2>4 DEF Wait, Unwind, IInv, ServerEmpty, BeforePanic, BeforeNotify, Plain
  <2> QED
    BY <2>1, <2>2, <2>3, <2>4 DEF Serves
<1> QED
  BY <1>4, <1>5, <1>6 DEF IInv

\* A deferred function that has run has removed what it is there for, or
\* Consul has failed.
LEMMA UndoesInv ==
  ASSUME IInv, Undoes
  PROVE  IInv'
<1> USE DEF Runs, MainAt, Running, Cancelled, serverVars, ingestVars, worldVars
<1>1. /\ Running /\ main = "unwind" /\ deferred' \subseteq deferred
      /\ UNCHANGED <<service, main, panicking, listeners, serverVars, ingestVars, exit, cut>>
  BY DEF Undoes, CloseLock, CloseLockFails, Deregister, DeregisterFails, ShutdownTracer
<1>2. registered' \in BOOLEAN /\ session' \in BOOLEAN /\ consulFailed' \in BOOLEAN
  BY DEF IInv, TypeOK, Undoes, CloseLock, CloseLockFails, Deregister, DeregisterFails, ShutdownTracer
<1>3. TypeOK'
  BY <1>1, <1>2 DEF IInv, TypeOK
<1>4. Owned'
  BY DEF IInv, Owned, Undoes, CloseLock, CloseLockFails, Deregister, DeregisterFails, ShutdownTracer
<1>5. EndsAtTheEnd' /\ CutAtEnd' /\ ServerEmpty'
  BY <1>1 DEF IInv, EndsAtTheEnd, CutAtEnd, ServerEmpty
<1> QED
  BY <1>3, <1>4, <1>5 DEF IInv

LEMMA OthersMoveInv == IInv /\ OthersMove => IInv'
<1> SUFFICES ASSUME IInv, OthersMove
             PROVE  IInv'
  OBVIOUS
<1> USE DEF MainAt, Running, Cancelled, mainVars, serverVars, ingestVars, worldVars
<1>1. TypeOK'
  <2>1. CASE Signal
    BY <2>1 DEF Signal, IInv, TypeOK
  <2>2. CASE Cancel
    BY <2>2 DEF Cancel, IInv, TypeOK, StopperPoints
  <2>3. CASE BeginStop
    BY <2>3 DEF BeginStop, IInv, TypeOK, StopperPoints, ServerStates
  <2>4. CASE EndStop
    BY <2>4 DEF EndStop, IInv, TypeOK, StopperPoints, ServerStates
  <2>5. CASE \E c \in Calls : BeginCall(c) \/ EndCall(c)
    <3>1. UNCHANGED <<mainVars, stopper, pending, server, ingestVars, worldVars>>
      BY <2>5 DEF BeginCall, EndCall
    <3>2. calls' \subseteq Calls
      BY <2>5 DEF BeginCall, EndCall, IInv, TypeOK
    <3> QED
      BY <3>1, <3>2 DEF IInv, TypeOK
  <2>6. CASE Subscribe
    BY <2>6 DEF Subscribe, IInv, TypeOK, ConPoints, IngPoints
  <2>7. CASE Select
    BY <2>7 DEF Select, IInv, TypeOK, IngPoints
  <2>8. CASE CloseChannel
    BY <2>8 DEF CloseChannel, IInv, TypeOK, IngPoints
  <2>9. CASE CloseConsumer
    BY <2>9 DEF CloseConsumer, IInv, TypeOK, IngPoints
  <2>10. CASE ReadMessage
    BY <2>10 DEF ReadMessage, IInv, TypeOK, IngPoints
  <2>11. CASE Send
    BY <2>11 DEF Send, IInv, TypeOK, IngPoints
  <2>12. CASE RangeEnds
    BY <2>12 DEF RangeEnds, IInv, TypeOK, ConPoints
  <2> QED  BY <2>1, <2>2, <2>3, <2>4, <2>5, <2>6, <2>7, <2>8, <2>9, <2>10, <2>11,
              <2>12 DEF OthersMove
<1>2. Owned' /\ EndsAtTheEnd' /\ CutAtEnd'
  BY DEF IInv, Owned, EndsAtTheEnd, CutAtEnd, OthersMove, Signal, Cancel,
         BeginStop, EndStop, BeginCall, EndCall, Subscribe, Select, CloseChannel,
         CloseConsumer, ReadMessage, Send, RangeEnds
<1>3. ServerEmpty'
  BY DEF IInv, TypeOK, ServerEmpty, BeforeNotify, BeforePanic, OthersMove, Signal,
         Cancel, BeginStop, EndStop, BeginCall, EndCall, Subscribe, Select,
         CloseChannel, CloseConsumer, ReadMessage, Send, RangeEnds
<1> QED  BY <1>1, <1>2, <1>3 DEF IInv

LEMMA EndsInv == IInv /\ Ends => IInv'
<1> SUFFICES ASSUME IInv, Ends
             PROVE  IInv'
  OBVIOUS
<1> USE DEF IInv, Ends, End, mainVars, ingestVars
<1>1. TypeOK'
  <2>1. /\ exit' \in Exits /\ calls' = {} /\ cut' = cut \cup calls
        /\ UNCHANGED <<mainVars, stopper, pending, server, ingestVars, registered, session, consulFailed>>
    BY DEF Exits
  <2> QED
    BY <2>1 DEF TypeOK, Cancelled
<1>2. Owned' /\ EndsAtTheEnd'
  BY DEF Owned, EndsAtTheEnd
<1>3. ServerEmpty'
  BY DEF ServerEmpty, Cancelled
<1>4. CutAtEnd'
  <2>1. CASE main = "unwind" /\ ~ panicking
    \* The server is stopped: there are no calls to cut.
    <3>1. calls = {} /\ cut = {}
      BY <2>1 DEF ServerEmpty, CutAtEnd
    <3> QED  BY <3>1 DEF CutAtEnd, Running
  <2>2. CASE ~ (main = "unwind" /\ ~ panicking)
    BY <2>2 DEF CutAtEnd, Running
  <2> QED  BY <2>1, <2>2
<1> QED  BY <1>1, <1>2, <1>3, <1>4

LEMMA NextCases ==
  ASSUME IInv, Next
  PROVE  Sets \/ Panics \/ Serves \/ Undoes \/ OthersMove \/ Ends
<1>1. CASE ListenerFails
  BY <1>1 DEF ListenerFails, Ends, IInv, TypeOK
<1>2. CASE SetUpFails \/ CredentialsFail \/ Kill \/ SubscribeFails \/ CloseAgain \/ Consume
  BY <1>2 DEF SetUpFails, CredentialsFail, Kill, SubscribeFails, CloseAgain, Consume, Ends, MainAt
<1>3. CASE Exit \/ ShutdownFails
  BY <1>3 DEF Exit, ShutdownFails, Ends, MainAt
<1> QED
  BY <1>1, <1>2, <1>3 DEF Next, Main, Stopper, Ingestion, Sets, Panics, Serves, Undoes, OthersMove

LEMMA StutterInv == IInv /\ UNCHANGED vars => IInv'
BY DEF IInv, TypeOK, Owned, ServerEmpty, EndsAtTheEnd, CutAtEnd, Running,
       Cancelled,
       vars, mainVars, serverVars, ingestVars, worldVars

LEMMA NextInv == IInv /\ [Next]_vars => IInv'
BY SetsInv, PanicsInv, ServesInv, UndoesInv, OthersMoveInv, EndsInv, NextCases, StutterInv

LEMMA Invariant == Spec => []IInv
BY InitInv, NextInv, PTL DEF Spec

-----------------------------------------------------------------------------
\* Type correctness.
THEOREM TypeCorrect == Spec => []TypeOK
<1>1. IInv => TypeOK
  BY DEF IInv
<1> QED  BY <1>1, Invariant, PTL

\* A process whose main ran to its end, by whatever way, has left neither a
\* record nor a session in Consul, unless Consul failed it.
THEOREM EndsWithoutRecord == Spec => []EndsDeregistered
<1>1. IInv => EndsDeregistered
  BY DEF IInv, Owned, EndsAtTheEnd, EndsDeregistered
<1> QED  BY <1>1, Invariant, PTL

\* A process that a signal has brought to its end in main has answered every
\* call it had begun (GracefulStop, rating/cmd/main.go:152).
THEOREM CallsAreAnswered == Spec => []StopCutsNoCall
<1>1. IInv => StopCutsNoCall
  BY DEF IInv, CutAtEnd, StopCutsNoCall
<1> QED  BY <1>1, Invariant, PTL

-----------------------------------------------------------------------------
(* Why a signal ends the process *)

\* How far GracefulStop has come.
StopReached ==
  /\ stopper = "stopping" => server = "quit"
  /\ stopper = "done" => server = "stopped"

LEMMA StopReachedStep ==
  ASSUME IInv, StopReached, [Next]_vars
  PROVE  StopReached'
<1> USE DEF StopReached, mainVars, serverVars, ingestVars, worldVars
<1>1. CASE Sets
  BY <1>1 DEF Sets, SetUp, StartTracer, Register, OpenLock, StartListener, StartIngestion
<1>2. CASE Panics
  BY <1>2 DEF Panics, SetUpPanics, RegisterFails, ServeFails
<1>3. CASE Serves
  BY <1>3 DEF Serves, Notify, Serve, ServeReturns, Wait, Unwind
<1>4. CASE Undoes
  BY <1>4 DEF Undoes, CloseLock, CloseLockFails, Deregister, DeregisterFails, ShutdownTracer, Runs
<1>5. CASE OthersMove
  BY <1>5 DEF OthersMove, Signal, Cancel, BeginStop, EndStop, BeginCall, EndCall, Subscribe, Select,
              CloseChannel, CloseConsumer, ReadMessage, Send, RangeEnds
<1>6. CASE Ends
  BY <1>6 DEF Ends, End
<1>7. CASE UNCHANGED vars
  BY <1>7 DEF vars
<1> QED
  BY <1>1, <1>2, <1>3, <1>4, <1>5, <1>6, <1>7, NextCases

LEMMA StopReachedAlways == Spec => [](IInv /\ StopReached)
<1>1. Init => StopReached
  BY DEF Init, StopReached
<1>2. IInv /\ StopReached /\ [Next]_vars => StopReached'
  BY StopReachedStep
<1> QED
  BY <1>1, <1>2, Invariant, PTL DEF Spec

\* The guards of Stopper and Main in a process that has been told to stop.
StopperCanMove == stopper = "cancelled" \/ (stopper = "stopping" /\ calls = {})
MainCanMove ==
  \/ main \in {"serve", "unwind"}
  \/ main = "serving" /\ server = "stopped"
  \/ main = "wait" /\ stopper = "done"

\* Nothing but calls in progress holds up a process that has been told to
\* stop: neither Serve nor wg.Wait waits for what will not come.
OnlyCallsHoldItUp ==
  Running /\ Cancelled => calls # {} \/ StopperCanMove \/ MainCanMove

\* From signal.Notify on, main is at Serve or after it.
LEMMA MainAfterNotify ==
  ASSUME IInv, Cancelled
  PROVE  main \in {"serve", "serving", "wait", "unwind"}
BY DEF IInv, TypeOK, ServerEmpty, Cancelled, Statements, BeforeNotify

\* main, Serve, GracefulStop and wg.Wait never wait for each other
\* (rating/cmd/main.go:141-161).
THEOREM ShutdownIsNeverStuck == Spec => []OnlyCallsHoldItUp
<1>1. ASSUME IInv, StopReached, Cancelled, calls = {}
      PROVE  StopperCanMove \/ MainCanMove
  <2>1. CASE stopper \in {"cancelled", "stopping"}
    BY <1>1, <2>1 DEF StopperCanMove
  <2>2. CASE stopper = "done"
    BY <1>1, <2>2, MainAfterNotify DEF StopReached, MainCanMove
  <2> QED
    BY <1>1, <2>1, <2>2 DEF Cancelled
<1>2. IInv /\ StopReached => OnlyCallsHoldItUp
  BY <1>1 DEF OnlyCallsHoldItUp
<1> QED
  BY <1>2, StopReachedAlways, PTL

\* How many steps main and the signal goroutine may still take.
Count(f) == IF f \in deferred THEN 1 ELSE 0
MainWork ==
  CASE main = "serve"   -> 7
    [] main = "serving" -> 6
    [] main = "wait"    -> 5
    [] main = "unwind"  -> 1 + Count("close") + Count("deregister") + Count("shutdown")
    [] OTHER -> 8
StopperWork ==
  CASE stopper = "cancelled" -> 2
    [] stopper = "stopping"  -> 1
    [] stopper = "done"      -> 0
    [] OTHER -> 3

\* After the signal no step starts anything anew: main and its goroutine come
\* nearer to their ends, and GracefulStop, once begun, lets no call in.
ShutdownShrinks ==
  Running /\ Cancelled =>
    /\ MainWork' <= MainWork /\ StopperWork' <= StopperWork
    /\ Main => MainWork' < MainWork \/ ~ Running'
    /\ Stopper => StopperWork' < StopperWork
    /\ stopper \in {"stopping", "done"} => calls' \subseteq calls
ShutdownIsBounded == [][ShutdownShrinks]_vars

LEMMA ServesShrinks ==
  ASSUME IInv, Cancelled, Serves \/ ServeFails
  PROVE  MainWork' < MainWork /\ UNCHANGED <<stopper, calls>>
<1> USE DEF MainAt, serverVars, mainVars
<1>1. CASE ServeFails
  BY <1>1 DEF ServeFails, Panic, MainWork, Count
<1>2. CASE Notify
  BY <1>2, MainAfterNotify DEF Notify
<1>3. CASE Serve
  BY <1>3, ProgramOrder DEF IInv, TypeOK, Serve, Panic, MainWork, Count
<1>4. CASE ServeReturns
  BY <1>4, ProgramOrder DEF IInv, TypeOK, ServeReturns, MainWork
<1>5. CASE Wait
  BY <1>5 DEF Wait, Unwind, MainWork, Count
<1> QED
  BY <1>1, <1>2, <1>3, <1>4, <1>5 DEF Serves

LEMMA UndoesShrinks ==
  ASSUME IInv, Undoes
  PROVE  MainWork' < MainWork /\ UNCHANGED <<stopper, calls>>
<1>1. PICK f \in {"close", "deregister", "shutdown"} : Runs(f)
  BY DEF Undoes, CloseLock, CloseLockFails, Deregister, DeregisterFails, ShutdownTracer
<1>2. /\ main = "unwind" /\ main' = "unwind" /\ f \in deferred /\ deferred' = deferred \ {f}
      /\ UNCHANGED <<stopper, calls>>
  BY <1>1 DEF Runs, MainAt, serverVars
<1> QED
  BY <1>2 DEF MainWork, Count

LEMMA OthersShrink ==
  ASSUME IInv, StopReached, Cancelled, OthersMove
  PROVE  /\ UNCHANGED <<main, deferred>> /\ StopperWork' <= StopperWork
         /\ stopper \in {"stopping", "done"} => calls' \subseteq calls
<1>1. UNCHANGED <<main, deferred>>
  BY DEF OthersMove, Signal, Cancel, BeginStop, EndStop, BeginCall, EndCall, Subscribe, Select,
         CloseChannel, CloseConsumer, ReadMessage, Send, RangeEnds, mainVars
<1>2. StopperWork' <= StopperWork
  BY DEF OthersMove, Signal, Cancel, BeginStop, EndStop, BeginCall, EndCall, Subscribe, Select,
         CloseChannel, CloseConsumer, ReadMessage, Send, RangeEnds, serverVars, StopperWork
<1>3. stopper \in {"stopping", "done"} => calls' \subseteq calls
  BY DEF StopReached, OthersMove, Signal, Cancel, BeginStop, EndStop, BeginCall, EndCall, Subscribe,
         Select, CloseChannel, CloseConsumer, ReadMessage, Send, RangeEnds, serverVars
<1> QED
  BY <1>1, <1>2, <1>3

LEMMA EndsShrink ==
  ASSUME Ends
  PROVE  /\ ~ Running' /\ calls' = {} /\ UNCHANGED <<main, deferred, stopper>>
BY DEF Ends, End, Running, mainVars

\* Main and Stopper, sorted as the other proofs sort them.
LEMMA SetsAreBefore ==
  ASSUME IInv, Cancelled
  PROVE  ~ Sets /\ (Panics => ServeFails)
BY MainAfterNotify DEF Sets, SetUp, StartTracer, Register, OpenLock, StartListener, StartIngestion,
   Panics, SetUpPanics, RegisterFails, MainAt, Plain, Panicky

LEMMA MainCases ==
  ASSUME IInv, Cancelled, Main
  PROVE  Serves \/ Undoes \/ Ends
<1>1. CASE SetUpPanics \/ RegisterFails
  BY <1>1, MainAfterNotify DEF SetUpPanics, RegisterFails, MainAt, Panicky
<1>2. CASE SetUpFails \/ CredentialsFail
  BY <1>2 DEF SetUpFails, CredentialsFail, MainAt, Ends
<1>3. CASE Exit \/ ShutdownFails
  BY <1>3 DEF Exit, ShutdownFails, Ends, MainAt
<1> QED
  BY <1>1, <1>2, <1>3, SetsAreBefore DEF Main, Sets, Serves, Undoes

\* A process that has been told to stop ends after a bounded number of steps
\* of main and of the signal goroutine, and takes no new call once
\* GracefulStop has begun: with ShutdownIsNeverStuck, that is why a signal
\* ends it as soon as its calls do.
THEOREM ShutdownTakesBoundedWork == Spec => ShutdownIsBounded
<1>1. ASSUME IInv, StopReached, Next, Running, Cancelled
      PROVE  ShutdownShrinks
  <2>1. MainWork \in Nat /\ StopperWork \in Nat
    BY DEF MainWork, Count, StopperWork
  <2>2. UNCHANGED <<main, deferred>> => MainWork' = MainWork
    BY DEF MainWork, Count
  <2>3. stopper' = stopper => StopperWork' = StopperWork
    BY DEF StopperWork
  <2>4. /\ MainWork' <= MainWork /\ StopperWork' <= StopperWork
        /\ stopper \in {"stopping", "done"} => calls' \subseteq calls
    <3>1. CASE Serves \/ ServeFails \/ Undoes
      <4>1. MainWork' < MainWork /\ UNCHANGED <<stopper, calls>>
        BY <1>1, <3>1, ServesShrinks, UndoesShrinks
      <4>2. MainWork' \in Nat
        BY DEF MainWork, Count
      <4> QED
        BY <2>1, <2>3, <4>1, <4>2
    <3>2. CASE OthersMove
      BY <1>1, <2>1, <2>2, <3>2, OthersShrink
    <3>3. CASE Ends
      BY <2>1, <2>2, <2>3, <3>3, EndsShrink
    <3> QED
      BY <1>1, <3>1, <3>2, <3>3, NextCases, SetsAreBefore
  <2>5. Main => MainWork' < MainWork \/ ~ Running'
    BY <1>1, MainCases, ServesShrinks, UndoesShrinks, EndsShrink
  <2>6. Stopper => StopperWork' < StopperWork
    BY DEF Stopper, Cancel, BeginStop, EndStop, StopperWork
  <2> QED
    BY <2>4, <2>5, <2>6 DEF ShutdownShrinks
<1>2. IInv /\ StopReached /\ [Next]_vars => [ShutdownShrinks]_vars
  BY <1>1 DEF ShutdownShrinks
<1> QED
  BY <1>2, StopReachedAlways, PTL DEF Spec, ShutdownIsBounded
=============================================================================
