------------------------------ MODULE Discovery ------------------------------
(***************************************************************************)
(* Service discovery: the registry, the heartbeats of the instances of one *)
(* service, and the gateways that look an instance up, from                *)
(*   pkg/discovery/memory/memory.go, pkg/discovery/consul/consul.go        *)
(*   internal/grpcutil/grpcutil.go                                         *)
(*   auth/, metadata/, movie/, rating/cmd/main.go (register, heartbeat,    *)
(*   deregister; the four mains are the same in this), which use Consul    *)
(*   test/integration/main.go (the start functions), which uses the        *)
(*   registry in memory                                                    *)
(*                                                                         *)
(* Instance ids are random, so a restarted service is another instance.    *)
(* One unit of time is a second.                                           *)
(***************************************************************************)
EXTENDS Integers

CONSTANTS
  Instances,
  Clients,     \* goroutines that call ServiceConnection
  Window,      \* memory.go:83 and consul.go:66
  Period,      \* the heartbeat period of the mains
  MaxLatency,  \* how long a report may be on its way, or wait to be scheduled
  MaxMissed    \* how many reports of an instance fail in a row

ASSUME DiscoveryAssumption ==
  /\ Window \in Nat /\ Period \in Nat \ {0} /\ MaxLatency \in Nat /\ MaxMissed \in Nat
  /\ "panic" \notin Instances

VARIABLES
  kind,        \* the registry of the program: "consul", or "memory" in the test
  life,        \* the main goroutine of an instance
  beat,        \* its heartbeat goroutine
  timer,       \* what is left of the heartbeat's wait, or of a report's way
  missed,      \* reports of the instance that failed in a row
  registered,  \* instances that have a record in the registry
  passing,     \* those that count as healthy until their record is too old
  age,         \* time since lastActive, or since the check last passed
  deadFor,     \* history: time since an instance crashed
  conn         \* what each client has got from ServiceConnection

instanceVars == <<life, beat, timer, missed, deadFor>>
registryVars == <<kind, registered, passing, age>>
vars == <<kind, life, beat, timer, missed, registered, passing, age, deadFor, conn>>

MaxAge == Window + 1                    \* a record older than Window is stale
MaxDead == Window + MaxLatency + 1

TypeOK ==
  /\ kind \in {"memory", "consul"}
  /\ life \in [Instances -> {"off", "up", "leaving", "left", "crashed"}]
  /\ beat \in [Instances -> {"off", "waiting", "sending"}]
  /\ timer \in [Instances -> Nat]
  /\ missed \in [Instances -> 0..MaxMissed]
  /\ registered \subseteq Instances
  /\ passing \subseteq registered
  /\ age \in [Instances -> 0..MaxAge]
  /\ deadFor \in [Instances -> 0..MaxDead]
  /\ conn \in [Clients -> Instances \cup {"idle", "notfound", "error", "panic"}]

Init ==
  /\ kind \in {"memory", "consul"}
  /\ life = [i \in Instances |-> "off"]
  /\ beat = [i \in Instances |-> "off"]
  /\ timer = [i \in Instances |-> 0]
  /\ missed = [i \in Instances |-> 0]
  /\ registered = {} /\ passing = {}
  /\ age = [i \in Instances |-> 0]
  /\ deadFor = [i \in Instances |-> 0]
  /\ conn = [c \in Clients |-> "idle"]

-----------------------------------------------------------------------------
(* The registry *)

\* Faulty variant of Listed: Health().Service without passingOnly.
ListedWithCritical == registered

\* What ServiceAddresses takes for active.
Listed == {i \in registered \cap passing : age[i] <= Window}

\* Faulty variant of NothingFound: only an empty catalog is not found.
NothingRegistered == registered = {}

\* memory.go answers ErrNotFound when it has no record at all, consul.go
\* when it has no passing instance.
NothingFound == IF kind = "memory" THEN registered = {} ELSE Listed = {}

\* Faulty variants of ReportHealthyState: a report of an unknown instance
\* passes, or registers it.
ReportUnchecked(i) ==
  /\ age' = [age EXCEPT ![i] = 0]
  /\ passing' = passing \cup {i}
  /\ UNCHANGED <<kind, registered>>
ReportRegisters(i) ==
  /\ age' = [age EXCEPT ![i] = 0]
  /\ passing' = passing \cup {i}
  /\ registered' = registered \cup {i}
  /\ UNCHANGED kind

\* A report counts for an instance that has a record; otherwise an error.
ReportHealthyState(i) ==
  /\ age' = IF i \in registered THEN [age EXCEPT ![i] = 0] ELSE age
  /\ passing' = IF i \in registered THEN passing \cup {i} ELSE passing
  /\ UNCHANGED <<kind, registered>>

\* The TTL of a Consul check runs out.
ExpireCheck(i) ==
  /\ kind = "consul"
  /\ i \in registered \cap passing /\ age[i] >= Window
  /\ passing' = passing \ {i}
  /\ UNCHANGED <<kind, instanceVars, registered, age, conn>>

-----------------------------------------------------------------------------
(* An instance *)

\* Register, then start the heartbeat.  A record of memory.go is active from
\* the start, a check of Consul is critical until the first report.  The
\* heartbeat of the integration test reports first and waits afterwards.
Register(i) ==
  /\ life[i] = "off"
  /\ life' = [life EXCEPT ![i] = "up"]
  /\ beat' = [beat EXCEPT ![i] = "waiting"]
  /\ timer' = [timer EXCEPT ![i] = IF kind = "memory" THEN 0 ELSE Period]
  /\ registered' = registered \cup {i}
  /\ passing' = IF kind = "memory" THEN passing \cup {i} ELSE passing
  /\ age' = [age EXCEPT ![i] = 0]
  /\ UNCHANGED <<kind, missed, deadFor, conn>>

\* time.After fires; the report is now on its way, for MaxLatency at most.
BeatDue(i) ==
  /\ beat[i] = "waiting" /\ timer[i] = 0
  /\ beat' = [beat EXCEPT ![i] = "sending"]
  /\ timer' = [timer EXCEPT ![i] = MaxLatency]
  /\ UNCHANGED <<life, missed, registryVars, deadFor, conn>>

\* The process of a service ends after its Deregister; the one process of the
\* integration test, whose heartbeats never stop, goes on.
Ended(i) == kind = "consul" /\ life[i] \in {"left", "crashed"}

\* The goroutine waits again, unless its process has ended meanwhile.
NextBeat(i) ==
  /\ beat' = [beat EXCEPT ![i] = IF Ended(i) THEN "off" ELSE "waiting"]
  /\ timer' = [timer EXCEPT ![i] = IF Ended(i) THEN 0 ELSE Period]

ReportLands(i) ==
  /\ beat[i] = "sending"
  /\ ReportHealthyState(i)
  /\ NextBeat(i)
  /\ missed' = [missed EXCEPT ![i] = 0]
  /\ UNCHANGED <<life, deadFor, conn>>

\* Faulty variant of ReportFails: the goroutine ends at the first error.
ReportFailsAndEnds(i) ==
  /\ kind = "consul"
  /\ beat[i] = "sending"
  /\ beat' = [beat EXCEPT ![i] = "off"]
  /\ timer' = [timer EXCEPT ![i] = 0]
  /\ UNCHANGED <<life, missed, registryVars, deadFor, conn>>

\* An error is logged and the goroutine goes on.
ReportFails(i) ==
  /\ kind = "consul"
  /\ beat[i] = "sending" /\ missed[i] < MaxMissed
  /\ NextBeat(i)
  /\ missed' = [missed EXCEPT ![i] = @ + 1]
  /\ UNCHANGED <<life, registryVars, deadFor, conn>>

\* Faulty variant of BeatStops: the heartbeat of the test, too, stops with the
\* signal, while the record stays until the graceful stop has ended.
BeatStopsAnywhere(i) ==
  /\ beat[i] = "waiting" /\ life[i] = "leaving"
  /\ beat' = [beat EXCEPT ![i] = "off"]
  /\ timer' = [timer EXCEPT ![i] = 0]
  /\ UNCHANGED <<life, missed, registryVars, deadFor, conn>>

\* select takes ctx.Done, though a report may be due as well.
BeatStops(i) ==
  /\ kind = "consul"
  /\ beat[i] = "waiting" /\ life[i] = "leaving"
  /\ beat' = [beat EXCEPT ![i] = "off"]
  /\ timer' = [timer EXCEPT ![i] = 0]
  /\ UNCHANGED <<life, missed, registryVars, deadFor, conn>>

\* A signal cancels the context (the test calls GracefulStop); the graceful
\* stop may take any time.
Cancel(i) ==
  /\ life[i] = "up"
  /\ life' = [life EXCEPT ![i] = "leaving"]
  /\ UNCHANGED <<beat, timer, missed, registryVars, deadFor, conn>>

\* The heartbeat goroutine goes with a process that ends (Consul), but a
\* report may be on its way.
GoesOn(i) == kind = "memory" \/ beat[i] = "sending"
StopBeat(i) ==
  /\ beat' = [beat EXCEPT ![i] = IF GoesOn(i) THEN @ ELSE "off"]
  /\ timer' = [timer EXCEPT ![i] = IF GoesOn(i) THEN @ ELSE 0]

\* The deferred Deregister does not wait for the heartbeat goroutine.
Deregister(i) ==
  /\ life[i] = "leaving"
  /\ life' = [life EXCEPT ![i] = "left"]
  /\ StopBeat(i)
  /\ registered' = registered \ {i}
  /\ passing' = passing \ {i}
  /\ age' = [age EXCEPT ![i] = 0]
  /\ UNCHANGED <<kind, missed, deadFor, conn>>

\* A crash, or a Deregister that fails: the record stays.  The memory
\* registry lives in the same process and dies with it.
Crash(i) ==
  /\ kind = "consul"
  /\ life[i] \in {"up", "leaving"}
  /\ life' = [life EXCEPT ![i] = "crashed"]
  /\ StopBeat(i)
  /\ UNCHANGED <<missed, registryVars, deadFor, conn>>

-----------------------------------------------------------------------------
(* A client *)

\* What ServiceConnection may do: an error is returned, an empty list makes
\* rand.Intn panic, otherwise some address is picked.
Outcomes ==
  (IF NothingFound THEN {"notfound"} ELSE IF Listed = {} THEN {"panic"} ELSE Listed)
    \cup (IF kind = "consul" THEN {"error"} ELSE {})

Lookup(c) ==
  /\ conn[c] = "idle"
  /\ \E r \in Outcomes : conn' = [conn EXCEPT ![c] = r]
  /\ UNCHANGED <<instanceVars, registryVars>>

\* The gateway closes the connection, or passes the error on.
Close(c) ==
  /\ conn[c] \notin {"idle", "panic"}
  /\ conn' = [conn EXCEPT ![c] = "idle"]
  /\ UNCHANGED <<instanceVars, registryVars>>

-----------------------------------------------------------------------------
Down(n) == IF n > 0 THEN n - 1 ELSE 0
Up(n, max) == IF n < max THEN n + 1 ELSE max

\* Time passes unless a heartbeat is due, a report has been on its way for
\* MaxLatency, or a Consul check must expire.
Tick ==
  /\ \A i \in Instances :
       /\ beat[i] # "off" => timer[i] > 0
       /\ kind = "consul" /\ i \in registered \cap passing => age[i] < MaxAge - 1
  /\ timer' = [i \in Instances |-> Down(timer[i])]
  /\ age' = [i \in Instances |->
       IF i \in registered THEN Up(age[i], MaxAge) ELSE age[i]]
  /\ deadFor' = [i \in Instances |->
       IF life[i] = "crashed" THEN Up(deadFor[i], MaxDead) ELSE deadFor[i]]
  /\ UNCHANGED <<kind, life, beat, missed, registered, passing, conn>>

Heartbeat(i) == BeatDue(i) \/ ReportLands(i) \/ ReportFails(i) \/ BeatStops(i)

Next ==
  \/ \E i \in Instances :
       \/ Register(i) \/ Cancel(i) \/ Deregister(i) \/ Crash(i)
       \/ Heartbeat(i) \/ ExpireCheck(i)
  \/ \E c \in Clients : Lookup(c) \/ Close(c)
  \/ Tick

Spec == Init /\ [][Next]_vars

\* Heartbeat goroutines run, Consul expires its checks, time passes.  No
\* fairness for signals, crashes, graceful stops or clients.
FairSpec ==
  /\ Spec
  /\ \A i \in Instances : WF_vars(Heartbeat(i)) /\ WF_vars(ExpireCheck(i))
  /\ WF_vars(Tick)

-----------------------------------------------------------------------------
(* Properties *)

\* A report that is overtaken by Deregister does not bring the record back,
\* nor does a heartbeat that goes on after it: an instance that has
\* deregistered is never listed again.
NoResurrection == \A i \in Instances : life[i] = "left" => i \notin registered

\* An instance that crashed without deregistering is out of every answer
\* once its last record is stale and its last report can no longer land.
DeadIsForgotten ==
  \A i \in Instances : deadFor[i] > Window + MaxLatency => i \notin Listed

\* Once listed, an instance stays listed for as long as it is up, though its
\* reports take time and MaxMissed of them in a row may fail.
UpStaysListed ==
  [][\A i \in Instances :
       i \in Listed /\ life[i] = "up" /\ life'[i] = "up" => i \in Listed']_vars

\* A Consul check starts critical and may expire: an instance that stays up
\* is nevertheless listed at some time, so a registration is never in vain.
UpIsEventuallyListed ==
  \A i \in Instances : life[i] = "up" ~> i \in Listed \/ life[i] # "up"

\* "ErrNotFound is returned when no service addresses are found"
\* (discovery.go:23): ServiceConnection never picks from an empty list.  The
\* registry in memory answers one when it has records and all of them are
\* stale: it must not come to that, so whoever has a record there must report
\* in time for as long as the graceful stop takes.
EmptyIsNotFound == \A c \in Clients : conn[c] # "panic"

-----------------------------------------------------------------------------
(* The promise of the registry *)

\* A crash is forgotten when the last report that was on its way has aged out.
Fate == [i \in Instances |->
  IF life[i] = "crashed" /\ deadFor[i] > Window + MaxLatency THEN "forgotten" ELSE life[i]]

Promise == INSTANCE Directory WITH life <- Fate, listed <- Listed

\* The records, reports, ages and times behave like a set of listed instances
\* that nobody leaves while up, and nobody comes back to that has left or has
\* been dead for long; a lookup sees it at one instant.
ImplementsDirectory == Promise!Spec
=============================================================================
