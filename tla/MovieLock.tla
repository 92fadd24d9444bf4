------------------------------ MODULE MovieLock ------------------------------
(***************************************************************************)
(* The movie processor and the Consul lock that is to keep one instance of *)
(* the movie service processing at a time, from                            *)
(*   movie/internal/processor/processor.go                                 *)
(*   movie/internal/lock/consul/consul.go                                  *)
(*   movie/cmd/main.go (how both are started and stopped)                  *)
(* and the Consul agent as this code uses it: one key, one session per     *)
(* lock provider, with the TTL the code asks for and Consul's defaults for *)
(* the rest (lock-delay, release on invalidation).                         *)
(*                                                                         *)
(* An instance is one run of the program; a restarted service is another   *)
(* instance, because NewLockProvider creates a new session.  Time is       *)
(* counted in units by Tick, and every wait is a countdown.                *)
(***************************************************************************)
EXTENDS Integers

CONSTANTS
  Instances,
  None,
  TTL,          \* consul.go:28
  LockDelay,    \* Consul's default: 15s after an invalidated session
  ProcessTime,  \* processor.go:63
  RetryDelay,   \* processor.go:39
  MaxLatency,   \* from Consul's grant to the start of processing, and beyond
                \* ProcessTime: the network and the scheduler
  Faults        \* subset of {"lost", "late"}: answers of Consul that are lost
                \* and releases that take effect after their error

\* The bound on how long after a grant an instance still processes.
MaxHold == MaxLatency + ProcessTime
\* Consul invalidates a session between TTL and twice the TTL.
MaxAge == 2 * TTL

ASSUME TimeAssumption ==
  /\ TTL \in Nat /\ LockDelay \in Nat /\ ProcessTime \in Nat
  /\ RetryDelay \in Nat /\ MaxLatency \in Nat
  /\ None \notin Instances
  /\ Faults \subseteq {"lost", "late"}

\* Nothing in the code relates these numbers, but the lock rests on it.
ASSUME DelayAssumption == MaxHold < LockDelay

VARIABLES
  main,     \* [Instances -> ...] the main goroutine
  pc,       \* the processor goroutine
  timer,    \* what is left of its sleep
  held,     \* time since Consul granted the lock to it
  session,  \* its session in Consul
  age,      \* time since the session was created; it is never renewed
  holder,   \* the session the key is locked by
  delay,    \* what is left of the key's lock-delay
  late,     \* releases that were reported failed and still take effect
  overtaken \* history: instances whose key a late release has freed after
            \* they had acquired it again

procVars == <<main, pc, timer, held>>
consulVars == <<session, age, holder, delay, late, overtaken>>
vars == <<main, pc, timer, held, session, age, holder, delay, late, overtaken>>

TypeOK ==
  /\ main \in [Instances -> {"off", "serving", "stopping", "closed", "dead"}]
  /\ pc \in [Instances -> {"off", "select", "acquire", "granted", "processing",
                           "releasing", "sleeping", "returned"}]
  /\ timer \in [Instances -> Nat]
  /\ held \in [Instances -> Nat]
  /\ session \in [Instances -> {"none", "live", "gone"}]
  /\ age \in [Instances -> Nat]
  /\ holder \in Instances \cup {None}
  /\ delay \in Nat
  /\ late \subseteq Instances
  /\ overtaken \subseteq Instances

Init ==
  /\ main = [p \in Instances |-> "off"]
  /\ pc = [p \in Instances |-> "off"]
  /\ timer = [p \in Instances |-> 0]
  /\ held = [p \in Instances |-> 0]
  /\ session = [p \in Instances |-> "none"]
  /\ age = [p \in Instances |-> 0]
  /\ holder = None
  /\ delay = 0
  /\ late = {}
  /\ overtaken = {}

Running(p) == main[p] \in {"serving", "stopping", "closed"}
CtxDone(p) == main[p] \in {"stopping", "closed"}

\* Between the grant and the end of processing.
Inside(p) == pc[p] \in {"granted", "processing"}

Goto(p, where) == pc' = [pc EXCEPT ![p] = where]

\* Faulty variant of Grantable: a key without a lock-delay.
GrantableAtOnce(p) == session[p] = "live" /\ holder \in {p, None}

\* Consul locks the key for a live session if it is free and out of its
\* lock-delay; a session that already holds it is granted it again.
Grantable(p) ==
  /\ session[p] = "live"
  /\ holder = p \/ (holder = None /\ delay = 0)

-----------------------------------------------------------------------------
(* Processor.Start *)

\* Faulty variant of Select: the context is not looked at.
SelectForever(p) ==
  /\ Running(p) /\ pc[p] = "select"
  /\ Goto(p, "acquire")
  /\ UNCHANGED <<main, timer, held, consulVars>>

\* select on ctx.Done, else Acquire.
Select(p) ==
  /\ Running(p) /\ pc[p] = "select"
  /\ Goto(p, IF CtxDone(p) THEN "returned" ELSE "acquire")
  /\ UNCHANGED <<main, timer, held, consulVars>>

Acquire(p) ==
  /\ Running(p) /\ pc[p] = "acquire" /\ Grantable(p)
  /\ holder' = p
  /\ Goto(p, "granted")
  /\ held' = [held EXCEPT ![p] = 0]
  /\ UNCHANGED <<main, timer, session, age, delay, late, overtaken>>

\* Faulty variant of Sleep: a random wait of either side of RetryDelay.
SleepAround(p) ==
  /\ Goto(p, "sleeping")
  /\ \E n \in {-1, RetryDelay} : timer' = [timer EXCEPT ![p] = n]

\* Any error, and an Acquire that was not granted, sleep and try again.
Sleep(p) ==
  /\ Goto(p, "sleeping")
  /\ timer' = [timer EXCEPT ![p] = RetryDelay]

AcquireRefused(p) ==
  /\ Running(p) /\ pc[p] = "acquire" /\ ~ Grantable(p)
  /\ Sleep(p)
  /\ UNCHANGED <<main, held, consulVars>>

\* The request fails on its way there, or on its way back when Consul has
\* already locked the key.
AcquireLost(p) ==
  /\ "lost" \in Faults
  /\ Running(p) /\ pc[p] = "acquire"
  /\ Sleep(p)
  /\ \/ UNCHANGED holder
     \/ Grantable(p) /\ holder' = p
  /\ UNCHANGED <<main, held, session, age, delay, late, overtaken>>

Wake(p) ==
  /\ Running(p) /\ pc[p] = "sleeping" /\ timer[p] = 0
  /\ Goto(p, "select")
  /\ UNCHANGED <<main, timer, held, consulVars>>

BeginProcess(p) ==
  /\ Running(p) /\ pc[p] = "granted"
  /\ Goto(p, "processing")
  /\ timer' = [timer EXCEPT ![p] = ProcessTime]
  /\ UNCHANGED <<main, held, consulVars>>

\* process looks neither at its context nor at the lock.
EndProcess(p) ==
  /\ Running(p) /\ pc[p] = "processing" /\ timer[p] = 0
  /\ Goto(p, "releasing")
  /\ held' = [held EXCEPT ![p] = 0]
  /\ UNCHANGED <<main, timer, consulVars>>

\* Consul frees a key released by its holder at once, without a lock-delay.
Freed(p) == IF holder = p THEN None ELSE holder

Release(p) ==
  /\ Running(p) /\ pc[p] = "releasing"
  /\ holder' = Freed(p)
  /\ Goto(p, "select")
  /\ UNCHANGED <<main, timer, held, session, age, delay, late, overtaken>>

\* An error of the release is logged; the loop goes on without sleeping.
ReleaseFails(p) ==
  /\ Running(p) /\ pc[p] = "releasing"
  /\ \/ "lost" \in Faults /\ UNCHANGED late
     \/ "late" \in Faults /\ late' = late \cup {p}
  /\ Goto(p, "select")
  /\ UNCHANGED <<main, timer, held, session, age, holder, delay, overtaken>>

-----------------------------------------------------------------------------
(* Consul *)

LateRelease(p) ==
  /\ p \in late
  /\ late' = late \ {p}
  /\ holder' = Freed(p)
  /\ overtaken' = IF holder = p /\ Inside(p) THEN overtaken \cup {p} ELSE overtaken
  /\ UNCHANGED <<procVars, session, age, delay>>

\* Faulty variant of Invalidate: a session created with LockDelay 0.
InvalidateWithoutDelay(p) ==
  /\ session' = [session EXCEPT ![p] = "gone"]
  /\ holder' = Freed(p)
  /\ age' = [age EXCEPT ![p] = 0]
  /\ UNCHANGED <<delay, late, overtaken>>

\* A session ends: its lock is released and the key gets its lock-delay.
Invalidate(p) ==
  /\ session' = [session EXCEPT ![p] = "gone"]
  /\ holder' = Freed(p)
  /\ delay' = IF holder = p THEN LockDelay ELSE delay
  /\ age' = [age EXCEPT ![p] = 0]
  /\ UNCHANGED <<late, overtaken>>

\* Faulty variant of ExpireSession: a session without a TTL, which only
\* lives until its provider is closed.
ExpireSessionOnClose(p) ==
  /\ session[p] = "live" /\ main[p] = "closed"
  /\ Invalidate(p)
  /\ UNCHANGED procVars

ExpireSession(p) ==
  /\ session[p] = "live" /\ age[p] >= TTL
  /\ Invalidate(p)
  /\ UNCHANGED procVars

-----------------------------------------------------------------------------
(* main *)

\* NewLockProvider creates the session, then the processor is started.
Start(p) ==
  /\ main[p] = "off"
  /\ main' = [main EXCEPT ![p] = "serving"]
  /\ session' = [session EXCEPT ![p] = "live"]
  /\ Goto(p, "select")
  /\ UNCHANGED <<timer, held, age, holder, delay, late, overtaken>>

\* log.Fatal when the session cannot be created.
StartFails(p) ==
  /\ "lost" \in Faults
  /\ main[p] = "off"
  /\ main' = [main EXCEPT ![p] = "dead"]
  /\ UNCHANGED <<pc, timer, held, consulVars>>

\* SIGTERM: the context is cancelled and the server stops; nobody waits for
\* the processor.
Cancel(p) ==
  /\ main[p] = "serving"
  /\ main' = [main EXCEPT ![p] = "stopping"]
  /\ UNCHANGED <<pc, timer, held, consulVars>>

\* The deferred Close destroys the session, even under a running processor.
CloseProvider(p) ==
  /\ main[p] = "stopping"
  /\ main' = [main EXCEPT ![p] = "closed"]
  /\ \/ session[p] = "live" /\ Invalidate(p)
     \/ session[p] = "gone" /\ UNCHANGED consulVars
     \/ "lost" \in Faults /\ UNCHANGED consulVars
  /\ UNCHANGED <<pc, timer, held>>

\* The process ends with its goroutines: main returns, or a crash anywhere.
Die(p) ==
  /\ Running(p)
  /\ main' = [main EXCEPT ![p] = "dead"]
  /\ Goto(p, "off")
  /\ timer' = [timer EXCEPT ![p] = 0]
  /\ held' = [held EXCEPT ![p] = 0]
  /\ UNCHANGED consulVars

-----------------------------------------------------------------------------
Down(n) == IF n > 0 THEN n - 1 ELSE 0

\* Time passes unless something is due: a granted instance begins within
\* MaxLatency, processing ends within MaxHold, Consul drops old sessions.
Tick ==
  /\ \A p \in Instances :
       /\ pc[p] = "granted" => held[p] < MaxLatency
       /\ pc[p] = "processing" => held[p] < MaxHold
       /\ session[p] = "live" => age[p] < MaxAge
  /\ timer' = [p \in Instances |-> Down(timer[p])]
  /\ held' = [p \in Instances |->
       IF Inside(p) THEN held[p] + 1 ELSE held[p]]
  /\ age' = [p \in Instances |->
       IF session[p] = "live" THEN age[p] + 1 ELSE age[p]]
  /\ delay' = Down(delay)
  /\ UNCHANGED <<main, pc, session, holder, late, overtaken>>

Processor(p) ==
  \/ Select(p) \/ Acquire(p) \/ AcquireRefused(p) \/ AcquireLost(p) \/ Wake(p)
  \/ BeginProcess(p) \/ EndProcess(p) \/ Release(p) \/ ReleaseFails(p)

Main(p) == Start(p) \/ StartFails(p) \/ Cancel(p) \/ CloseProvider(p) \/ Die(p)

Next ==
  \/ \E p \in Instances :
       Processor(p) \/ Main(p) \/ LateRelease(p) \/ ExpireSession(p)
  \/ Tick

Spec == Init /\ [][Next]_vars

\* Goroutines run, Consul answers and sweeps its sessions, time passes.  No
\* fairness for signals, for the graceful stop (a stream may never end), for
\* crashes, or for a late release.
FairSpec ==
  /\ Spec
  /\ \A p \in Instances : WF_vars(Processor(p)) /\ WF_vars(ExpireSession(p))
  /\ WF_vars(Tick)

-----------------------------------------------------------------------------
(* Properties *)

\* "LockProvider defines a distributed Lock provider" (processor.go:10): two
\* instances never process at the same time.
MutualExclusion ==
  \A p, q \in Instances :
    pc[p] = "processing" /\ pc[q] = "processing" => p = q

\* A late release is all that can break it: not a session that expires or is
\* destroyed under a processing instance (which never notices), not a crash
\* with the lock held, not a lost answer of Consul.
OnlyOvertakingBreaksIt == overtaken = {} => MutualExclusion

\* While an instance processes after losing its session, the key stays
\* under its lock-delay: nobody is granted it before the processing is over.
LostLockStaysQuiet ==
  \A p \in Instances :
    overtaken = {} /\ pc[p] = "processing" /\ holder # p
      => holder = None /\ delay > 0

\* The lock of an instance that has died is freed without anyone's help.
DeadHolderIsFreed ==
  \A p \in Instances : holder = p /\ main[p] = "dead" ~> holder # p

\* After a signal the processor returns, although it is never waited for:
\* it leaves every sleep, Consul call and processing it may be in.
ProcessorReturns ==
  \A p \in Instances : CtxDone(p) ~> pc[p] \in {"returned", "off"}

\* "Unable to acquire lock, retrying in 10 seconds" (processor.go:38): a
\* processor that is the only user of the lock, is not told to stop and whose
\* Consul calls all work is granted the lock when it retries.
RetrySucceeds ==
  \A p \in Instances :
    pc[p] = "sleeping" ~> pc[p] = "granted" \/ main[p] # "serving"
=============================================================================
