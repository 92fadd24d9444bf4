-------------------------- MODULE Discovery_proofs --------------------------
(***************************************************************************)
(* Discovery for any number of instances and clients and any times.        *)
(*                                                                         *)
(* An instance that is up and passing has a time left until its next       *)
(* accepted report, if its reports are as slow and fail as often as they   *)
(* may; the age of its record and this time never add up to more than one  *)
(* round of failures takes (Fresh).  In memory no report fails, and until  *)
(* the record is deregistered the heartbeat goes on: no record there is    *)
(* ever older than one heartbeat takes (Kept).  An instance that crashed   *)
(* has a record at most MaxLatency younger than its death (Fading).  The   *)
(* same time left says when an instance is listed at last (ListedInTime).  *)
(***************************************************************************)
EXTENDS Discovery, TLAPS

\* The time n heartbeats take at most.
Cycles(n) == n * (Period + MaxLatency)

\* What may pass before the next report of i is accepted.
Left(i) ==
  timer[i] + (IF beat[i] = "waiting" THEN MaxLatency ELSE 0)
           + Cycles(MaxMissed - missed[i])

\* The code has no such condition, but an instance is listed without a gap
\* only under it.
HeartbeatsSuffice == Cycles(MaxMissed + 1) < Window

Idle(i) == life[i] = "off" => beat[i] = "off" /\ missed[i] = 0 /\ i \notin registered

Fresh(i) ==
  life[i] = "up" =>
    /\ i \in registered /\ beat[i] # "off"
    /\ i \in passing => age[i] + Left(i) <= Cycles(MaxMissed + 1)

Kept(i) ==
  kind = "memory" /\ life[i] \in {"up", "leaving"} =>
    /\ i \in passing /\ beat[i] # "off"
    /\ age[i] + timer[i] + (IF beat[i] = "waiting" THEN MaxLatency ELSE 0)
         <= Period + MaxLatency

Fading(i) ==
  /\ deadFor[i] > 0 => life[i] = "crashed"
  /\ life[i] = "crashed" =>
       /\ kind = "consul" /\ beat[i] # "waiting"
       /\ beat[i] = "sending" => deadFor[i] + timer[i] <= MaxLatency
       /\ i \in passing => deadFor[i] <= age[i] + MaxLatency \/ age[i] > Window

Gone(i) == life[i] = "left" => i \notin registered

Good(i) ==
  /\ beat[i] = "sending" => timer[i] <= MaxLatency
  /\ Idle(i) /\ Fresh(i) /\ Kept(i) /\ Fading(i) /\ Gone(i)

IInv == TypeOK /\ \A i \in Instances : Good(i)

-----------------------------------------------------------------------------
LEMMA CyclesGrow ==
  /\ \A n \in Nat : Cycles(n) \in Nat
  /\ \A n \in Nat : Cycles(n + 1) = Cycles(n) + Period + MaxLatency
<1>1. Period + MaxLatency \in Nat
  BY DiscoveryAssumption
<1>2. \A n, k \in Nat : n * k \in Nat /\ (n + 1) * k = n * k + k
  OBVIOUS
<1> QED  BY <1>1, <1>2, DiscoveryAssumption DEF Cycles

LEMMA InitInv == Init => IInv
BY DiscoveryAssumption
   DEF Init, IInv, TypeOK, Good, Idle, Fresh, Kept, Fading, Gone, MaxAge, MaxDead

\* An instance that a step leaves alone stays good.
LEMMA OthersStayGood ==
  ASSUME IInv, NEW j \in Instances,
         UNCHANGED <<kind, life[j], beat[j], timer[j], missed[j], age[j], deadFor[j]>>,
         j \in registered' <=> j \in registered, j \in passing' => j \in passing,
         kind = "memory" /\ j \in passing => j \in passing'
  PROVE  Good(j)'
BY DEF IInv, Good, Idle, Fresh, Kept, Fading, Gone, Left

\* A program has one registry.
LEMMA KindStays == [Next]_vars => kind' = kind
BY DEF Next, vars, Register, Cancel, Deregister, Crash, Heartbeat, BeatDue, ReportLands,
       ReportHealthyState, ReportFails, BeatStops, ExpireCheck, Lookup, Close, Tick, registryVars

LEMMA NextInv == IInv /\ [Next]_vars => IInv'
<1> SUFFICES ASSUME IInv, [Next]_vars
             PROVE  IInv'
  OBVIOUS
<1> USE DiscoveryAssumption
<1>0. TypeOK /\ (\A i \in Instances : Good(i)) /\ kind' = kind
  BY KindStays DEF IInv
<1>1. ASSUME NEW i \in Instances, Register(i)
     PROVE  IInv'
  <2>1. TypeOK'
    BY <1>0, <1>1 DEF TypeOK, Register, instanceVars, registryVars, MaxAge,
                      MaxDead
  <2>2. Good(i)'
    <3>1. missed[i] = 0 /\ deadFor[i] = 0
      BY <1>0, <1>1 DEF TypeOK, Register, Good, Idle, Fading
    <3>2. Cycles(MaxMissed) \in Nat
          /\ Cycles(MaxMissed + 1) = Cycles(MaxMissed) + Period + MaxLatency
      BY CyclesGrow
    <3>3. life'[i] = "up" /\ beat'[i] = "waiting" /\ timer'[i] <= Period
          /\ timer'[i] \in Nat /\ i \in registered' /\ age'[i] = 0
          /\ missed'[i] = 0 /\ deadFor'[i] = 0
      BY <1>0, <1>1, <3>1 DEF TypeOK, Register
    <3>4. Left(i)' = timer'[i] + MaxLatency + Cycles(MaxMissed)
      <4>1. MaxMissed - missed'[i] = MaxMissed
        BY <3>3
      <4> QED  BY <4>1, <3>3 DEF Left
    <3>5. Fresh(i)'
      BY <3>2, <3>3, <3>4 DEF Fresh
    <3>6. Kept(i)'
      BY <1>0, <1>1, <3>3 DEF Kept, Register, TypeOK
    <3> QED
      BY <3>3, <3>5, <3>6 DEF Good, Idle, Fading, Gone
  <2>3. ASSUME NEW j \in Instances, j # i
        PROVE  Good(j)'
    BY <1>0, <1>1, <2>3, OthersStayGood
    DEF TypeOK, Register, instanceVars, registryVars
  <2> QED  BY <2>1, <2>2, <2>3 DEF IInv
<1>2. ASSUME NEW i \in Instances, BeatDue(i)
     PROVE  IInv'
  <2>1. TypeOK'
    BY <1>0, <1>2 DEF TypeOK, BeatDue, instanceVars, registryVars, MaxAge, MaxDead
  <2>2. Good(i)'
    BY <1>0, <1>2 DEF TypeOK, BeatDue, instanceVars, registryVars,
                      Good, Idle, Fresh, Kept, Fading,
                      Gone, Left
  <2>3. ASSUME NEW j \in Instances, j # i
        PROVE  Good(j)'
    BY <1>0, <1>2, <2>3, OthersStayGood
    DEF TypeOK, BeatDue, instanceVars, registryVars
  <2> QED  BY <2>1, <2>2, <2>3 DEF IInv
<1>3. ASSUME NEW i \in Instances, ReportLands(i)
     PROVE  IInv'
  <2>1. TypeOK'
    BY <1>0, <1>3 DEF TypeOK, ReportLands, ReportHealthyState, NextBeat, Ended,
                      instanceVars, registryVars, MaxAge, MaxDead
  <2>2. Good(i)'
    <3>2. Cycles(MaxMissed) \in Nat
          /\ Cycles(MaxMissed + 1) = Cycles(MaxMissed) + Period + MaxLatency
      BY CyclesGrow
    <3> QED
      BY <1>0, <1>3, <3>2
      DEF TypeOK, ReportLands, ReportHealthyState, NextBeat, Ended,
          Good, Idle, Fresh, Kept, Fading, Gone, Left
  <2>3. ASSUME NEW j \in Instances, j # i
        PROVE  Good(j)'
    BY <1>0, <1>3, <2>3, OthersStayGood
    DEF TypeOK, ReportLands, ReportHealthyState, NextBeat, Ended, instanceVars,
        registryVars
  <2> QED  BY <2>1, <2>2, <2>3 DEF IInv
<1>4. ASSUME NEW i \in Instances, ReportFails(i)
     PROVE  IInv'
  <2>1. TypeOK'
    BY <1>0, <1>4 DEF TypeOK, ReportFails, NextBeat, Ended, instanceVars,
                      registryVars, MaxAge, MaxDead
  <2>2. Good(i)'
    <3>1. /\ missed[i] \in 0..MaxMissed /\ missed[i] < MaxMissed
          /\ missed'[i] = missed[i] + 1
      BY <1>0, <1>4 DEF TypeOK, ReportFails
    <3>2. /\ Cycles(MaxMissed - missed'[i]) \in Nat
          /\ Cycles(MaxMissed - missed[i])
               = Cycles(MaxMissed - missed'[i]) + Period + MaxLatency
      <4>1. MaxMissed - missed'[i] \in Nat
            /\ MaxMissed - missed[i] = (MaxMissed - missed'[i]) + 1
        BY <3>1
      <4> QED  BY <4>1, CyclesGrow
    <3>3. Cycles(MaxMissed + 1) \in Nat
      BY CyclesGrow
    <3> QED
      BY <1>0, <1>4, <3>1, <3>2, <3>3
      DEF TypeOK, ReportFails, NextBeat, Ended, registryVars,
          Good, Idle, Fresh, Kept, Fading, Gone, Left
  <2>3. ASSUME NEW j \in Instances, j # i
        PROVE  Good(j)'
    BY <1>0, <1>4, <2>3, OthersStayGood
    DEF TypeOK, ReportFails, NextBeat, Ended, instanceVars, registryVars
  <2> QED  BY <2>1, <2>2, <2>3 DEF IInv
<1>5. ASSUME NEW i \in Instances, BeatStops(i)
     PROVE  IInv'
  <2>1. TypeOK'
    BY <1>0, <1>5 DEF TypeOK, BeatStops, instanceVars, registryVars, MaxAge,
                      MaxDead
  <2>2. Good(i)'
    BY <1>0, <1>5 DEF TypeOK, BeatStops, instanceVars, registryVars,
                      Good, Idle, Fresh, Kept, Fading,
                      Gone, Left
  <2>3. ASSUME NEW j \in Instances, j # i
        PROVE  Good(j)'
    BY <1>0, <1>5, <2>3, OthersStayGood
    DEF TypeOK, BeatStops, instanceVars, registryVars
  <2> QED  BY <2>1, <2>2, <2>3 DEF IInv
<1>6. ASSUME NEW i \in Instances, Cancel(i)
     PROVE  IInv'
  <2>1. TypeOK'
    BY <1>0, <1>6 DEF TypeOK, Cancel, instanceVars, registryVars, MaxAge, MaxDead
  <2>2. Good(i)'
    BY <1>0, <1>6 DEF TypeOK, Cancel, instanceVars, registryVars,
                      Good, Idle, Fresh, Kept, Fading,
                      Gone, Left
  <2>3. ASSUME NEW j \in Instances, j # i
        PROVE  Good(j)'
    BY <1>0, <1>6, <2>3, OthersStayGood
    DEF TypeOK, Cancel, instanceVars, registryVars
  <2> QED  BY <2>1, <2>2, <2>3 DEF IInv
<1>7. ASSUME NEW i \in Instances, Deregister(i)
     PROVE  IInv'
  <2>1. TypeOK'
    BY <1>0, <1>7 DEF TypeOK, Deregister, StopBeat, GoesOn, instanceVars, registryVars,
                      MaxAge, MaxDead
  <2>2. Good(i)'
    BY <1>0, <1>7 DEF TypeOK, Deregister, StopBeat, GoesOn, instanceVars, registryVars,
                      Good, Idle, Fresh, Kept, Fading,
                      Gone, Left
  <2>3. ASSUME NEW j \in Instances, j # i
        PROVE  Good(j)'
    BY <1>0, <1>7, <2>3, OthersStayGood
    DEF TypeOK, Deregister, StopBeat, GoesOn, instanceVars, registryVars
  <2> QED  BY <2>1, <2>2, <2>3 DEF IInv
<1>8. ASSUME NEW i \in Instances, Crash(i)
     PROVE  IInv'
  <2>1. TypeOK'
    BY <1>0, <1>8 DEF TypeOK, Crash, StopBeat, GoesOn, instanceVars, registryVars,
                      MaxAge, MaxDead
  <2>2. Good(i)'
    BY <1>0, <1>8 DEF TypeOK, Crash, StopBeat, GoesOn, instanceVars, registryVars,
                      Good, Idle, Fresh, Kept, Fading,
                      Gone, Left
  <2>3. ASSUME NEW j \in Instances, j # i
        PROVE  Good(j)'
    BY <1>0, <1>8, <2>3, OthersStayGood
    DEF TypeOK, Crash, StopBeat, GoesOn, instanceVars, registryVars
  <2> QED  BY <2>1, <2>2, <2>3 DEF IInv
<1>9. ASSUME NEW i \in Instances, ExpireCheck(i)
     PROVE  IInv'
  <2>1. TypeOK'
    BY <1>0, <1>9 DEF TypeOK, ExpireCheck, instanceVars, registryVars, MaxAge,
                      MaxDead
  <2>2. Good(i)'
    BY <1>0, <1>9 DEF TypeOK, ExpireCheck, instanceVars, registryVars,
                      Good, Idle, Fresh, Kept, Fading,
                      Gone, Left
  <2>3. ASSUME NEW j \in Instances, j # i
        PROVE  Good(j)'
    BY <1>0, <1>9, <2>3, OthersStayGood
    DEF TypeOK, ExpireCheck, instanceVars, registryVars
  <2> QED  BY <2>1, <2>2, <2>3 DEF IInv
<1>10. ASSUME NEW c \in Clients, Lookup(c) \/ Close(c)
      PROVE  IInv'
  <2>1. TypeOK'
    BY <1>0, <1>10 DEF TypeOK, Lookup, Outcomes, Close, instanceVars, registryVars, Listed
  <2>2. ASSUME NEW j \in Instances
        PROVE  Good(j)'
    BY <1>10, <2>2, OthersStayGood DEF Lookup, Close, instanceVars, registryVars
  <2> QED  BY <2>1, <2>2 DEF IInv
\* Nobody's time runs out in a tick, and nobody's budget grows.
<1>11. CASE Tick
  <2>1. TypeOK'
    BY <1>0, <1>11 DEF TypeOK, Tick, Down, Up, MaxAge, MaxDead
  <2>2. ASSUME NEW i \in Instances
        PROVE  Good(i)'
    <3>1. /\ timer[i] \in Nat /\ age[i] \in 0..MaxAge /\ deadFor[i] \in 0..MaxDead
          /\ timer'[i] = Down(timer[i]) /\ (beat[i] # "off" => timer[i] > 0)
          /\ age'[i] = IF i \in registered THEN Up(age[i], MaxAge) ELSE age[i]
          /\ deadFor'[i] = IF life[i] = "crashed" THEN Up(deadFor[i], MaxDead)
                                                  ELSE deadFor[i]
          /\ UNCHANGED <<life, beat, missed, registered, passing>>
          /\ passing \subseteq registered
      BY <1>0, <1>11, <2>2 DEF TypeOK, Tick
    <3>2. Cycles(MaxMissed - missed[i]) \in Nat /\ Cycles(MaxMissed + 1) \in Nat
      BY <1>0, CyclesGrow DEF TypeOK
    <3>3. Good(i)
      BY <1>0
    <3>4. Fresh(i)'
      BY <3>1, <3>2, <3>3 DEF Good, Fresh, Left, Down, Up, MaxAge
    <3>5. Fading(i)'
      BY <1>0, <3>1, <3>3 DEF Good, Fading, Down, Up, MaxAge, MaxDead
    <3>6. Kept(i)'
      BY <1>0, <3>1, <3>3 DEF Good, Kept, Down, Up, MaxAge
    <3> QED
      BY <3>1, <3>3, <3>4, <3>5, <3>6 DEF Good, Idle, Gone, Down
  <2> QED  BY <2>1, <2>2 DEF IInv
<1>12. CASE UNCHANGED vars
  BY <1>0, <1>12 DEF vars, IInv, TypeOK, Good, Idle, Fresh, Kept, Fading, Gone, Left
<1>13. ASSUME NEW i \in Instances, Heartbeat(i)
       PROVE  IInv'
  BY <1>2, <1>3, <1>4, <1>5, <1>13 DEF Heartbeat
<1>14. ASSUME Next
       PROVE  IInv'
  BY <1>1, <1>6, <1>7, <1>8, <1>9, <1>10, <1>11, <1>13, <1>14 DEF Next
<1> QED  BY <1>12, <1>14

LEMMA Invariance == Spec => []IInv
BY InitInv, NextInv, PTL DEF Spec

-----------------------------------------------------------------------------
\* Types of the variables; only registered instances pass.
THEOREM TypeCorrect == Spec => []TypeOK
<1>1. IInv => TypeOK
  BY DEF IInv
<1> QED  BY Invariance, <1>1, PTL

\* No report brings the record of an instance back that has deregistered
\* (memory.go:61-73, consul.go:94-99).
THEOREM LeftStaysAway == Spec => []NoResurrection
<1>1. IInv => NoResurrection
  BY DEF IInv, Good, Gone, NoResurrection
<1> QED  BY Invariance, <1>1, PTL

LEMMA DeadAreOut == IInv => DeadIsForgotten
<1> SUFFICES ASSUME IInv, NEW i \in Instances, deadFor[i] > Window + MaxLatency
             PROVE  i \notin Listed
  BY DEF DeadIsForgotten
<1> QED
  BY DiscoveryAssumption DEF IInv, TypeOK, Good, Fading, Listed, MaxAge, MaxDead

\* The record of a crashed instance is out of every answer once its TTL and
\* the way of its last report have passed (consul.go:66, memory.go:83).
THEOREM DeadAreForgotten == Spec => []DeadIsForgotten
BY Invariance, DeadAreOut, PTL

\* What a lookup looks at to answer ErrNotFound is the list itself with Consul
\* (consul.go:81-86); in memory it is all the records (memory.go:78), but none
\* of them gets older than a heartbeat takes.
LEMMA FoundIsListed ==
  ASSUME IInv, Period + MaxLatency <= Window
  PROVE  NothingFound <=> Listed = {}
<1>1. CASE kind = "consul"
  BY <1>1 DEF NothingFound
<1>2. CASE kind = "memory"
  <2>1. ASSUME NEW i \in registered
        PROVE  i \in Listed
    <3>1. i \in Instances /\ life[i] \in {"up", "leaving"}
      BY <1>2 DEF IInv, TypeOK, Good, Idle, Gone, Fading
    <3>2. age[i] \in Nat /\ timer[i] \in Nat
      BY <3>1, DiscoveryAssumption DEF IInv, TypeOK, MaxAge
    <3> QED
      BY <1>2, <3>1, <3>2, DiscoveryAssumption DEF IInv, Good, Kept, Listed
  <2> QED  BY <1>2, <2>1 DEF NothingFound, Listed
<1> QED  BY <1>1, <1>2 DEF IInv, TypeOK

\* With either registry no lookup ever picks from an empty list, if a heartbeat
\* with its delay fits into the window: in memory the heartbeat goes on during
\* the graceful stop, until Deregister takes the record away
\* (test/integration/main.go), so no record is stale when it is looked at.
THEOREM LookupsNeverPanic ==
  ASSUME Period + MaxLatency <= Window
  PROVE  Spec => []EmptyIsNotFound
<1>1. Init => EmptyIsNotFound
  BY DEF Init, EmptyIsNotFound
<1>2. IInv /\ EmptyIsNotFound /\ [Next]_vars => EmptyIsNotFound'
  <2> SUFFICES ASSUME IInv, EmptyIsNotFound, [Next]_vars
               PROVE  EmptyIsNotFound'
    OBVIOUS
  <2>1. conn \in [Clients -> Instances \cup {"idle", "notfound", "error", "panic"}]
        /\ Listed \subseteq Instances
    BY DEF IInv, TypeOK, Listed
  <2>2. ASSUME NEW c \in Clients, Lookup(c)
        PROVE  EmptyIsNotFound'
    <3>1. "panic" \notin Outcomes
      BY <2>1, FoundIsListed, DiscoveryAssumption DEF Outcomes
    <3> QED
      BY <2>1, <2>2, <3>1 DEF Lookup, EmptyIsNotFound
  <2>3. ASSUME NEW c \in Clients, Close(c)
        PROVE  EmptyIsNotFound'
    BY <2>1, <2>3 DEF Close, EmptyIsNotFound
  <2>4. CASE UNCHANGED conn
    BY <2>4 DEF EmptyIsNotFound
  <2> QED
    BY <2>2, <2>3, <2>4 DEF Next, vars, Register, Cancel, Deregister, Crash, Heartbeat, BeatDue,
       ReportLands, ReportHealthyState, ReportFails, BeatStops, ExpireCheck, Tick
<1> QED  BY Invariance, <1>1, <1>2, PTL DEF Spec

LEMMA ListedStaysUp ==
  ASSUME HeartbeatsSuffice, IInv, IInv', [Next]_vars, NEW i \in Instances,
         i \in Listed, life[i] = "up", life'[i] = "up"
  PROVE  i \in Listed'
<1>1. age[i] < Window /\ (i \in passing' => age'[i] < Window)
  <2>1. /\ age[i] \in Nat /\ age'[i] \in Nat
        /\ timer[i] \in Nat /\ timer'[i] \in Nat
        /\ missed[i] \in 0..MaxMissed /\ missed'[i] \in 0..MaxMissed
    BY DiscoveryAssumption DEF IInv, TypeOK, MaxAge
  <2>2. /\ Cycles(MaxMissed - missed[i]) \in Nat
        /\ Cycles(MaxMissed - missed'[i]) \in Nat
        /\ Cycles(MaxMissed + 1) \in Nat
    BY <2>1, CyclesGrow, DiscoveryAssumption
  <2>3. Left(i) \in Nat /\ Left(i)' \in Nat
    BY <2>1, <2>2, DiscoveryAssumption DEF Left
  <2> QED
    BY <2>1, <2>2, <2>3, DiscoveryAssumption
    DEF IInv, Good, Fresh, Listed, HeartbeatsSuffice
<1>2. i \in registered'
  BY DEF IInv, Good, Fresh
<1>3. i \in passing'
  BY <1>1, DiscoveryAssumption
  DEF Next, vars, Register, Cancel, Deregister, Crash, Heartbeat, BeatDue, ReportLands,
      ReportHealthyState, ReportFails, BeatStops, ExpireCheck, Lookup, Close, Tick,
      instanceVars, registryVars, Listed, IInv, TypeOK
<1> QED
  BY <1>1, <1>2, <1>3, DiscoveryAssumption DEF Listed, IInv, TypeOK, MaxAge

\* If a whole round of slow and failing reports fits into the window, an
\* instance that is up and listed stays listed (the heartbeats of the mains).
THEOREM UpIsListedOn ==
  ASSUME HeartbeatsSuffice
  PROVE  Spec => UpStaysListed
<1>1. IInv /\ IInv' /\ [Next]_vars =>
        [\A i \in Instances :
           i \in Listed /\ life[i] = "up" /\ life'[i] = "up" => i \in Listed']_vars
  BY ListedStaysUp
<1> QED  BY Invariance, <1>1, PTL DEF Spec, UpStaysListed

-----------------------------------------------------------------------------
(* The promise of the registry *)

LEMMA BeatFits ==
  ASSUME HeartbeatsSuffice
  PROVE  Period + MaxLatency <= Window
<1>1. Cycles(MaxMissed) \in Nat /\ Cycles(MaxMissed + 1) = Cycles(MaxMissed) + Period + MaxLatency
  BY CyclesGrow, DiscoveryAssumption
<1> QED  BY <1>1, DiscoveryAssumption DEF HeartbeatsSuffice

LEMMA FateOf ==
  ASSUME TypeOK
  PROVE  Fate \in [Instances -> {"off", "up", "leaving", "left", "crashed", "forgotten"}]
BY DEF Fate, TypeOK

\* What a step of an instance does to its fate, when no time passes.
LEMMA FateStep ==
  ASSUME IInv, IInv', NEW i \in Instances, UNCHANGED deadFor,
         \E what \in {"up", "leaving", "left", "crashed"} : life' = [life EXCEPT ![i] = what],
         life[i] # "crashed"
  PROVE  Fate' = [Fate EXCEPT ![i] = life'[i]]
<1>1. life'[i] = "crashed" => deadFor'[i] = 0
  BY DEF IInv, TypeOK, Good, Fading
<1>2. life \in [Instances -> {"off", "up", "leaving", "left", "crashed"}]
      /\ life' \in [Instances -> {"off", "up", "leaving", "left", "crashed"}]
  BY DEF IInv, TypeOK
<1>3. ASSUME NEW j \in Instances
      PROVE  Fate'[j] = [Fate EXCEPT ![i] = life'[i]][j]
  <2>1. CASE j = i
    BY <1>1, <1>2, <2>1, DiscoveryAssumption DEF Fate
  <2>2. CASE j # i
    BY <1>2, <2>2 DEF Fate
  <2> QED  BY <2>1, <2>2
<1>4. Fate' = [j \in Instances |-> Fate'[j]] /\ Fate = [j \in Instances |-> Fate[j]]
  BY DEF Fate
<1> QED  BY <1>3, <1>4

\* Steps of which a caller can tell nothing but that instances drop out.
LEMMA FadingStep ==
  ASSUME HeartbeatsSuffice, IInv, IInv', DeadIsForgotten', [Next]_vars,
         Listed' \subseteq Listed, UNCHANGED <<life, conn>>,
         \A i \in Instances : life[i] = "crashed" => deadFor[i] <= deadFor'[i]
  PROVE  Promise!Fade
<1> DEFINE stale == Listed \ Listed'
           dead == {i \in Instances : Fate[i] # "forgotten" /\ Fate'[i] = "forgotten"}
<1>1. stale \in SUBSET {i \in Listed : Fate[i] # "up"}
  <2>1. ASSUME NEW i \in stale
        PROVE  Fate[i] # "up"
    <3>1. i \in Instances
      BY DEF Listed, IInv, TypeOK
    <3> QED  BY <3>1, ListedStaysUp DEF Fate, IInv, TypeOK
  <2> QED  BY <2>1
<1>2. dead \in SUBSET {i \in Instances : Fate[i] = "crashed"}
  BY DEF Fate, IInv, TypeOK
<1>3. Fate' = [i \in Instances |-> IF i \in dead THEN "forgotten" ELSE Fate[i]]
  <2>1. ASSUME NEW i \in Instances, i \notin dead
        PROVE  Fate'[i] = Fate[i]
    <3>1. deadFor[i] \in Nat /\ deadFor'[i] \in Nat
      BY DiscoveryAssumption DEF IInv, TypeOK, MaxDead
    <3> QED  BY <2>1, <3>1, DiscoveryAssumption DEF Fate
  <2>2. Fate' = [i \in Instances |-> Fate'[i]]
    BY DEF Fate
  <2> QED  BY <2>1, <2>2
<1>4. dead \cap Listed' = {}
  BY DEF DeadIsForgotten, Fate
<1>5. Listed' = Listed \ stale
  OBVIOUS
<1> QED  BY <1>1, <1>2, <1>3, <1>4, <1>5 DEF Promise!Fade

LEMMA StepRefines ==
  ASSUME HeartbeatsSuffice, IInv, IInv', DeadIsForgotten', [Next]_vars
  PROVE  [Promise!Next]_(Promise!vars)
<1> USE DEF Promise!vars
<1>0. TypeOK /\ TypeOK' /\ \A i \in Instances : Good(i) /\ Good(i)'
  BY DEF IInv
<1>1. ASSUME NEW i \in Instances, Register(i)
      PROVE  Promise!Start(i)
  <2>1. Fate' = [Fate EXCEPT ![i] = "up"] /\ Fate[i] = "off"
    BY <1>0, <1>1, FateStep DEF Register, TypeOK, Fate
  <2>2. Listed' \in {Listed, Listed \cup {i}}
    BY <1>0, <1>1, DiscoveryAssumption DEF Register, TypeOK, Listed, MaxAge
  <2> QED  BY <1>1, <2>1, <2>2 DEF Promise!Start, Promise!Become, Register
<1>2. ASSUME NEW i \in Instances, ReportLands(i)
      PROVE  Promise!List(i) \/ UNCHANGED <<Fate, Listed, conn>>
  <2>1. Fate' = Fate /\ conn' = conn
    BY <1>2 DEF ReportLands, Fate
  <2>2. Listed' \in {Listed, Listed \cup {i}}
    BY <1>0, <1>2, DiscoveryAssumption
       DEF ReportLands, ReportHealthyState, TypeOK, Listed, MaxAge
  <2>3. CASE i \in Listed'
    <3>1. Fate[i] \notin {"left", "forgotten"}
      BY <1>0, <2>1, <2>3 DEF DeadIsForgotten, Fate, TypeOK, Good, Gone, Listed
    <3>2. Fate[i] # "off"
      BY <1>0, <1>2 DEF ReportLands, Good, Idle, Fate, TypeOK
    <3>3. Fate[i] \in {"up", "leaving", "crashed"}
      BY <1>0, <3>1, <3>2, FateOf
    <3> QED  BY <2>1, <2>2, <2>3, <3>3 DEF Promise!List
  <2>4. CASE i \notin Listed'
    BY <2>1, <2>2, <2>4
  <2> QED  BY <2>3, <2>4
<1>3. ASSUME NEW i \in Instances, Cancel(i)
      PROVE  Promise!Cancel(i)
  <2>1. Fate' = [Fate EXCEPT ![i] = "leaving"] /\ Fate[i] = "up"
    BY <1>0, <1>3, FateStep DEF Cancel, TypeOK, Fate
  <2>2. UNCHANGED <<Listed, conn>>
    BY <1>3 DEF Cancel, registryVars, Listed
  <2> QED  BY <2>1, <2>2 DEF Promise!Cancel, Promise!Become
<1>4. ASSUME NEW i \in Instances, Deregister(i)
      PROVE  Promise!Leave(i)
  <2>1. Fate' = [Fate EXCEPT ![i] = "left"] /\ Fate[i] = "leaving"
    BY <1>0, <1>4, FateStep DEF Deregister, TypeOK, Fate
  <2>2. Listed' = Listed \ {i}
    BY <1>0, <1>4 DEF Deregister, TypeOK, Listed
  <2> QED  BY <1>4, <2>1, <2>2 DEF Deregister, Promise!Leave, Promise!Become
<1>5. ASSUME NEW i \in Instances, Crash(i)
      PROVE  Promise!Crash(i)
  <2>1. Fate' = [Fate EXCEPT ![i] = "crashed"] /\ Fate[i] \in {"up", "leaving"}
    BY <1>0, <1>5, FateStep DEF Crash, TypeOK, Fate
  <2>2. UNCHANGED <<Listed, conn>>
    BY <1>5 DEF Crash, registryVars, Listed
  <2> QED  BY <2>1, <2>2 DEF Promise!Crash, Promise!Become
<1>6. ASSUME NEW i \in Instances, ExpireCheck(i)
      PROVE  Promise!Fade
  <2>1. Listed' \subseteq Listed
    BY <1>6 DEF ExpireCheck, Listed
  <2>2. UNCHANGED <<life, conn, deadFor>>
    BY <1>6 DEF ExpireCheck, instanceVars
  <2>3. \A j \in Instances : deadFor[j] <= deadFor'[j]
    BY <1>0, <2>2, DiscoveryAssumption DEF TypeOK, MaxDead
  <2> QED  BY <2>1, <2>2, <2>3, FadingStep
<1>7. CASE Tick
  <2>1. Listed' \subseteq Listed
    BY <1>0, <1>7, DiscoveryAssumption DEF Tick, TypeOK, Listed, MaxAge, Up
  <2>2. \A j \in Instances : deadFor[j] <= deadFor'[j]
    BY <1>0, <1>7, DiscoveryAssumption DEF Tick, TypeOK, MaxDead, Up
  <2>3. UNCHANGED <<life, conn>>
    BY <1>7 DEF Tick
  <2>4. Promise!Fade
    BY <2>1, <2>2, <2>3, FadingStep
  <2> QED  BY <2>4 DEF Promise!Next
<1>8. ASSUME NEW c \in Clients, Lookup(c)
      PROVE  Promise!Lookup(c)
  <2>1. UNCHANGED <<Fate, Listed>>
    BY <1>8 DEF Lookup, instanceVars, registryVars, Fate, Listed
  <2>2. \A r \in Outcomes : r \in {"error"} \cup IF Listed = {} THEN {"notfound"} ELSE Listed
    BY FoundIsListed, BeatFits DEF Outcomes
  <2> QED  BY <1>8, <2>1, <2>2 DEF Lookup, Promise!Lookup
<1>9. ASSUME NEW c \in Clients, Close(c)
      PROVE  Promise!Close(c)
  BY <1>9 DEF Close, Promise!Close, instanceVars, registryVars, Fate, Listed
<1>10. ASSUME NEW i \in Instances, BeatDue(i) \/ ReportFails(i) \/ BeatStops(i)
       PROVE  UNCHANGED <<Fate, Listed, conn>>
  BY <1>10 DEF BeatDue, ReportFails, BeatStops, registryVars, Fate, Listed
<1>11. CASE UNCHANGED vars
  BY <1>11 DEF vars, Fate, Listed
<1> QED
  BY <1>1, <1>2, <1>3, <1>4, <1>5, <1>6, <1>7, <1>8, <1>9, <1>10, <1>11
  DEF Next, Heartbeat, Promise!Next

\* With heartbeats that come often enough, either registry shows lookups a set
\* of listed instances that nobody drops out of while up, and that takes nobody
\* back who has left or has been dead for long (discovery.go:11-24, memory.go,
\* consul.go, the mains).
THEOREM DirectoryIsImplemented ==
  ASSUME HeartbeatsSuffice
  PROVE  Spec => ImplementsDirectory
<1>1. Init => Promise!Init
  BY DEF Init, Promise!Init, Fate, Listed
<1>2. IInv /\ IInv' /\ DeadIsForgotten' /\ [Next]_vars => [Promise!Next]_(Promise!vars)
  BY StepRefines
<1> QED
  BY Invariance, DeadAreForgotten, <1>1, <1>2, PTL DEF Spec, ImplementsDirectory, Promise!Spec

-----------------------------------------------------------------------------
(* When an instance is listed *)

\* The heartbeat of the mains waits for one second at a time.
WaitsOnePeriod == \A i \in Instances : beat[i] = "waiting" => timer[i] <= Period

\* As long as an instance is up and in no answer, the time until its next
\* accepted report is at most MaxMissed + 1 slow heartbeats, nothing lengthens
\* it, and every second shortens it.  When nothing is left of it no second can
\* pass, so the instance is listed within that time.
ListedInTime ==
  [][\A i \in Instances : life'[i] = "up" /\ i \notin Listed' =>
       /\ Left(i)' \in 0 .. Cycles(MaxMissed + 1)
       /\ life[i] = "up" => Left(i)' <= Left(i)
       /\ life[i] = "up" /\ Tick => Left(i)' = Left(i) - 1]_vars

LEMMA WaitsStep == IInv /\ WaitsOnePeriod /\ [Next]_vars => WaitsOnePeriod'
BY DiscoveryAssumption
   DEF IInv, TypeOK, WaitsOnePeriod, Next, vars, Register, Cancel, Deregister, Crash, StopBeat,
       GoesOn, Heartbeat, BeatDue, ReportLands, ReportFails, NextBeat, Ended, BeatStops,
       ExpireCheck, Lookup, Close, Tick, Down, instanceVars

LEMMA WaitsAlways == Spec => []WaitsOnePeriod
<1>1. Init => WaitsOnePeriod
  BY DEF Init, WaitsOnePeriod
<1> QED  BY <1>1, WaitsStep, Invariance, PTL DEF Spec

LEMMA CyclesAreMonotone ==
  ASSUME NEW n \in Nat, NEW k \in Nat, n <= k
  PROVE  Cycles(n) <= Cycles(k)
<1>1. Period + MaxLatency \in Nat
  BY DiscoveryAssumption
<1>2. \A d \in Nat : n * d <= k * d
  OBVIOUS
<1> QED  BY <1>1, <1>2 DEF Cycles

LEMMA LeftIsBounded ==
  ASSUME IInv, WaitsOnePeriod, NEW i \in Instances, life[i] = "up"
  PROVE  Left(i) \in 0 .. Cycles(MaxMissed + 1)
<1>1. /\ timer[i] \in Nat /\ missed[i] \in 0 .. MaxMissed /\ beat[i] \in {"waiting", "sending"}
      /\ timer[i] <= IF beat[i] = "waiting" THEN Period ELSE MaxLatency
  BY DEF IInv, TypeOK, Good, Fresh, WaitsOnePeriod
<1>2. /\ Cycles(MaxMissed - missed[i]) \in Nat /\ Cycles(MaxMissed) \in Nat
      /\ Cycles(MaxMissed - missed[i]) <= Cycles(MaxMissed)
      /\ Cycles(MaxMissed + 1) = Cycles(MaxMissed) + Period + MaxLatency
  <2>1. MaxMissed \in Nat /\ MaxMissed - missed[i] \in Nat /\ MaxMissed - missed[i] <= MaxMissed
    BY <1>1, DiscoveryAssumption
  <2>2. Cycles(MaxMissed - missed[i]) <= Cycles(MaxMissed)
    BY <2>1, CyclesAreMonotone
  <2> QED  BY <2>1, <2>2, CyclesGrow
<1> QED  BY <1>1, <1>2, DiscoveryAssumption DEF Left

\* A failed report uses up one of the failures that were left.
LEMMA FailureCosts ==
  ASSUME IInv, NEW i \in Instances, life[i] = "up", ReportFails(i)
  PROVE  Left(i)' <= Left(i)
<1>1. /\ missed[i] \in 0 .. MaxMissed /\ missed[i] < MaxMissed /\ missed'[i] = missed[i] + 1
      /\ timer[i] \in Nat /\ timer'[i] = Period
      /\ beat[i] = "sending" /\ beat'[i] = "waiting"
  BY DEF IInv, TypeOK, ReportFails, NextBeat, Ended
<1>2. /\ MaxMissed - missed'[i] \in Nat
      /\ MaxMissed - missed[i] = (MaxMissed - missed'[i]) + 1
  BY <1>1, DiscoveryAssumption
<1>3. /\ Cycles(MaxMissed - missed'[i]) \in Nat
      /\ Cycles(MaxMissed - missed[i]) = Cycles(MaxMissed - missed'[i]) + Period + MaxLatency
  BY <1>2, CyclesGrow
<1> QED  BY <1>1, <1>3, DiscoveryAssumption DEF Left

LEMMA LeftStep ==
  ASSUME IInv, IInv', [Next]_vars, NEW i \in Instances,
         life[i] = "up", life'[i] = "up", i \notin Listed'
  PROVE  Left(i)' <= Left(i) /\ (Tick => Left(i)' = Left(i) - 1)
<1> USE DiscoveryAssumption
<1>1. /\ timer[i] \in Nat /\ timer'[i] \in Nat /\ beat[i] # "off"
      /\ Cycles(MaxMissed - missed[i]) \in Nat /\ Cycles(MaxMissed - missed'[i]) \in Nat
  BY CyclesGrow DEF IInv, TypeOK, Good, Fresh
<1>2. CASE Tick
  BY <1>1, <1>2 DEF Tick, Left, Down
<1>3. ~ ReportLands(i)
  BY DEF ReportLands, ReportHealthyState, IInv, TypeOK, Good, Fresh, Listed
<1>4. CASE ReportFails(i)
  <2>1. beat[i] = "sending" /\ beat'[i] = "waiting"
    BY <1>4 DEF IInv, TypeOK, ReportFails, NextBeat, Ended
  <2>2. ~ Tick
    BY <2>1 DEF Tick
  <2> QED  BY <1>4, <2>2, FailureCosts
<1>5. CASE BeatDue(i)
  BY <1>1, <1>5 DEF BeatDue, Left, IInv, TypeOK, Tick
<1>6. ASSUME UNCHANGED <<timer[i], beat[i], missed[i]>>, ~ Tick
      PROVE  Left(i)' <= Left(i)
  BY <1>1, <1>6 DEF Left
<1>7. \/ Tick \/ ReportLands(i) \/ ReportFails(i) \/ BeatDue(i)
      \/ UNCHANGED <<timer[i], beat[i], missed[i]>>
  BY DEF IInv, TypeOK, Next, vars, Register, Cancel, Deregister, Crash, StopBeat, Heartbeat,
         BeatDue, ReportLands, ReportFails, NextBeat, BeatStops, ExpireCheck, Lookup, Close,
         instanceVars
<1> QED
  BY <1>1, <1>2, <1>3, <1>4, <1>5, <1>6, <1>7 DEF BeatDue, ReportFails, Tick

\* A registration is in vain for at most MaxMissed + 1 heartbeats, whatever the
\* window is and with either registry (the heartbeats of the mains).
THEOREM UpIsListedInTime == Spec => ListedInTime
<1> DEFINE InTime ==
             \A i \in Instances : life[i] = "up" => Left(i) \in 0 .. Cycles(MaxMissed + 1)
<1>1. IInv /\ WaitsOnePeriod => InTime
  BY LeftIsBounded
<1>2. IInv /\ IInv' /\ InTime' /\ [Next]_vars =>
        [\A i \in Instances : life'[i] = "up" /\ i \notin Listed' =>
           /\ Left(i)' \in 0 .. Cycles(MaxMissed + 1)
           /\ life[i] = "up" => Left(i)' <= Left(i)
           /\ life[i] = "up" /\ Tick => Left(i)' = Left(i) - 1]_vars
  BY LeftStep
<1> QED
  <2> HIDE DEF InTime
  <2> QED  BY <1>1, <1>2, Invariance, WaitsAlways, PTL DEF Spec, ListedInTime
=============================================================================
