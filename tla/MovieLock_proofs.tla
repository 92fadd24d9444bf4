-------------------------- MODULE MovieLock_proofs --------------------------
(***************************************************************************)
(* Mutual exclusion of the movie processor for any number of instances and *)
(* any times that satisfy DelayAssumption, as long as no late release has  *)
(* freed the key of an instance that had acquired it again.                *)
(*                                                                         *)
(* A processing instance need not hold the lock: its session may have      *)
(* ended under it.  What protects it then is the lock-delay, which cannot  *)
(* run out before it is done: time since the grant and what is left of the *)
(* delay always add up to the whole delay (Protected).                     *)
(*                                                                         *)
(* Whoever holds the lock has a live session (SessionBacked), whose age    *)
(* bounds how long a dead holder keeps the others away (FreeIn).  Told to  *)
(* stop, it is at most one round of its loop from its return (StepsLeft).  *)
(***************************************************************************)
EXTENDS MovieLock, TLAPS

Protected(p) ==
  /\ held[p] <= MaxHold
  /\ \/ holder = p
     \/ holder = None /\ delay + held[p] >= LockDelay

Guarded ==
  /\ \A p \in Instances : Inside(p) => Protected(p)
  /\ \A p, q \in Instances : Inside(p) /\ Inside(q) => p = q

IInv == TypeOK /\ (overtaken = {} => Guarded)

LEMMA MaxHoldType == MaxHold \in Nat /\ MaxLatency <= MaxHold
BY TimeAssumption DEF MaxHold

-----------------------------------------------------------------------------
LEMMA InitInv == Init => IInv
BY DEF Init, IInv, Guarded, TypeOK, Inside

LEMMA TypeNext == TypeOK /\ [Next]_vars => TypeOK'
<1> SUFFICES ASSUME TypeOK, [Next]_vars
             PROVE  TypeOK'
  OBVIOUS
<1> USE TimeAssumption DEF TypeOK
<1>1. ASSUME NEW p \in Instances, Processor(p)
      PROVE  TypeOK'
  BY <1>1 DEF Processor, Select, Acquire, AcquireRefused, AcquireLost, Sleep, Wake,
              BeginProcess, EndProcess, Release, ReleaseFails, Freed, Goto, consulVars
<1>2. ASSUME NEW p \in Instances, Main(p)
      PROVE  TypeOK'
  BY <1>2 DEF Main, Start, StartFails, Cancel, CloseProvider, Die, Invalidate, Freed,
              Goto, consulVars
<1>3. ASSUME NEW p \in Instances, LateRelease(p) \/ ExpireSession(p)
      PROVE  TypeOK'
  BY <1>3 DEF LateRelease, ExpireSession, Invalidate, Freed, procVars
<1>4. CASE Tick
  BY <1>4 DEF Tick, Down
<1>5. CASE UNCHANGED vars
  BY <1>5 DEF vars
<1> QED  BY <1>1, <1>2, <1>3, <1>4, <1>5 DEF Next

\* A step after which nobody is inside who was not, with the lock and the
\* times of those inside unchanged, keeps the invariant.
LEMMA QuietStep ==
  ASSUME Guarded,
         \A p \in Instances : Inside(p)' => Inside(p) /\ held'[p] = held[p],
         UNCHANGED <<holder, delay>>
  PROVE  Guarded'
BY DEF Guarded, Protected

\* The same when a key is freed that nobody inside holds.
LEMMA FreeingStep ==
  ASSUME Guarded, NEW q \in Instances, ~ Inside(q)',
         \A p \in Instances : Inside(p)' => Inside(p) /\ held'[p] = held[p],
         holder' = Freed(q), delay' = delay
  PROVE  Guarded'
BY DEF Guarded, Protected, Freed

\* A session ends: whoever is inside with it is covered by a whole new delay.
LEMMA InvalidatingStep ==
  ASSUME TypeOK, Guarded, NEW q \in Instances, Invalidate(q), UNCHANGED <<pc, timer, held>>
  PROVE  Guarded'
<1>2. ASSUME NEW p \in Instances, Inside(p)
      PROVE  Protected(p)'
  <2>1. held[p] \in Nat /\ held[p] <= MaxHold /\ delay \in Nat
    BY <1>2 DEF Guarded, TypeOK, Protected
  <2>2. CASE holder = q
    BY <1>2, <2>1, <2>2, TimeAssumption DEF Guarded, Protected, Invalidate, Freed
  <2>3. CASE holder # q
    BY <1>2, <2>1, <2>3 DEF Guarded, Protected, Invalidate, Freed
  <2> QED  BY <2>2, <2>3
<1> QED  BY <1>2 DEF Guarded, Inside

\* Nobody is inside when the lock can be granted to another instance.
LEMMA GrantIsExclusive ==
  ASSUME TypeOK, Guarded, NEW p \in Instances, Grantable(p), NEW q \in Instances, Inside(q)
  PROVE  q = p /\ holder = p
<1>1. Protected(q) /\ held[q] \in Nat /\ delay \in Nat
  BY DEF Guarded, TypeOK
<1>2. held[q] < LockDelay
  BY <1>1, MaxHoldType, TimeAssumption, DelayAssumption DEF Protected
<1>3. holder = q
  BY <1>1, <1>2, TimeAssumption DEF Protected, Grantable
<1> QED  BY <1>3, TimeAssumption DEF Grantable

LEMMA NextGuarded ==
  TypeOK /\ Guarded /\ [Next]_vars /\ overtaken' = {} => Guarded'
<1> SUFFICES ASSUME TypeOK, Guarded, [Next]_vars, overtaken' = {}
             PROVE  Guarded'
  OBVIOUS
<1> USE TimeAssumption
<1>0. TypeOK
  OBVIOUS
\* Steps of the processor that leave Consul alone.
<1>1. ASSUME NEW p \in Instances,
             Select(p) \/ AcquireRefused(p) \/ Wake(p) \/ EndProcess(p)
      PROVE  Guarded'
  <2>1. UNCHANGED <<holder, delay>>
    BY <1>0, <1>1 DEF TypeOK, Select, AcquireRefused, Sleep, Wake, EndProcess, Goto,
                      consulVars
  <2>2. \A q \in Instances : Inside(q)' => Inside(q) /\ held'[q] = held[q]
    BY <1>0, <1>1 DEF TypeOK, Select, AcquireRefused, Sleep, Wake, EndProcess, Goto,
                      Inside
  <2> QED  BY <2>1, <2>2, QuietStep
<1>2. ASSUME NEW p \in Instances, BeginProcess(p)
      PROVE  Guarded'
  <2>1. UNCHANGED <<holder, delay>>
    BY <1>0, <1>2 DEF TypeOK, BeginProcess, Goto, consulVars
  <2>2. \A q \in Instances : Inside(q)' => Inside(q) /\ held'[q] = held[q]
    BY <1>0, <1>2 DEF TypeOK, BeginProcess, Goto, Inside
  <2> QED  BY <2>1, <2>2, QuietStep
<1>3. ASSUME NEW p \in Instances, Acquire(p)
      PROVE  Guarded'
  <2>1. \A q \in Instances : Inside(q)' => q = p
    BY <1>0, <1>3, GrantIsExclusive DEF TypeOK, Acquire, Goto, Inside
  <2>2. Protected(p)'
    BY <1>0, <1>3, MaxHoldType DEF TypeOK, Acquire, Protected
  <2> QED  BY <2>1, <2>2 DEF Guarded
<1>4. ASSUME NEW p \in Instances, AcquireLost(p)
      PROVE  Guarded'
  <2>1. UNCHANGED delay
    BY <1>0, <1>4 DEF TypeOK, AcquireLost, Sleep, Goto
  <2>2. \A q \in Instances : Inside(q)' => Inside(q) /\ held'[q] = held[q] /\ q # p
    BY <1>0, <1>4 DEF TypeOK, AcquireLost, Sleep, Goto, Inside
  <2>3. CASE UNCHANGED holder
    BY <2>1, <2>2, <2>3, QuietStep
  <2>4. CASE Grantable(p) /\ holder' = p
    BY <2>1, <2>2, <2>4, GrantIsExclusive DEF Guarded
  <2> QED  BY <1>4, <2>3, <2>4 DEF AcquireLost
<1>5. ASSUME NEW p \in Instances, Release(p)
      PROVE  Guarded'
  <2>1. holder' = Freed(p) /\ delay' = delay
    BY <1>0, <1>5 DEF TypeOK, Release, Goto, Freed
  <2>2. /\ \A q \in Instances : Inside(q)' => Inside(q) /\ held'[q] = held[q]
        /\ ~ Inside(p)'
    BY <1>0, <1>5 DEF TypeOK, Release, Goto, Inside
  <2> QED  BY <2>1, <2>2, FreeingStep
<1>6. ASSUME NEW p \in Instances, ReleaseFails(p)
      PROVE  Guarded'
  <2>1. UNCHANGED <<holder, delay>>
    BY <1>0, <1>6 DEF TypeOK, ReleaseFails, Goto
  <2>2. \A q \in Instances : Inside(q)' => Inside(q) /\ held'[q] = held[q]
    BY <1>0, <1>6 DEF TypeOK, ReleaseFails, Goto, Inside
  <2> QED  BY <2>1, <2>2, QuietStep
<1>7. ASSUME NEW p \in Instances, Start(p) \/ StartFails(p) \/ Cancel(p) \/ Die(p)
      PROVE  Guarded'
  <2>1. UNCHANGED <<holder, delay>>
    BY <1>0, <1>7 DEF TypeOK, Start, StartFails, Cancel, Die, Goto, consulVars
  <2>2. \A q \in Instances : Inside(q)' => Inside(q) /\ held'[q] = held[q]
    BY <1>0, <1>7 DEF TypeOK, Start, StartFails, Cancel, Die, Goto, Inside
  <2> QED  BY <2>1, <2>2, QuietStep
<1>8. ASSUME NEW p \in Instances, CloseProvider(p)
      PROVE  Guarded'
  <2>1. UNCHANGED <<pc, timer, held>>
    BY <1>8 DEF CloseProvider
  <2>2. CASE Invalidate(p)
    BY <2>1, <2>2, InvalidatingStep
  <2>3. CASE UNCHANGED consulVars
    <3>1. UNCHANGED <<holder, delay>>
      BY <1>0, <2>1, <2>3 DEF TypeOK, consulVars
    <3> QED  BY <2>1, <3>1, QuietStep DEF Inside
  <2> QED  BY <1>8, <2>2, <2>3 DEF CloseProvider
<1>9. ASSUME NEW p \in Instances, ExpireSession(p)
      PROVE  Guarded'
  BY <1>0, <1>9, InvalidatingStep DEF TypeOK, ExpireSession, procVars
<1>10. ASSUME NEW p \in Instances, LateRelease(p)
       PROVE  Guarded'
  <2>1. \/ UNCHANGED <<holder, delay, pc, held>>
        \/ ~ Inside(p) /\ holder' = Freed(p) /\ UNCHANGED <<delay, pc, held>>
    BY <1>0, <1>10 DEF LateRelease, Freed, procVars
  <2> QED  BY <2>1, QuietStep, FreeingStep DEF Inside
\* The delay loses what the instances inside have gained.
<1>11. CASE Tick
  <2>1. ASSUME NEW p \in Instances, Inside(p)
        PROVE  Protected(p)'
    <3>1. /\ held[p] \in Nat /\ delay \in Nat /\ Protected(p)
          /\ held'[p] = held[p] + 1 /\ holder' = holder /\ delay' = Down(delay)
      BY <1>0, <1>11, <2>1 DEF TypeOK, Guarded, Tick, Inside
    <3>2. held'[p] <= MaxHold
      BY <1>11, <2>1, <3>1, MaxHoldType DEF Tick, Inside, Protected
    <3>3. delay + held[p] >= LockDelay => delay' + held'[p] >= LockDelay
      BY <3>1, <3>2, DelayAssumption, MaxHoldType DEF Down
    <3> QED  BY <3>1, <3>2, <3>3 DEF Protected
  <2> QED  BY <1>11, <2>1 DEF Guarded, Inside, Tick
<1>12. CASE UNCHANGED vars
  <2>1. UNCHANGED <<holder, delay, pc, held>>
    BY <1>0, <1>12 DEF TypeOK, vars
  <2> QED  BY <2>1, QuietStep DEF Inside
<1> QED
  BY <1>1, <1>2, <1>3, <1>4, <1>5, <1>6, <1>7, <1>8, <1>9, <1>10, <1>11, <1>12
     DEF Next, Processor, Main

LEMMA InvAlways == Spec => []IInv
<1>1. overtaken # {} /\ [Next]_vars => overtaken' # {}
  BY DEF Next, vars, Processor, Select, Acquire, AcquireRefused, AcquireLost,
         Wake, BeginProcess, EndProcess, Release, ReleaseFails, Main, Start, StartFails,
         Cancel, CloseProvider, Die, LateRelease, ExpireSession, Invalidate, Tick,
         consulVars
<1>2. IInv /\ [Next]_vars => IInv'
  BY <1>1, TypeNext, NextGuarded DEF IInv
<1> QED  BY InitInv, <1>2, PTL DEF Spec

\* Every variable keeps its type.
THEOREM TypeCorrect == Spec => []TypeOK
<1>1. IInv => TypeOK
  BY DEF IInv
<1> QED  BY <1>1, InvAlways, PTL

\* At most one instance processes at a time, through session expiry, shutdown,
\* crashes and lost answers, unless a late release overtakes the processor's
\* next acquire (processor.go:48-51).
THEOREM ProcessingIsExclusive == Spec => []OnlyOvertakingBreaksIt
<1>1. IInv => OnlyOvertakingBreaksIt
  BY DEF IInv, Guarded, Inside, OnlyOvertakingBreaksIt, MutualExclusion
<1> QED  BY <1>1, InvAlways, PTL

\* An instance that processes without the lock is under the key's lock-delay.
THEOREM LostLockIsDelayed == Spec => []LostLockStaysQuiet
<1>1. ASSUME IInv, NEW p \in Instances, overtaken = {}, pc[p] = "processing", holder # p
      PROVE  holder = None /\ delay > 0
  <2>1. Protected(p) /\ held[p] \in Nat /\ delay \in Nat
    BY <1>1 DEF IInv, Guarded, TypeOK, Inside
  <2> QED
    BY <1>1, <2>1, MaxHoldType, TimeAssumption, DelayAssumption DEF Protected
<1>2. IInv => LostLockStaysQuiet
  BY <1>1 DEF LostLockStaysQuiet
<1> QED  BY <1>2, InvAlways, PTL

-----------------------------------------------------------------------------
\* A release that Consul runs after its error is the only source of lateness.
LEMMA NothingIsLate ==
  ASSUME "late" \notin Faults
  PROVE  Spec => [](late = {} /\ overtaken = {})
<1> DEFINE Punctual == late = {} /\ overtaken = {}
<1>1. Init => Punctual
  BY DEF Init
<1>2. ASSUME Punctual, [Next]_vars
      PROVE  Punctual'
  <2>1. ASSUME NEW p \in Instances, Processor(p)
        PROVE  Punctual'
    BY <1>2, <2>1 DEF Processor, Select, Acquire, AcquireRefused, AcquireLost, Wake,
                      BeginProcess, EndProcess, Release, ReleaseFails, consulVars
  <2>2. ASSUME NEW p \in Instances, Main(p) \/ LateRelease(p) \/ ExpireSession(p)
        PROVE  Punctual'
    BY <1>2, <2>2 DEF Main, Start, StartFails, Cancel, CloseProvider, Die, Invalidate,
                      LateRelease, ExpireSession, consulVars
  <2>3. CASE Tick \/ UNCHANGED vars
    BY <1>2, <2>3 DEF Tick, vars
  <2> QED  BY <1>2, <2>1, <2>2, <2>3 DEF Next
<1> QED  BY <1>1, <1>2, PTL DEF Spec

\* Where a release either works or is never run, at most one instance processes
\* at a time, whatever else is lost, expires, stops or dies (processor.go:30-58).
\* It rests on DelayAssumption: who processes is done before the lock-delay is
\* over that protects it once its session has ended.
THEOREM ExclusiveWithoutLateReleases ==
  ASSUME "late" \notin Faults
  PROVE  Spec => []MutualExclusion
<1>1. overtaken = {} /\ OnlyOvertakingBreaksIt => MutualExclusion
  BY DEF OnlyOvertakingBreaksIt
<1> QED  BY <1>1, NothingIsLate, ProcessingIsExclusive, PTL

-----------------------------------------------------------------------------
\* The session behind the lock: it is created once, never renewed, and the key
\* is either held or under its delay.
SessionBacked ==
  /\ \A p \in Instances : main[p] = "off" => session[p] = "none"
  /\ \A p \in Instances : age[p] <= MaxAge
  /\ holder # None => session[holder] = "live" /\ delay = 0
  /\ delay <= LockDelay

LEMMA InvalidatingKeepsSessions ==
  ASSUME TypeOK, SessionBacked, NEW p \in Instances, Invalidate(p),
         main[p] # "off", \A q \in Instances : main'[q] = "off" => main[q] = "off"
  PROVE  SessionBacked'
<1>1. \A q \in Instances : age'[q] <= MaxAge
  BY TimeAssumption DEF TypeOK, SessionBacked, Invalidate, MaxAge
<1>2. holder' # None => holder' = holder /\ holder # p /\ delay' = delay
  BY DEF TypeOK, Invalidate, Freed
<1>3. \A q \in Instances : q # p => session'[q] = session[q]
  BY DEF TypeOK, Invalidate
<1>4. delay' <= LockDelay
  BY TimeAssumption DEF TypeOK, SessionBacked, Invalidate
<1> QED  BY <1>1, <1>2, <1>3, <1>4 DEF TypeOK, SessionBacked

LEMMA NextSessionBacked ==
  ASSUME TypeOK, SessionBacked, [Next]_vars
  PROVE  SessionBacked'
<1> USE TimeAssumption
\* All that a processor does is to take the key with a live session, or free it.
<1>1. ASSUME NEW p \in Instances, Processor(p) \/ LateRelease(p)
      PROVE  SessionBacked'
  <2>1. UNCHANGED <<main, session, age, delay>>
    BY <1>1 DEF Processor, Select, Acquire, AcquireRefused, AcquireLost, Wake, BeginProcess,
                EndProcess, Release, ReleaseFails, LateRelease, procVars, consulVars
  <2>2. \/ holder' \in {holder, None}
        \/ Grantable(p) /\ holder' = p
    BY <1>1 DEF Processor, Select, Acquire, AcquireRefused, AcquireLost, Wake, BeginProcess,
                EndProcess, Release, ReleaseFails, LateRelease, Freed, consulVars
  <2>3. CASE holder' \in {holder, None}
    BY <2>1, <2>3 DEF SessionBacked
  <2>4. CASE Grantable(p) /\ holder' = p
    BY <2>1, <2>4 DEF SessionBacked, Grantable
  <2> QED  BY <2>2, <2>3, <2>4
<1>2. ASSUME NEW p \in Instances, ExpireSession(p)
      PROVE  SessionBacked'
  BY <1>2, InvalidatingKeepsSessions DEF SessionBacked, ExpireSession, procVars
<1>3. ASSUME NEW p \in Instances, Start(p)
      PROVE  SessionBacked'
  BY <1>3 DEF TypeOK, SessionBacked, Start
<1>4. ASSUME NEW p \in Instances, StartFails(p) \/ Cancel(p) \/ Die(p)
      PROVE  SessionBacked'
  <2>1. UNCHANGED consulVars /\ \A q \in Instances : main'[q] = "off" => main[q] = "off"
    BY <1>4 DEF TypeOK, StartFails, Cancel, Die
  <2> QED  BY <2>1 DEF SessionBacked, consulVars
<1>5. ASSUME NEW p \in Instances, CloseProvider(p)
      PROVE  SessionBacked'
  <2>1. main[p] # "off" /\ \A q \in Instances : main'[q] = "off" => main[q] = "off"
    BY <1>5 DEF TypeOK, CloseProvider
  <2>2. CASE UNCHANGED consulVars
    BY <2>1, <2>2 DEF SessionBacked, consulVars
  <2> QED  BY <1>5, <2>1, <2>2, InvalidatingKeepsSessions DEF CloseProvider
<1>6. CASE Tick
  <2>1. \A q \in Instances : age'[q] <= MaxAge
    BY <1>6 DEF Tick, TypeOK, SessionBacked, MaxAge
  <2>2. delay' <= delay /\ (delay = 0 => delay' = 0) /\ UNCHANGED <<main, session, holder>>
    BY <1>6 DEF Tick, Down, TypeOK
  <2>3. delay' \in Nat /\ delay \in Nat
    BY <1>6 DEF Tick, Down, TypeOK
  <2> QED  BY <2>1, <2>2, <2>3 DEF SessionBacked
<1>7. CASE UNCHANGED vars
  BY <1>7 DEF SessionBacked, vars
<1> QED  BY <1>1, <1>2, <1>3, <1>4, <1>5, <1>6, <1>7 DEF Next, Main

LEMMA SessionBackedAlways == Spec => [](TypeOK /\ SessionBacked)
<1>1. Init => SessionBacked
  BY TimeAssumption DEF Init, SessionBacked, MaxAge
<1>2. TypeOK /\ SessionBacked /\ [Next]_vars => SessionBacked'
  BY NextSessionBacked
<1> QED  BY <1>1, <1>2, TypeCorrect, PTL DEF Spec

\* How long it takes at most until the key may be granted to anybody, if nobody
\* does anything with it.
FreeIn == IF holder = None THEN delay ELSE (MaxAge - age[holder]) + LockDelay

\* The bounded form of DeadHolderIsFreed: nothing but a grant puts off the
\* time when the key comes free, and every unit of time brings it nearer.
FreedInTime ==
  [][/\ FreeIn' \in 0 .. MaxAge + LockDelay
     /\ holder' \in {holder, None} => FreeIn' <= FreeIn
     /\ Tick /\ FreeIn > 0 => FreeIn' = FreeIn - 1]_vars

\* A processor whose session has ended is not granted the lock any more.
EndedStaysEnded ==
  \A p \in Instances :
    session[p] = "gone" =>
      session'[p] = "gone" /\ holder' # p /\ (pc'[p] = "granted" => pc[p] = "granted")
EndedForGood == [][EndedStaysEnded]_vars

LEMMA FreeInType ==
  ASSUME TypeOK, SessionBacked
  PROVE  FreeIn \in 0 .. MaxAge + LockDelay
BY TimeAssumption DEF TypeOK, SessionBacked, FreeIn, MaxAge

\* An ended session leaves the key under its delay, or what is left of one.
LEMMA InvalidatingFrees ==
  ASSUME TypeOK, SessionBacked, NEW p \in Instances, Invalidate(p)
  PROVE  FreeIn' <= FreeIn
<1> USE TimeAssumption DEF TypeOK, SessionBacked, Invalidate, Freed, FreeIn, MaxAge
<1>1. CASE holder = p
  BY <1>1
<1>2. CASE holder # p
  BY <1>2
<1> QED  BY <1>1, <1>2

\* A session that backs the key ages with every tick, and a delay runs out.
LEMMA TickFrees ==
  ASSUME TypeOK, SessionBacked, Tick
  PROVE  FreeIn' <= FreeIn /\ (FreeIn > 0 => FreeIn' = FreeIn - 1)
<1> USE TimeAssumption DEF TypeOK, SessionBacked, FreeIn, MaxAge
<1>1. CASE holder = None
  BY <1>1 DEF Tick, Down
<1>2. CASE holder # None
  BY <1>2 DEF Tick
<1> QED  BY <1>1, <1>2

LEMMA StepFrees ==
  ASSUME TypeOK, SessionBacked, Next, holder' \in {holder, None}
  PROVE  FreeIn' <= FreeIn
<1> USE TimeAssumption
<1>1. FreeIn \in Nat
  BY FreeInType, TimeAssumption DEF MaxAge
\* A key that is freed without its session's end has no delay.
<1>2. ASSUME UNCHANGED <<age, delay>>
      PROVE  FreeIn' <= FreeIn
  BY <1>1, <1>2 DEF TypeOK, SessionBacked, FreeIn, MaxAge
<1>3. ASSUME NEW p \in Instances, Processor(p) \/ LateRelease(p)
      PROVE  FreeIn' <= FreeIn
  BY <1>2, <1>3 DEF Processor, Select, Acquire, AcquireRefused, AcquireLost, Wake,
                    BeginProcess, EndProcess, Release, ReleaseFails, LateRelease, procVars,
                    consulVars
<1>4. ASSUME NEW p \in Instances, ExpireSession(p)
      PROVE  FreeIn' <= FreeIn
  BY <1>4, InvalidatingFrees DEF ExpireSession
<1>5. ASSUME NEW p \in Instances, Main(p)
      PROVE  FreeIn' <= FreeIn
  <2>1. UNCHANGED <<age, delay>> \/ Invalidate(p)
    BY <1>5 DEF Main, Start, StartFails, Cancel, CloseProvider, Die, consulVars
  <2> QED  BY <2>1, <1>2, InvalidatingFrees
<1> QED  BY <1>3, <1>4, <1>5, TickFrees DEF Next

\* The key of a holder that has died, or has lost its release, comes free
\* within MaxAge + LockDelay: nothing but a grant puts it off, and time that
\* passes brings it nearer (consul.go:27-33; the bounded form of
\* DeadHolderIsFreed).
THEOREM KeyIsFreedInTime == Spec => FreedInTime
<1>1. ASSUME TypeOK, SessionBacked, TypeOK', SessionBacked', [Next]_vars
      PROVE  [/\ FreeIn' \in 0 .. MaxAge + LockDelay
              /\ holder' \in {holder, None} => FreeIn' <= FreeIn
              /\ Tick /\ FreeIn > 0 => FreeIn' = FreeIn - 1]_vars
  <2>1. FreeIn' \in 0 .. MaxAge' + LockDelay
    BY <1>1, TimeAssumption DEF TypeOK, SessionBacked, FreeIn, MaxAge
  <2> QED  BY <1>1, <2>1, StepFrees, TickFrees DEF MaxAge
<1> QED  BY <1>1, SessionBackedAlways, PTL DEF Spec, FreedInTime

\* A session is never renewed or replaced: once it has ended, its processor
\* holds the key no more and is not granted it again (consul.go:27, with
\* nothing that renews it).
THEOREM EndedSessionsStayEnded == Spec => EndedForGood
<1>1. ASSUME TypeOK, SessionBacked, SessionBacked', Next,
             NEW p \in Instances, session[p] = "gone"
      PROVE  session'[p] = "gone" /\ holder' # p /\ (pc'[p] = "granted" => pc[p] = "granted")
  <2>1. session'[p] = "gone"
    <3>1. ASSUME NEW q \in Instances, Processor(q) \/ LateRelease(q) \/ ExpireSession(q)
          PROVE  session'[p] = "gone"
      BY <1>1, <3>1 DEF Processor, Select, Acquire, AcquireRefused, AcquireLost, Wake,
                        BeginProcess, EndProcess, Release, ReleaseFails, LateRelease,
                        ExpireSession, Invalidate, TypeOK, procVars, consulVars
    <3>2. ASSUME NEW q \in Instances, Main(q)
          PROVE  session'[p] = "gone"
      BY <1>1, <3>2 DEF Main, Start, StartFails, Cancel, CloseProvider, Die, Invalidate,
                        TypeOK, SessionBacked, consulVars
    <3> QED  BY <1>1, <3>1, <3>2 DEF Next, Tick
  <2>2. holder' # p
    BY <1>1, <2>1, TimeAssumption DEF SessionBacked
  <2>3. pc'[p] = "granted" => pc[p] = "granted"
    <3>1. ASSUME NEW q \in Instances, Processor(q)
          PROVE  pc'[p] = "granted" => pc[p] = "granted"
      BY <1>1, <3>1 DEF Processor, Select, Acquire, AcquireRefused, AcquireLost, Sleep, Wake,
                        BeginProcess, EndProcess, Release, ReleaseFails, Grantable, Goto,
                        TypeOK
    <3>2. ASSUME NEW q \in Instances, Main(q) \/ LateRelease(q) \/ ExpireSession(q)
          PROVE  pc'[p] = "granted" => pc[p] = "granted"
      BY <1>1, <3>2 DEF Main, Start, StartFails, Cancel, CloseProvider, Die, LateRelease,
                        ExpireSession, Goto, TypeOK, procVars
    <3> QED  BY <1>1, <3>1, <3>2 DEF Next, Tick
  <2> QED  BY <2>1, <2>2, <2>3
<1>2. TypeOK /\ SessionBacked /\ SessionBacked' /\ [Next]_vars => [EndedStaysEnded]_vars
  BY <1>1 DEF EndedStaysEnded
<1> QED  BY <1>2, SessionBackedAlways, PTL DEF Spec, EndedForGood

-----------------------------------------------------------------------------
(* Why a processor returns *)

\* What a processor in a wait has still to wait, and that the time it may take
\* from its grant to its end is enough: time never stops under one that waits.
Paced ==
  \A p \in Instances :
    /\ pc[p] = "granted" => held[p] <= MaxLatency
    /\ pc[p] = "processing" => held[p] + timer[p] <= MaxHold
    /\ pc[p] = "sleeping" => timer[p] <= RetryDelay

LEMMA PacedStep == TypeOK /\ Paced /\ [Next]_vars => Paced'
<1> SUFFICES ASSUME TypeOK, Paced, [Next]_vars
             PROVE  Paced'
  OBVIOUS
<1> USE TimeAssumption DEF TypeOK, Paced
<1>1. ASSUME NEW p \in Instances, Select(p) \/ Acquire(p) \/ Wake(p) \/ EndProcess(p)
      PROVE  Paced'
  BY <1>1 DEF Select, Acquire, Wake, EndProcess, Goto
<1>2. ASSUME NEW p \in Instances, AcquireRefused(p) \/ AcquireLost(p)
      PROVE  Paced'
  BY <1>2 DEF AcquireRefused, AcquireLost, Sleep, Goto
<1>3. ASSUME NEW p \in Instances, BeginProcess(p)
      PROVE  Paced'
  BY <1>3 DEF BeginProcess, Goto, MaxHold
<1>4. ASSUME NEW p \in Instances, Release(p) \/ ReleaseFails(p)
      PROVE  Paced'
  BY <1>4 DEF Release, ReleaseFails, Goto
<1>5. ASSUME NEW p \in Instances, Start(p) \/ Die(p)
      PROVE  Paced'
  BY <1>5 DEF Start, Die, Goto
<1>6. CASE UNCHANGED <<pc, timer, held>>
  BY <1>6
<1>7. CASE Tick
  <2>1. ASSUME NEW p \in Instances, pc[p] = "processing"
        PROVE  held'[p] + timer'[p] <= MaxHold
    BY <1>7, <2>1, MaxHoldType DEF Tick, Inside, Down
  <2> QED  BY <1>7, <2>1 DEF Tick, Inside, Down
<1>8. ASSUME NEW p \in Instances,
             StartFails(p) \/ Cancel(p) \/ CloseProvider(p) \/ LateRelease(p) \/ ExpireSession(p)
      PROVE  UNCHANGED <<pc, timer, held>>
  BY <1>8 DEF StartFails, Cancel, CloseProvider, LateRelease, ExpireSession, procVars
<1> QED
  BY <1>1, <1>2, <1>3, <1>4, <1>5, <1>6, <1>7, <1>8 DEF Next, vars, Processor, Main

\* How many steps of the loop are left for a processor that is told to stop.
StepsLeft(p) ==
  CASE pc[p] = "acquire"    -> 5
    [] pc[p] = "granted"    -> 4
    [] pc[p] = "processing" -> 3
    [] pc[p] = "releasing"  -> 2
    [] pc[p] = "sleeping"   -> 2
    [] pc[p] = "select"     -> 1
    [] OTHER -> 0

\* What it has to wait before the next of them, and at most.
Waits(p) == pc[p] \in {"processing", "sleeping"} /\ timer[p] > 0
LongestWait(p) == IF pc[p] = "processing" THEN MaxHold ELSE RetryDelay

\* The bounded form of ProcessorReturns.  After the signal a processor has at
\* most five steps of its loop to go, each of them brings it nearer to its
\* return, whatever becomes of its session, the lock and its calls of Consul,
\* and nothing takes it back.  Its waits are bounded, and every unit of time
\* shortens the one it is in.
ReturnShrinks ==
  \A p \in Instances : CtxDone(p) =>
    /\ StepsLeft(p) <= 5
    /\ StepsLeft(p)' <= StepsLeft(p)
    /\ Processor(p) => StepsLeft(p)' < StepsLeft(p)
    /\ Waits(p) => timer[p] <= LongestWait(p) /\ timer'[p] <= timer[p]
    /\ Waits(p) /\ Tick => timer'[p] = timer[p] - 1
ReturnIsBounded == [][ReturnShrinks]_vars

\* Nothing but such a wait holds a processor up that has not returned, and
\* what the clock waits for is never a processor that waits for the clock.
OnlyWaitsHoldItUp ==
  \A p \in Instances : CtxDone(p) /\ pc[p] # "returned" =>
    /\ \/ Waits(p)
       \/ pc[p] \in {"select", "acquire", "granted", "releasing"}
       \/ pc[p] \in {"processing", "sleeping"} /\ timer[p] = 0
    /\ Waits(p) /\ pc[p] = "processing" => held[p] < MaxHold

LEMMA ProcessorNears ==
  ASSUME TypeOK, NEW p \in Instances, CtxDone(p), Processor(p)
  PROVE  StepsLeft(p)' < StepsLeft(p) /\ ~ Waits(p)
<1> USE DEF TypeOK, CtxDone, StepsLeft, Waits, Goto
<1>1. CASE Select(p)
  BY <1>1 DEF Select
<1>2. CASE Acquire(p) \/ BeginProcess(p) \/ EndProcess(p)
  BY <1>2 DEF Acquire, BeginProcess, EndProcess
<1>3. CASE AcquireRefused(p) \/ AcquireLost(p)
  BY <1>3 DEF AcquireRefused, AcquireLost, Sleep
<1>4. CASE Wake(p) \/ Release(p) \/ ReleaseFails(p)
  BY <1>4 DEF Wake, Release, ReleaseFails
<1> QED  BY <1>1, <1>2, <1>3, <1>4 DEF Processor

\* Its main may end it; all others leave it where it is.
LEMMA OthersLeaveItThere ==
  ASSUME TypeOK, NEW p \in Instances, CtxDone(p), [Next]_vars, ~ Processor(p)
  PROVE  /\ pc'[p] = pc[p] \/ pc'[p] = "off"
         /\ timer'[p] \in {timer[p], 0} \/ Tick
<1> USE DEF TypeOK, CtxDone
<1>1. ASSUME NEW q \in Instances, q # p, Processor(q)
      PROVE  pc'[p] = pc[p] /\ timer'[p] = timer[p]
  BY <1>1 DEF Processor, Select, Acquire, AcquireRefused, AcquireLost, Sleep, Wake,
              BeginProcess, EndProcess, Release, ReleaseFails, Goto
<1>2. ASSUME NEW q \in Instances, Main(q) \/ LateRelease(q) \/ ExpireSession(q)
      PROVE  /\ pc'[p] = pc[p] \/ pc'[p] = "off"
             /\ timer'[p] \in {timer[p], 0}
  BY <1>2 DEF Main, Start, StartFails, Cancel, CloseProvider, Die, Goto, LateRelease,
              ExpireSession, procVars
<1>3. CASE Tick
  BY <1>3 DEF Tick
<1>4. CASE UNCHANGED vars
  BY <1>4 DEF vars
<1> QED  BY <1>1, <1>2, <1>3, <1>4 DEF Next

LEMMA PacedAlways == Spec => []Paced
<1>1. Init => Paced
  BY DEF Init, Paced
<1>2. IInv => TypeOK
  BY DEF IInv
<1> QED  BY <1>1, <1>2, PacedStep, InvAlways, PTL DEF Spec

\* A processor is gone soon after the signal (processor.go:31-57): it makes one
\* more round at most, with one processing or one sleep in it.
THEOREM ProcessorTakesBoundedWork == Spec => ReturnIsBounded
<1>1. ASSUME TypeOK, TypeOK', Paced, [Next]_vars
      PROVE  [ReturnShrinks]_vars
  <2> SUFFICES ASSUME NEW p \in Instances, CtxDone(p)
               PROVE  /\ StepsLeft(p) <= 5
                      /\ StepsLeft(p)' <= StepsLeft(p)
                      /\ Processor(p) => StepsLeft(p)' < StepsLeft(p)
                      /\ Waits(p) => timer[p] <= LongestWait(p) /\ timer'[p] <= timer[p]
                      /\ Waits(p) /\ Tick => timer'[p] = timer[p] - 1
    BY DEF ReturnShrinks
  <2>1. StepsLeft(p) \in 0 .. 5 /\ StepsLeft(p)' \in 0 .. 5
    BY <1>1 DEF TypeOK, StepsLeft
  <2>2. Waits(p) => timer[p] <= LongestWait(p)
    BY <1>1, MaxHoldType, TimeAssumption DEF TypeOK, Paced, Waits, LongestWait
  <2>3. CASE Processor(p)
    <3>1. StepsLeft(p)' < StepsLeft(p) /\ ~ Waits(p)
      BY <1>1, <2>3, ProcessorNears
    <3> QED  BY <2>1, <3>1
  <2>4. CASE ~ Processor(p)
    <3>1. StepsLeft(p)' <= StepsLeft(p)
      BY <1>1, <2>4, OthersLeaveItThere DEF TypeOK, StepsLeft
    <3>2. Tick /\ timer[p] > 0 => timer'[p] = timer[p] - 1
      BY <1>1 DEF TypeOK, Tick, Down
    <3>3. Waits(p) => timer'[p] <= timer[p]
      BY <1>1, <2>4, <3>2, OthersLeaveItThere DEF TypeOK, Waits
    <3> QED  BY <2>1, <2>2, <2>4, <3>1, <3>2, <3>3 DEF Waits
  <2> QED  BY <2>3, <2>4
<1>2. IInv => TypeOK
  BY DEF IInv
<1> QED  BY <1>1, <1>2, InvAlways, PacedAlways, PTL DEF Spec, ReturnIsBounded

\* A processor is started before its main can be told to stop, and ends with
\* its process.
LEMMA StartedAlways == Spec => [](\A p \in Instances : CtxDone(p) => pc[p] # "off")
<1> DEFINE Started == \A p \in Instances : Running(p) => pc[p] # "off"
<1>1. Init => Started
  BY DEF Init, Running
<1>2. ASSUME TypeOK, Started, [Next]_vars
      PROVE  Started'
  <2> USE DEF TypeOK, Running
  <2>1. ASSUME NEW p \in Instances, Processor(p)
        PROVE  Started'
    BY <1>2, <2>1 DEF Processor, Select, Acquire, AcquireRefused, AcquireLost, Sleep, Wake,
                      BeginProcess, EndProcess, Release, ReleaseFails, Goto
  <2>2. ASSUME NEW p \in Instances, Main(p) \/ LateRelease(p) \/ ExpireSession(p)
        PROVE  Started'
    BY <1>2, <2>2 DEF Main, Start, StartFails, Cancel, CloseProvider, Die, Goto, LateRelease,
                      ExpireSession, procVars
  <2>3. CASE Tick \/ UNCHANGED vars
    BY <1>2, <2>3 DEF Tick, vars
  <2> QED  BY <1>2, <2>1, <2>2, <2>3 DEF Next
<1>3. IInv => TypeOK
  BY DEF IInv
<1>4. Started => \A p \in Instances : CtxDone(p) => pc[p] # "off"
  BY DEF Running, CtxDone
<1> HIDE DEF Started
<1> QED  BY <1>1, <1>2, <1>3, <1>4, InvAlways, PTL DEF Spec

\* Nobody holds a processor up: not the lock, which it does not wait for, not
\* its session, not main (processor.go:31-57).
THEOREM ProcessorIsNeverStuck == Spec => []OnlyWaitsHoldItUp
<1>1. TypeOK /\ Paced /\ (\A p \in Instances : CtxDone(p) => pc[p] # "off") => OnlyWaitsHoldItUp
  BY MaxHoldType DEF TypeOK, Paced, OnlyWaitsHoldItUp, Waits
<1>2. IInv => TypeOK
  BY DEF IInv
<1> QED  BY <1>1, <1>2, InvAlways, PacedAlways, StartedAlways, PTL
=============================================================================
