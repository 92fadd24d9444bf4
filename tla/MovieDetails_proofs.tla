------------------------- MODULE MovieDetails_proofs -------------------------
(***************************************************************************)
(* The safety properties of GetMovieDetails for any number of calls and    *)
(* metadata instances, any number of attempts and any faults.              *)
(*                                                                         *)
(* What a call has learned stays true because records are only added and   *)
(* an outage of its instance takes a call out of steady: Good says so for  *)
(* each call at each point of its handler.  A call that is answered OK is  *)
(* an atomic read of one instant (ReadIsImplemented), and what is left to  *)
(* do for a call shrinks with every step of its handler (Work).            *)
(***************************************************************************)
EXTENDS MovieDetails, TLAPS

\* What one call may rely on.
Good(c) ==
  /\ begun[c] \subseteq records
  /\ pc[c] = "rate" \/ code[c] = "OK" => "metadata" \in records
  /\ code[c] = "OK" /\ "rating" \in begun[c] => rating[c] = "value"
  /\ pc[c] \in {"idle", "connect"} => addr[c] = None /\ tries[c] = 0 /\ c \notin steady
  /\ pc[c] = "fetch" => tries[c] < MaxRetries
  /\ c \in steady => addr[c] \in serving
  /\ (tries[c] > 0 \/ pc[c] \in {"sleep", "panicked"})
       => c \notin steady \/ ctx[c] = "deadline"
  /\ ctx[c] # "live" => c \in faulted
  /\ tries[c] > 0 \/ pc[c] \in {"sleep", "panicked"} => gateway = "grpc"
  /\ gateway = "grpc" /\ code[c] = "Internal" /\ "metadata" \in begun[c] /\ c \notin faulted => addr[c] = None

IInv == TypeOK /\ \A c \in Calls : Good(c)

-----------------------------------------------------------------------------
LEMMA InitInv == Init => IInv
BY MovieDetailsAssumption DEF Init, IInv, TypeOK, Good, Points, Codes, Records, None

\* A call that a step leaves alone stays good.
LEMMA OthersStayGood ==
  ASSUME IInv, NEW d \in Calls, UNCHANGED <<gateway, records, serving>>,
         UNCHANGED <<pc[d], addr[d], tries[d], rating[d], code[d], ctx[d], begun[d]>>,
         d \in steady' <=> d \in steady, d \in faulted' <=> d \in faulted
  PROVE  Good(d)'
BY DEF IInv, Good

LEMMA NextInv == IInv /\ [Next]_vars => IInv'
<1> SUFFICES ASSUME IInv, [Next]_vars
             PROVE  IInv'
  OBVIOUS
<1> USE MovieDetailsAssumption
<1>0. TypeOK /\ \A c \in Calls : Good(c)
  BY DEF IInv
<1>1. ASSUME NEW c \in Calls, Receive(c)
     PROVE  IInv'
  <2>1. TypeOK'
    BY <1>0, <1>1 DEF TypeOK, Points, Codes, None, Receive, Goto, Return, Continue,
                      worldVars
  <2>2. Good(c)'
    BY <1>0, <1>1 DEF TypeOK, Good, Receive, Goto, Return, Continue, worldVars, None
  <2>3. ASSUME NEW d \in Calls, d # c
        PROVE  Good(d)'
    BY <1>0, <1>1, <2>3, OthersStayGood DEF TypeOK, Receive, Goto, Return,
                                            Continue, worldVars
  <2> QED  BY <2>1, <2>2, <2>3 DEF IInv
<1>2. ASSUME NEW c \in Calls, Connect(c)
     PROVE  IInv'
  <2>1. TypeOK'
    BY <1>0, <1>2 DEF TypeOK, Points, Codes, None, Connect, Goto, Return, Continue,
                      worldVars
  <2>2. Good(c)'
    BY <1>0, <1>2 DEF TypeOK, Good, Connect, Goto, Return, Continue, worldVars, None
  <2>3. ASSUME NEW d \in Calls, d # c
        PROVE  Good(d)'
    BY <1>0, <1>2, <2>3, OthersStayGood DEF TypeOK, Connect, Goto, Return,
                                            Continue, worldVars
  <2> QED  BY <2>1, <2>2, <2>3 DEF IInv
<1>3. ASSUME NEW c \in Calls, Fetch(c)
     PROVE  IInv'
  <2>1. TypeOK'
    BY <1>0, <1>3 DEF TypeOK, Points, Codes, None, Good, Retriable, Fetch, Goto, Return, Continue,
                      worldVars
  <2>2. Good(c)'
    BY <1>0, <1>3 DEF TypeOK, Good, Fetch, Goto, Return, Continue, worldVars, None,
                      Answers, Retriable
  <2>3. ASSUME NEW d \in Calls, d # c
        PROVE  Good(d)'
    BY <1>0, <1>3, <2>3, OthersStayGood DEF TypeOK, Fetch, Goto, Return, Continue,
                                            worldVars
  <2> QED  BY <2>1, <2>2, <2>3 DEF IInv
<1>4. ASSUME NEW c \in Calls, Wake(c)
     PROVE  IInv'
  <2>1. TypeOK'
    BY <1>0, <1>4 DEF TypeOK, Points, Wake, Goto, Return, Continue,
                      worldVars
  <2>2. Good(c)'
    BY <1>0, <1>4 DEF TypeOK, Good, Wake, Goto, Return, Continue, worldVars, None
  <2>3. ASSUME NEW d \in Calls, d # c
        PROVE  Good(d)'
    BY <1>0, <1>4, <2>3, OthersStayGood DEF TypeOK, Wake, Goto, Return, Continue,
                                            worldVars
  <2> QED  BY <2>1, <2>2, <2>3 DEF IInv
<1>5. ASSUME NEW c \in Calls, GiveUp(c)
     PROVE  IInv'
  <2>1. TypeOK'
    BY <1>0, <1>5 DEF TypeOK, Points, GiveUp, Goto, Return, Continue,
                      worldVars
  <2>2. Good(c)'
    BY <1>0, <1>5 DEF TypeOK, Good, GiveUp, Goto, Return, Continue, worldVars, None
  <2>3. ASSUME NEW d \in Calls, d # c
        PROVE  Good(d)'
    BY <1>0, <1>5, <2>3, OthersStayGood DEF TypeOK, GiveUp, Goto, Return, Continue,
                                            worldVars
  <2> QED  BY <2>1, <2>2, <2>3 DEF IInv
<1>6. ASSUME NEW c \in Calls, Rate(c)
     PROVE  IInv'
  <2>1. TypeOK'
    BY <1>0, <1>6 DEF TypeOK, Points, Codes, None, Rate, Goto, Return, Continue,
                      worldVars
  <2>2. Good(c)'
    BY <1>0, <1>6 DEF TypeOK, Good, Rate, Goto, Return, Continue, worldVars, None
  <2>3. ASSUME NEW d \in Calls, d # c
        PROVE  Good(d)'
    BY <1>0, <1>6, <2>3, OthersStayGood DEF TypeOK, Rate, Goto, Return, Continue,
                                            worldVars
  <2> QED  BY <2>1, <2>2, <2>3 DEF IInv
<1>7. ASSUME NEW c \in Calls, Lost(c)
     PROVE  IInv'
  <2>1. TypeOK'
    BY <1>0, <1>7 DEF TypeOK, Points, Codes, None, Lost, Goto, Return, Continue,
                      worldVars
  <2>2. Good(c)'
    BY <1>0, <1>7 DEF TypeOK, Good, Lost, Goto, Return, Continue, worldVars, None
  <2>3. ASSUME NEW d \in Calls, d # c
        PROVE  Good(d)'
    BY <1>0, <1>7, <2>3, OthersStayGood DEF TypeOK, Lost, Goto, Return, Continue,
                                            worldVars
  <2> QED  BY <2>1, <2>2, <2>3 DEF IInv
<1>8. ASSUME NEW c \in Calls, Take(c)
     PROVE  IInv'
  <2>1. TypeOK'
    BY <1>0, <1>8 DEF TypeOK, Points, Codes, Records, None, Take, Goto, Return,
                      Continue, worldVars, Good
  <2>2. Good(c)'
    BY <1>0, <1>8 DEF TypeOK, Good, Take, Goto, Return, Continue, worldVars, None
  <2>3. ASSUME NEW d \in Calls, d # c
        PROVE  Good(d)'
    BY <1>0, <1>8, <2>3, OthersStayGood DEF TypeOK, Take, Goto, Return, Continue,
                                            worldVars
  <2> QED  BY <2>1, <2>2, <2>3 DEF IInv
<1>9. ASSUME NEW c \in Calls, EndContext(c)
     PROVE  IInv'
  <2>1. TypeOK'
    BY <1>0, <1>9 DEF TypeOK, Points, Codes, Records, None, EndContext, Goto,
                      Return, Continue, worldVars, Good
  <2>2. Good(c)'
    BY <1>0, <1>9 DEF TypeOK, Good, EndContext, Goto, Return, Continue, worldVars,
                      None
  <2>3. ASSUME NEW d \in Calls, d # c
        PROVE  Good(d)'
    BY <1>0, <1>9, <2>3, OthersStayGood DEF TypeOK, EndContext, Goto, Return,
                                            Continue, worldVars
  <2> QED  BY <2>1, <2>2, <2>3 DEF IInv
<1>10. ASSUME NEW i \in Instances, StartInstance(i) \/ Relist(i)
      PROVE  IInv'
  BY <1>0, <1>10 DEF IInv, TypeOK, Good, StartInstance, Relist, callVars
\* An outage is remembered by the calls of the instance that stops.
<1>11. ASSUME NEW i \in Instances, StopInstance(i)
      PROVE  IInv'
  <2>1. TypeOK'
    BY <1>0, <1>11 DEF TypeOK, StopInstance
  <2>2. ASSUME NEW c \in Calls
        PROVE  Good(c)'
    BY <1>0, <1>11 DEF TypeOK, Good, StopInstance
  <2> QED  BY <2>1, <2>2 DEF IInv
<1>12. ASSUME NEW r \in Records, AddRecord(r)
      PROVE  IInv'
  BY <1>0, <1>12 DEF IInv, TypeOK, Good, AddRecord, callVars
<1>13. CASE Restart \/ UNCHANGED vars
  <2>1. TypeOK'
    BY <1>0, <1>13 DEF TypeOK, Restart, vars, callVars
  <2>2. ASSUME NEW c \in Calls
        PROVE  Good(c)'
    BY <1>13, <2>2, OthersStayGood DEF Restart, vars, callVars
  <2> QED  BY <2>1, <2>2 DEF IInv
<1>14. ASSUME NEW c \in Calls, FetchOnce(c)
      PROVE  IInv'
  <2>1. TypeOK'
    BY <1>0, <1>14 DEF TypeOK, Points, Codes, None, FetchOnce, Goto, Return, Continue,
                       worldVars
  <2>2. Good(c)'
    BY <1>0, <1>14 DEF TypeOK, Good, FetchOnce, Goto, Return, Continue, worldVars, None,
                       Answers
  <2>3. ASSUME NEW d \in Calls, d # c
        PROVE  Good(d)'
    BY <1>0, <1>14, <2>3, OthersStayGood DEF TypeOK, FetchOnce, Goto, Return, Continue,
                                             worldVars
  <2> QED  BY <2>1, <2>2, <2>3 DEF IInv
<1>15. ASSUME NEW c \in Calls, Recover(c)
      PROVE  IInv'
  <2>1. TypeOK'
    BY <1>0, <1>15 DEF TypeOK, Points, Codes, None, Recover, Goto, Return, Continue,
                       worldVars
  <2>2. Good(c)'
    BY <1>0, <1>15 DEF TypeOK, Good, Recover, Goto, Return, Continue, worldVars, None
  <2>3. ASSUME NEW d \in Calls, d # c
        PROVE  Good(d)'
    BY <1>0, <1>15, <2>3, OthersStayGood DEF TypeOK, Recover, Goto, Return, Continue,
                                             worldVars
  <2> QED  BY <2>1, <2>2, <2>3 DEF IInv
<1>16. ASSUME NEW c \in Calls, Handle(c)
      PROVE  IInv'
  BY <1>2, <1>3, <1>4, <1>5, <1>6, <1>7, <1>14, <1>15, <1>16 DEF Handle
<1>17. ASSUME Next
       PROVE  IInv'
  BY <1>1, <1>8, <1>9, <1>10, <1>11, <1>12, <1>13, <1>16, <1>17 DEF Next
<1> QED  BY <1>13, <1>17

LEMMA Invariance == Spec => []IInv
BY InitInv, NextInv, PTL DEF Spec

-----------------------------------------------------------------------------
\* Types of the variables; a failed attempt is never counted beyond MaxRetries
\* (metadata.go:42-53).
THEOREM TypeCorrect == Spec => []TypeOK
BY Invariance, PTL DEF IInv

\* An OK answer has the rating of a movie that was rated when the call began
\* (controller.go:60-72).
THEOREM OkAnswersAreComplete == Spec => []OkIsComplete
<1>1. IInv => OkIsComplete
  BY DEF IInv, Good, OkIsComplete
<1> QED  BY Invariance, <1>1, PTL

\* Only an outage or a passed deadline brings the process down, and only with
\* the gRPC gateway (grpc/metadata.go:43-54, controller.go:58).
THEOREM PanicsNeedAnOutage == Spec => []PanicNeedsAnOutage
<1>1. IInv => PanicNeedsAnOutage
  BY DEF IInv, Good, PanicNeedsAnOutage
<1> QED  BY Invariance, <1>1, PTL

\* Without other faults a call for a stored movie that got an address is
\* never refused (metadata.go:43-53).
THEOREM OutagesAreHidden == Spec => []OutageIsHidden
<1>1. IInv => OutageIsHidden
  BY DEF IInv, Good, OutageIsHidden
<1> QED  BY Invariance, <1>1, PTL

-----------------------------------------------------------------------------
(* The promise to the caller *)

\* A step of one call's handler moves the status of no other.
LEMMA StatusStep ==
  ASSUME TypeOK, TypeOK', NEW c \in Calls,
         \A d \in Calls \ {c} : pc'[d] = pc[d] /\ code'[d] = code[d]
  PROVE  Status' = [Status EXCEPT ![c] = Status'[c]]
<1>1. \A d \in Calls : Status'[d] = [Status EXCEPT ![c] = Status'[c]][d]
  BY DEF Status
<1>2. Status' = [d \in Calls |-> Status'[d]] /\ Status = [d \in Calls |-> Status[d]]
  BY DEF Status
<1> QED  BY <1>1, <1>2

\* A step that leaves every call open, or every call alone.
LEMMA StatusKept ==
  ASSUME \A d \in Calls : Status'[d] = Status[d]
  PROVE  Status' = Status
<1>1. Status' = [d \in Calls |-> Status'[d]] /\ Status = [d \in Calls |-> Status[d]]
  BY DEF Status
<1> QED  BY <1>1

LEMMA StepRefines ==
  ASSUME IInv, TypeOK', [Next]_vars
  PROVE  [Promise!Next]_(Promise!vars)
<1> USE DEF Promise!vars
<1>0. TypeOK /\ \A c \in Calls : Good(c)
  BY DEF IInv
<1>1. ASSUME NEW c \in Calls, Receive(c)
      PROVE  Promise!Ask(c)
  <2>1. Status' = [Status EXCEPT ![c] = Status'[c]]
    BY <1>0, <1>1, StatusStep DEF TypeOK, Receive, Goto, Return, Continue
  <2>2. Status[c] = "idle" /\ Status'[c] \in {"open"} \cup Promise!Errors
    BY <1>0, <1>1 DEF TypeOK, Receive, Goto, Return, Continue, Status, Promise!Errors
  <2>3. UNCHANGED <<rating, records>>
    BY <1>1 DEF Receive, worldVars
  <2> QED  BY <2>1, <2>2, <2>3 DEF Promise!Ask
\* Points of the handler at which nothing is decided.
<1>2. ASSUME NEW c \in Calls, Wake(c) \/ GiveUp(c) \/ EndContext(c)
      PROVE  UNCHANGED <<Status, rating, records>>
  <2>1. \A d \in Calls : Status'[d] = Status[d]
    BY <1>0, <1>2 DEF TypeOK, Wake, GiveUp, EndContext, Goto, Continue, Status
  <2> QED  BY <1>2, <2>1, StatusKept DEF Wake, GiveUp, EndContext, worldVars
\* Points at which a call may be refused.
<1>3. ASSUME NEW c \in Calls,
             Connect(c) \/ Fetch(c) \/ FetchOnce(c) \/ Recover(c) \/ Lost(c)
      PROVE  Promise!Refuse(c) \/ UNCHANGED <<Status, rating, records>>
  <2>1. Status' = [Status EXCEPT ![c] = Status'[c]]
    BY <1>0, <1>3, StatusStep DEF TypeOK, Connect, Fetch, FetchOnce, Recover, Lost, Goto,
                                  Return, Continue
  <2>2. Status[c] = "open" /\ Status'[c] \in {"open"} \cup Promise!Errors
    BY <1>0, <1>3 DEF TypeOK, Points, Connect, Fetch, FetchOnce, Recover, Lost, Goto,
                      Return, Continue, Status, Promise!Errors
  <2>3. UNCHANGED <<rating, records>>
    BY <1>3 DEF Connect, Fetch, FetchOnce, Recover, Lost, worldVars
  <2>4. Status \in [Calls -> {"idle", "open"} \cup Codes]
    BY <1>0 DEF TypeOK, Status
  <2> QED  BY <2>1, <2>2, <2>3, <2>4 DEF Promise!Refuse
\* The instant of the read: the metadata is still there when the rating is
\* asked for.
<1>4. ASSUME NEW c \in Calls, Rate(c)
      PROVE  Promise!Get(c) \/ Promise!Refuse(c)
  <2>1. Status' = [Status EXCEPT ![c] = Status'[c]]
    BY <1>0, <1>4, StatusStep DEF TypeOK, Rate, Goto, Return
  <2>2. Status[c] = "open" /\ records' = records /\ "metadata" \in records
    BY <1>0, <1>4 DEF TypeOK, Rate, Status, worldVars, Good
  <2>3. CASE Return(c, "OK")
    <3>1. Status'[c] = "OK"
      BY <1>0, <2>3 DEF TypeOK, Return, Goto, Status
    <3>2. rating' = [rating EXCEPT ![c] = IF "rating" \in records THEN "value" ELSE "nil"]
      BY <1>0, <1>4, <2>3 DEF TypeOK, Rate, Return
    <3> QED  BY <2>1, <2>2, <3>1, <3>2 DEF Promise!Get
  <2>4. CASE Return(c, "Internal") /\ UNCHANGED rating
    <3>1. Status'[c] = "Internal"
      BY <1>0, <2>4 DEF TypeOK, Return, Goto, Status
    <3> QED  BY <2>1, <2>2, <2>4, <3>1 DEF Promise!Refuse, Promise!Errors
  <2> QED  BY <1>4, <2>3, <2>4 DEF Rate
<1>5. ASSUME NEW c \in Calls, Take(c)
      PROVE  Promise!Take(c)
  <2>1. Status' = [Status EXCEPT ![c] = Status'[c]]
    BY <1>0, <1>5, StatusStep DEF TypeOK, Take
  <2>2. Status[c] \notin {"idle", "open"} /\ Status'[c] = "idle"
    BY <1>0, <1>5 DEF TypeOK, Take, Status, Codes, None
  <2> QED  BY <1>5, <2>1, <2>2 DEF Promise!Take, Take, worldVars
<1>6. ASSUME NEW r \in Records, AddRecord(r)
      PROVE  Promise!AddRecord(r)
  BY <1>6 DEF AddRecord, callVars, Promise!AddRecord, Status
<1>7. ASSUME \/ \E i \in Instances : StartInstance(i) \/ StopInstance(i) \/ Relist(i)
             \/ Restart
             \/ UNCHANGED vars
      PROVE  UNCHANGED <<Status, rating, records>>
  BY <1>7 DEF StartInstance, StopInstance, Relist, Restart, vars, callVars, Status
<1> QED
  BY <1>1, <1>2, <1>3, <1>4, <1>5, <1>6, <1>7 DEF Next, Handle, Promise!Next

\* A call that is answered with details has read metadata and rating at one
\* instant, whatever instances, registry and contexts do meanwhile
\* (controller.go:45-74).
THEOREM ReadIsImplemented == Spec => ImplementsDetailsRead
<1>1. Init => Promise!Init
  BY DEF Init, Promise!Init, Status
<1>2. IInv /\ TypeOK' /\ [Next]_vars => [Promise!Next]_(Promise!vars)
  BY StepRefines
<1> QED
  BY Invariance, TypeCorrect, <1>1, <1>2, PTL DEF Spec, ImplementsDetailsRead, Promise!Spec

-----------------------------------------------------------------------------
\* How many steps of its handler a call may still take.
Work(c) ==
  CASE pc[c] = "connect"  -> 2 * MaxRetries + 3
    [] pc[c] = "fetch"    -> 2 * (MaxRetries - tries[c]) + 2
    [] pc[c] = "sleep"    -> 2 * (MaxRetries - tries[c]) + 3
    [] pc[c] = "rate"     -> 2
    [] pc[c] = "panicked" -> 1
    [] OTHER              -> 0

\* Every step of a handler leaves its call with less to do, and nobody else
\* ever gives it more: neither a failure nor an instance that comes and goes
\* starts the attempts anew.
WorkShrinks ==
  \A c \in Calls :
    /\ Work(c) \in 0 .. 2 * MaxRetries + 3
    /\ Handle(c) => Work(c)' < Work(c)
    /\ pc[c] # "idle" => Work(c)' <= Work(c)
CallsAreBounded == [][WorkShrinks]_vars

LEMMA WorkType ==
  ASSUME IInv, NEW c \in Calls
  PROVE  Work(c) \in 0 .. 2 * MaxRetries + 3
BY MovieDetailsAssumption DEF IInv, TypeOK, Points, Work

LEMMA HandlerWorks ==
  ASSUME IInv, IInv', NEW c \in Calls, Handle(c)
  PROVE  Work(c)' < Work(c)
<1> USE MovieDetailsAssumption DEF Work, Goto, Return, Continue
<1>0. TypeOK /\ TypeOK' /\ Good(c)
  BY DEF IInv
<1>1. CASE Connect(c)
  BY <1>0, <1>1 DEF TypeOK, Good, Connect
<1>2. CASE Fetch(c)
  BY <1>0, <1>2 DEF TypeOK, Good, Fetch
<1>3. CASE FetchOnce(c)
  BY <1>0, <1>3 DEF TypeOK, Good, FetchOnce
<1>4. CASE Wake(c) \/ GiveUp(c) \/ Recover(c)
  BY <1>0, <1>4 DEF TypeOK, Wake, GiveUp, Recover
<1>5. CASE Rate(c)
  BY <1>0, <1>5 DEF TypeOK, Rate
<1>6. CASE Lost(c)
  BY <1>0, <1>6 DEF TypeOK, Points, Lost
<1> QED  BY <1>1, <1>2, <1>3, <1>4, <1>5, <1>6 DEF Handle

\* What another call, a client or the world does changes neither the point
\* nor the attempts of a call that is on its way.
LEMMA OthersKeepWork ==
  ASSUME IInv, [Next]_vars, NEW c \in Calls, pc[c] # "idle", ~ Handle(c)
  PROVE  pc'[c] \in {pc[c], "idle"} /\ (pc'[c] = pc[c] => tries'[c] = tries[c])
<1>0. TypeOK
  BY DEF IInv
<1>1. ASSUME NEW d \in Calls, d # c, Receive(d) \/ Handle(d) \/ Take(d)
      PROVE  pc'[c] = pc[c] /\ tries'[c] = tries[c]
  BY <1>0, <1>1 DEF TypeOK, Receive, Handle, Connect, Fetch, FetchOnce, Wake, GiveUp, Recover,
                    Rate, Lost, Take, Goto, Return, Continue
<1>2. CASE Receive(c) \/ Take(c)
  BY <1>0, <1>2 DEF TypeOK, Receive, Take
<1>3. ASSUME UNCHANGED <<pc, tries>>
      PROVE  pc'[c] = pc[c] /\ tries'[c] = tries[c]
  BY <1>3
<1>4. ASSUME \/ \E d \in Calls : EndContext(d)
             \/ \E i \in Instances : StartInstance(i) \/ StopInstance(i) \/ Relist(i)
             \/ \E r \in Records : AddRecord(r)
             \/ Restart \/ UNCHANGED vars
      PROVE  UNCHANGED <<pc, tries>>
  BY <1>4 DEF EndContext, StartInstance, StopInstance, Relist, AddRecord, Restart, callVars,
              vars
<1> QED  BY <1>1, <1>2, <1>3, <1>4 DEF Next

\* A call of GetMovieDetails is over after 2 * MaxRetries + 3 steps of its
\* handler, whatever fails and whoever else runs (metadata.go:42-54,
\* controller.go:46-73): the reason why every call ends.
THEOREM CallsTakeBoundedWork == Spec => CallsAreBounded
<1>1. ASSUME IInv, IInv', [Next]_vars, NEW c \in Calls
      PROVE  /\ Work(c) \in 0 .. 2 * MaxRetries + 3
             /\ Handle(c) => Work(c)' < Work(c)
             /\ pc[c] # "idle" => Work(c)' <= Work(c)
  <2>1. Work(c) \in Nat /\ Work(c)' \in Nat
    <3>1. Work(c)' \in 0 .. 2 * MaxRetries + 3
      BY <1>1, MovieDetailsAssumption DEF IInv, TypeOK, Points, Work
    <3> QED  BY <1>1, <3>1, WorkType, MovieDetailsAssumption
  <2>2. CASE Handle(c)
    BY <1>1, <2>1, <2>2, HandlerWorks, WorkType
  <2>3. CASE ~ Handle(c) /\ pc[c] # "idle"
    <3>1. Work(c)' = Work(c) \/ Work(c)' = 0
      BY <1>1, <2>3, OthersKeepWork DEF Work
    <3> QED  BY <1>1, <2>1, <2>3, <3>1, WorkType
  <2> QED  BY <1>1, <2>2, <2>3, WorkType
<1>2. IInv /\ IInv' /\ [Next]_vars => [WorkShrinks]_vars
  BY <1>1 DEF WorkShrinks
<1> QED  BY <1>2, Invariance, PTL DEF Spec, CallsAreBounded
=============================================================================
