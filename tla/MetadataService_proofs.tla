----------------------- MODULE MetadataService_proofs -----------------------
(***************************************************************************)
(* What holds of MetadataService for every value of its constants.         *)
(*                                                                         *)
(* Shape says what each point of a request implies about the request       *)
(* itself.  Facts relates the requests, the caches and the histories to    *)
(* the table; it is inductive because no step changes a row that is there  *)
(* (RowsAreWrittenOnce).                                                   *)
(***************************************************************************)
EXTENDS MetadataService, TLAPS

ShapeOf(m) ==
  /\ m.pc = "idle" => m = Idle
  /\ m.pc \in {"cache", "repo", "fill"} => m.id \in ReqIds /\ m.at \in Replicas
  /\ m.pc \in {"cache", "fill"} => m.op = "get"
  /\ m.pc \in {"cache", "repo"} => m.code = "none"
  /\ m.pc \in {"cache", "repo"} =>
       \/ m.op = "put" /\ m.pc = "repo" /\ m.val \in Values
       \/ m.op = "get" /\ m.val = None
  /\ m.pc = "fill" => m.code = "OK"
  /\ m.code = "OK" => m.id \in ReqIds /\ m.val \in Values
  /\ m.known => m.id \in ReqIds

Shape == TypeOK /\ \A c \in Callers : ShapeOf(call[c])

FactsOf(m) ==
  /\ m.code = "OK" => movies[m.id] = m.val
  /\ m.known => acked[m.id] # None
  /\ m.code = "NotFound" => ~ m.known

Facts ==
  /\ CacheCoherent
  /\ AckedIsStored
  /\ SeenIsStored
  /\ \A c \in Callers : FactsOf(call[c])

\* What RepoPut and LateInsert are when the id is a primary key.
RowsAreWrittenOnce ==
  \A i \in ReqIds : movies[i] # None => movies'[i] = movies[i]

-----------------------------------------------------------------------------
(* What the two ways of changing one request do to all of them. *)

LEMMA IdleShape == Idle \in CallType /\ ShapeOf(Idle)
BY NoneAssumption DEF Idle, CallType, ShapeOf, Points, Codes

LEMMA ReqIdsHaveNoNone == None \notin ReqIds
BY NoneAssumption DEF ReqIds

LEMMA Invoked ==
  ASSUME Shape, NEW c \in Callers, Invoke(c)
  PROVE  /\ call' \in [Callers -> CallType]
         /\ \A d \in Callers \ {c} : call'[d] = call[d]
         /\ call[c] = Idle
         /\ ShapeOf(call'[c])
         /\ call'[c].known => acked[call'[c].id] # None
         /\ call'[c].code \in {"none", "InvalidArgument"}
         /\ UNCHANGED <<movies, cache, loose, acked, seen>>
<1> DEFINE Wanted(op, pc, i, v, code) ==
             /\ pc # "reply" => i \in ReqIds /\ code = "none"
             /\ pc = "cache" => op = "get" /\ v = None
             /\ pc = "repo" => op = "put" /\ v \in Values
<1>1. PICK r \in Replicas, op \in {"get", "put"}, pc \in {"cache", "repo", "reply"},
           i \in ReqIds \cup {None}, v \in Values \cup {None},
           code \in {"none", "InvalidArgument"} :
        Accept(c, r, op, pc, i, v, code) /\ Wanted(op, pc, i, v, code)
  BY ReqIdsHaveNoNone DEF Invoke, RejectGet, RejectPut, InvokeGet, InvokePut
<1> DEFINE k == i # None /\ acked[i] # None
           m == [pc |-> pc, op |-> op, id |-> i, val |-> v, at |-> r,
                 code |-> code, known |-> k]
<1>2. /\ call' = [call EXCEPT ![c] = m]
      /\ call[c] = Idle
      /\ UNCHANGED <<movies, cache, loose, acked, seen>>
  BY <1>1 DEF Accept
<1>3. k \in BOOLEAN /\ (k => i \in ReqIds /\ acked[i] # None)
  BY <1>1
<1> HIDE DEF k
<1>4. /\ m.pc = pc /\ m.op = op /\ m.id = i /\ m.val = v
      /\ m.at = r /\ m.code = code /\ m.known = k
  OBVIOUS
<1>5. m \in CallType
  BY <1>1, <1>3 DEF CallType, Points, Codes
<1> HIDE DEF m
<1>6. ShapeOf(m)
  BY <1>1, <1>3, <1>4 DEF ShapeOf
<1>7. /\ call' \in [Callers -> CallType]
      /\ \A d \in Callers \ {c} : call'[d] = call[d]
      /\ call'[c] = m
  BY <1>2, <1>5 DEF Shape, TypeOK
<1> QED
  BY <1>1, <1>2, <1>3, <1>4, <1>6, <1>7

LEMMA Advanced ==
  ASSUME call \in [Callers -> CallType], NEW c \in Callers, NEW pc \in Points,
         NEW val \in Values \cup {None}, NEW code \in Codes,
         Advance(c, pc, val, code)
  PROVE  /\ call' \in [Callers -> CallType]
         /\ \A d \in Callers \ {c} : call'[d] = call[d]
         /\ call'[c] \in CallType
         /\ call'[c].pc = pc /\ call'[c].val = val /\ call'[c].code = code
         /\ call'[c].op = call[c].op /\ call'[c].id = call[c].id
         /\ call'[c].at = call[c].at /\ call'[c].known = call[c].known
<1> DEFINE m == [call[c] EXCEPT !.pc = pc, !.val = val, !.code = code]
<1>1. call[c] \in CallType
  OBVIOUS
<1>2. /\ m \in CallType
      /\ m.pc = pc /\ m.val = val /\ m.code = code
      /\ m.op = call[c].op /\ m.id = call[c].id
      /\ m.at = call[c].at /\ m.known = call[c].known
  BY <1>1 DEF CallType
<1>3. call' = [call EXCEPT ![c] = m]
  BY DEF Advance
<1> HIDE DEF m
<1> QED
  BY <1>2, <1>3

\* The request of c moves on and nothing else changes.
LEMMA OneRequestMoves ==
  ASSUME Shape, NEW c \in Callers, NEW pc \in Points, NEW val \in Values \cup {None},
         NEW code \in Codes, Advance(c, pc, val, code),
         ShapeOf([call[c] EXCEPT !.pc = pc, !.val = val, !.code = code]),
         UNCHANGED <<movies, cache, loose, acked, seen>>
  PROVE  Shape'
<1> DEFINE m == [call[c] EXCEPT !.pc = pc, !.val = val, !.code = code]
<1>1. call' \in [Callers -> CallType] /\ \A d \in Callers \ {c} : call'[d] = call[d]
  BY Advanced DEF Shape, TypeOK
<1>2. call'[c] = m
  BY DEF Advance, Shape, TypeOK
<1> HIDE DEF m
<1>3. \A d \in Callers : ShapeOf(call'[d])
  BY <1>1, <1>2 DEF Shape, m
<1>4. TypeOK'
  BY <1>1 DEF Shape, TypeOK
<1> QED  BY <1>3, <1>4 DEF Shape

-----------------------------------------------------------------------------
LEMMA InitShape == Init => Shape
BY IdleShape DEF Init, Shape, TypeOK, EmptyMap

LEMMA NextShape == Shape /\ [Next]_vars => Shape'
<1> SUFFICES ASSUME Shape, [Next]_vars
             PROVE  Shape'
  OBVIOUS
<1> USE NoneAssumption DEF Shape, TypeOK
<1>1. ASSUME NEW c \in Callers, Invoke(c)
      PROVE  Shape'
  BY <1>1, Invoked
<1>2. ASSUME NEW c \in Callers, CacheGet(c)
      PROVE  Shape'
  <2> DEFINE hit == cache[call[c].at][call[c].id]
  <2>1. hit \in Values \cup {None} /\ call[c] \in CallType /\ call[c].id \in ReqIds
    BY <1>2 DEF CacheGet, At, ShapeOf
  <2> HIDE DEF hit
  <2>2. CASE hit # None /\ Advance(c, "reply", hit, "OK")
    <3>1. ShapeOf([call[c] EXCEPT !.pc = "reply", !.val = hit, !.code = "OK"])
      BY <1>2, <2>1, <2>2 DEF CacheGet, At, ShapeOf, CallType
    <3> QED  BY <1>2, <2>1, <2>2, <3>1, OneRequestMoves DEF CacheGet, Points, Codes
  <2>3. CASE Advance(c, "repo", None, "none")
    <3>1. ShapeOf([call[c] EXCEPT !.pc = "repo", !.val = None, !.code = "none"])
      BY <1>2, <2>1 DEF CacheGet, At, ShapeOf, CallType
    <3> QED  BY <1>2, <2>3, <3>1, OneRequestMoves DEF CacheGet, Points, Codes
  <2> QED  BY <1>2, <2>2, <2>3 DEF CacheGet, hit
<1>3. ASSUME NEW c \in Callers, RepoGet(c)
      PROVE  Shape'
  <2> DEFINE row == movies[call[c].id]
  <2>1. row \in Values \cup {None} /\ call[c] \in CallType /\ call[c].id \in ReqIds
    BY <1>3 DEF RepoGet, At, ShapeOf
  <2> HIDE DEF row
  <2>2. CASE row # None /\ Advance(c, "fill", row, "OK")
    <3>1. ShapeOf([call[c] EXCEPT !.pc = "fill", !.val = row, !.code = "OK"])
      BY <1>3, <2>1, <2>2 DEF RepoGet, At, ShapeOf, CallType
    <3> QED  BY <1>3, <2>1, <2>2, <3>1, OneRequestMoves DEF RepoGet, Points, Codes
  <2>3. CASE Advance(c, "reply", None, "NotFound")
    <3>1. ShapeOf([call[c] EXCEPT !.pc = "reply", !.val = None, !.code = "NotFound"])
      BY <1>3, <2>1 DEF RepoGet, At, ShapeOf, CallType
    <3> QED  BY <1>3, <2>3, <3>1, OneRequestMoves DEF RepoGet, Points, Codes
  <2> QED  BY <1>3, <2>2, <2>3 DEF RepoGet, row
<1>4. ASSUME NEW c \in Callers, RepoGetFails(c)
      PROVE  Shape'
  <2>1. call[c] \in CallType
    OBVIOUS
  <2>2. ShapeOf([call[c] EXCEPT !.pc = "reply", !.val = None, !.code = "Internal"])
    BY <1>4, <2>1 DEF RepoGetFails, At, ShapeOf, CallType
  <2> QED  BY <1>4, <2>2, OneRequestMoves DEF RepoGetFails, Points, Codes
<1>5. ASSUME NEW c \in Callers, CachePut(c)
      PROVE  Shape'
  <2>1. call[c].val \in Values /\ call[c].id \in ReqIds /\ call[c].at \in Replicas
    BY <1>5 DEF CachePut, At, ShapeOf
  <2>2. Advance(c, "reply", call[c].val, "OK")
    BY <1>5 DEF CachePut
  <2>3. cache' \in [Replicas -> [ReqIds -> Values \cup {None}]]
    BY <1>5, <2>1 DEF CachePut
  <2> QED  BY SMTT(40), <1>5, <2>1, <2>2, <2>3, Advanced DEF CachePut, At, Points, Codes, ShapeOf
<1>6. ASSUME NEW c \in Callers, RepoPut(c)
      PROVE  Shape'
  <2>1. call[c].val \in Values /\ call[c].id \in ReqIds
    BY <1>6 DEF RepoPut, At, ShapeOf
  <2>2. movies' \in [ReqIds -> Values \cup {None}]
    BY <1>6, <2>1 DEF RepoPut
  <2>3. PICK code \in {"OK", "Internal"} : Advance(c, "reply", call[c].val, code)
    BY <1>6 DEF RepoPut
  <2> QED  BY SMTT(40), <1>6, <2>1, <2>2, <2>3, Advanced DEF RepoPut, At, Points, Codes, ShapeOf
<1>7. ASSUME NEW c \in Callers, RepoPutFails(c)
      PROVE  Shape'
  <2>1. call[c].val \in Values /\ call[c].id \in ReqIds
    BY <1>7 DEF RepoPutFails, At, ShapeOf
  <2>2. Advance(c, "reply", call[c].val, "Internal")
    BY <1>7 DEF RepoPutFails
  <2>3. loose' \subseteq ReqIds \X Values
    BY <1>7, <2>1 DEF RepoPutFails
  <2>4. /\ call' \in [Callers -> CallType]
        /\ \A d \in Callers \ {c} : call'[d] = call[d]
        /\ ShapeOf(call'[c])
    BY <2>1, <2>2, Advanced DEF Points, Codes, ShapeOf
  <2> QED  BY <1>7, <2>3, <2>4 DEF RepoPutFails
<1>12. ASSUME NEW c \in Callers, RepoGetMissingOverHTTP(c)
      PROVE  Shape'
  <2>1. call[c] \in CallType
    OBVIOUS
  <2>2. ShapeOf([call[c] EXCEPT !.pc = "reply", !.val = None, !.code = "Internal"])
    BY <1>12, <2>1 DEF RepoGetMissingOverHTTP, At, ShapeOf, CallType
  <2> QED  BY <1>12, <2>2, OneRequestMoves DEF RepoGetMissingOverHTTP, Points, Codes
<1>13. ASSUME NEW c \in Callers, RepoPutIncompleteOverHTTP(c)
      PROVE  Shape'
  <2>1. call[c].val \in Values /\ call[c].id \in ReqIds
    BY <1>13 DEF RepoPutIncompleteOverHTTP, At, ShapeOf
  <2>2. Advance(c, "reply", call[c].val, "InvalidArgument")
    BY <1>13 DEF RepoPutIncompleteOverHTTP
  <2>3. movies' \in [ReqIds -> Values \cup {None}] /\ loose' \subseteq ReqIds \X Values
    BY <1>13, <2>1 DEF RepoPutIncompleteOverHTTP
  <2>4. /\ call' \in [Callers -> CallType]
        /\ \A d \in Callers \ {c} : call'[d] = call[d]
        /\ ShapeOf(call'[c])
    BY <2>1, <2>2, Advanced DEF Points, Codes, ShapeOf
  <2> QED  BY <1>13, <2>3, <2>4 DEF RepoPutIncompleteOverHTTP
<1>8. ASSUME NEW c \in Callers, Reply(c)
       PROVE  Shape'
  <2>1. call[c].code = "OK" => call[c].id \in ReqIds /\ call[c].val \in Values
    BY DEF ShapeOf
  <2>2. acked' \in [ReqIds -> Values \cup {None}] /\ seen' \subseteq ReqIds \X Values
    BY <1>8, <2>1 DEF Reply
  <2> QED  BY <1>8, <2>2, IdleShape DEF Reply
<1>9. ASSUME NEW w \in loose, LateInsert(w)
       PROVE  Shape'
  BY <1>9 DEF LateInsert
<1>10. ASSUME NEW r \in Replicas, Crash(r)
       PROVE  Shape'
  <2>1. cache' \in [Replicas -> [ReqIds -> Values \cup {None}]]
    BY <1>10 DEF Crash, EmptyMap
  <2>2. call' \in [Callers -> CallType] /\ \A d \in Callers : ShapeOf(call'[d])
    BY <1>10, IdleShape DEF Crash
  <2>3. loose' \subseteq ReqIds \X Values
    BY SMTT(40), <1>10 DEF Crash, At, ShapeOf
  <2> QED  BY <1>10, <2>1, <2>2, <2>3 DEF Crash
<1>11. CASE UNCHANGED vars
  BY <1>11 DEF vars
<1> QED
  BY <1>1, <1>2, <1>3, <1>4, <1>5, <1>6, <1>7, <1>8, <1>9, <1>10, <1>11,
     <1>12, <1>13
     DEF Next, Handle

LEMMA ShapeAlways == Spec => []Shape
BY InitShape, NextShape, PTL DEF Spec

\* Every variable keeps its type.
THEOREM TypeCorrect == Spec => []TypeOK
BY ShapeAlways, PTL DEF Shape

-----------------------------------------------------------------------------
(* What is true of the table and of what callers know of it. *)

LEMMA InitFacts == Init => Facts
BY DEF Init, Facts, CacheCoherent, AckedIsStored, SeenIsStored, FactsOf, EmptyMap, Idle

LEMMA RowsStay ==
  ASSUME Shape, [Next]_vars
  PROVE  RowsAreWrittenOnce
<1> USE DEF Shape, TypeOK, RowsAreWrittenOnce
<1>1. ASSUME NEW c \in Callers, RepoPut(c)
      PROVE  RowsAreWrittenOnce
  BY <1>1 DEF RepoPut
<1>2. ASSUME NEW w \in loose, LateInsert(w)
      PROVE  RowsAreWrittenOnce
  BY <1>2 DEF LateInsert
<1>3. ASSUME NEW c \in Callers, RepoPutIncompleteOverHTTP(c)
      PROVE  RowsAreWrittenOnce
  BY <1>3 DEF RepoPutIncompleteOverHTTP
<1>4. ASSUME movies' = movies
      PROVE  RowsAreWrittenOnce
  BY <1>4
<1> QED
  BY <1>1, <1>2, <1>3, <1>4
     DEF Next, Handle, vars, Invoke, RejectGet, RejectPut, InvokeGet, InvokePut,
         Accept, CacheGet, RepoGet, RepoGetFails, RepoGetMissingOverHTTP, CachePut, RepoPutFails,
         Reply, Crash

\* An acknowledgement is never withdrawn.
LEMMA AckedStays ==
  ASSUME Shape, [Next]_vars
  PROVE  \A i \in ReqIds : acked[i] # None => acked'[i] # None
<1> USE NoneAssumption DEF Shape, TypeOK
<1>1. ASSUME NEW c \in Callers, Reply(c)
      PROVE  \A i \in ReqIds : acked[i] # None => acked'[i] # None
  BY <1>1 DEF Reply, ShapeOf
<1> QED
  BY <1>1
     DEF Next, Handle, vars, Invoke, RejectGet, RejectPut, InvokeGet, InvokePut, Accept,
         CacheGet, RepoGet, RepoGetFails, RepoGetMissingOverHTTP, CachePut, RepoPut, RepoPutFails,
         RepoPutIncompleteOverHTTP, LateInsert, Crash

\* So every fact about the old state is true of the new table as well.
LEMMA FactsCarryOver ==
  ASSUME Shape, Facts, [Next]_vars
  PROVE  /\ \A r \in Replicas, i \in ReqIds :
              cache[r][i] # None => cache[r][i] = movies'[i]
         /\ \A i \in ReqIds : acked[i] # None => movies'[i] = acked[i]
         /\ \A s \in seen : movies'[s[1]] = s[2]
         /\ \A d \in Callers :
              /\ call[d].code = "OK" => movies'[call[d].id] = call[d].val
              /\ call[d].known => acked'[call[d].id] # None
              /\ call[d].code = "NotFound" => ~ call[d].known
<1>1. \A i \in ReqIds : movies[i] # None => movies'[i] = movies[i]
  BY RowsStay DEF RowsAreWrittenOnce
<1>2. \A i \in ReqIds : acked[i] # None => acked'[i] # None
  BY AckedStays
<1>3. \A s \in seen : s[1] \in ReqIds /\ s[2] \in Values
  BY DEF Shape, TypeOK
<1>4. \A d \in Callers :
        /\ call[d].code = "OK" => call[d].id \in ReqIds /\ call[d].val \in Values
        /\ call[d].known => call[d].id \in ReqIds
  BY DEF Shape, ShapeOf
<1> QED
  BY <1>1, <1>2, <1>3, <1>4, NoneAssumption
     DEF Facts, FactsOf, CacheCoherent, AckedIsStored, SeenIsStored

LEMMA NextFacts ==
  ASSUME Shape, Facts, [Next]_vars
  PROVE  Facts'
<1> DEFINE Others(c) ==
      \A d \in Callers \ {c} : call'[d] = call[d]
<1> DEFINE Mine(c) ==
      /\ call'[c].code = "OK" => movies'[call'[c].id] = call'[c].val
      /\ call'[c].known => acked'[call'[c].id] # None
      /\ call'[c].code = "NotFound" => ~ call'[c].known
\* A step that changes one request only has to establish that request's facts.
<1>a. ASSUME NEW c \in Callers, Others(c), Mine(c), UNCHANGED <<cache, acked, seen>>
      PROVE  Facts'
  BY <1>a, FactsCarryOver
     DEF Facts, FactsOf, CacheCoherent, AckedIsStored, SeenIsStored
<1> HIDE DEF Others, Mine
<1>1. ASSUME NEW c \in Callers, Invoke(c)
      PROVE  Facts'
  <2>1. Others(c) /\ Mine(c)
    BY <1>1, Invoked DEF Others, Mine
  <2> QED  BY <1>1, <1>a, <2>1, Invoked
<1>2. ASSUME NEW c \in Callers, CacheGet(c)
      PROVE  Facts'
  <2> DEFINE hit == cache[call[c].at][call[c].id]
  <2>1. hit \in Values \cup {None} /\ call[c].id \in ReqIds /\ call[c].at \in Replicas
    BY <1>2 DEF CacheGet, At, Shape, ShapeOf, TypeOK
  <2>2. hit # None => movies'[call[c].id] = hit
    BY SMTT(40), <2>1, FactsCarryOver
  <2>3. CASE hit # None /\ Advance(c, "reply", hit, "OK")
    <3> HIDE DEF hit
    <3> QED
      BY SMTT(40), <1>2, <1>a, <2>1, <2>2, <2>3, Advanced, FactsCarryOver
         DEF CacheGet, Points, Codes, Shape, TypeOK, Others, Mine
  <2>4. CASE Advance(c, "repo", None, "none")
    BY <1>2, <1>a, <2>4, Advanced, FactsCarryOver
       DEF CacheGet, Points, Codes, Shape, TypeOK, Others, Mine
  <2> QED  BY <1>2, <2>3, <2>4 DEF CacheGet
<1>3. ASSUME NEW c \in Callers, RepoGet(c)
      PROVE  Facts'
  <2> DEFINE row == movies[call[c].id]
  <2>1. row \in Values \cup {None} /\ call[c].id \in ReqIds /\ movies' = movies
    BY <1>3 DEF RepoGet, At, Shape, ShapeOf, TypeOK
  <2>2. CASE row # None /\ Advance(c, "fill", row, "OK")
    <3>1. movies'[call[c].id] = row
      BY <2>1
    <3> HIDE DEF row
    <3> QED
      BY <1>3, <1>a, <2>1, <2>2, <3>1, Advanced, FactsCarryOver
         DEF RepoGet, Points, Codes, Shape, TypeOK, Others, Mine
  \* No row, so no Put of this id has been answered OK.
  <2>3. CASE row = None /\ Advance(c, "reply", None, "NotFound")
    <3>1. ~ call[c].known
      BY <2>1, <2>3 DEF Facts, AckedIsStored, FactsOf
    <3> QED
      BY <1>3, <1>a, <2>3, <3>1, Advanced, FactsCarryOver
         DEF RepoGet, Points, Codes, Shape, TypeOK, Others, Mine
  <2> QED  BY <1>3, <2>2, <2>3 DEF RepoGet
<1>4. ASSUME NEW c \in Callers, RepoGetFails(c)
      PROVE  Facts'
  BY <1>4, <1>a, Advanced, FactsCarryOver
     DEF RepoGetFails, Points, Codes, Shape, TypeOK, Others, Mine
<1>5. ASSUME NEW c \in Callers, CachePut(c)
      PROVE  Facts'
  <2>1. /\ call[c].code = "OK" /\ call[c].val \in Values
        /\ call[c].id \in ReqIds /\ call[c].at \in Replicas
    BY <1>5 DEF CachePut, At, Shape, ShapeOf
  <2>2. movies'[call[c].id] = call[c].val
    BY <2>1, FactsCarryOver
  <2>3. \A r \in Replicas, i \in ReqIds :
          cache'[r][i] = IF r = call[c].at /\ i = call[c].id
                           THEN call[c].val ELSE cache[r][i]
    BY <1>5, <2>1 DEF CachePut, Shape, TypeOK
  <2>4. CacheCoherent'
    BY <2>2, <2>3, FactsCarryOver DEF CacheCoherent
  <2>5. Advance(c, "reply", call[c].val, "OK")
    BY <1>5 DEF CachePut
  <2>6. \A d \in Callers : FactsOf(call[d])'
    BY SMTT(40), <1>5, <2>1, <2>2, <2>5, Advanced, FactsCarryOver
       DEF CachePut, Points, Codes, Shape, TypeOK, FactsOf
  <2> QED
    BY <1>5, <2>4, <2>6, FactsCarryOver
       DEF CachePut, Facts, AckedIsStored, SeenIsStored
<1>6. ASSUME NEW c \in Callers, RepoPut(c)
      PROVE  Facts'
  <2>1. call[c].val \in Values /\ call[c].id \in ReqIds
    BY <1>6 DEF RepoPut, At, Shape, ShapeOf
  <2>2. CASE /\ movies' = [movies EXCEPT ![call[c].id] = call[c].val]
             /\ Advance(c, "reply", call[c].val, "OK")
    <3>1. movies'[call[c].id] = call[c].val
      BY SMTT(40), <2>1, <2>2 DEF Shape, TypeOK
    <3> QED
      BY <1>6, <1>a, <2>1, <2>2, <3>1, Advanced, FactsCarryOver
         DEF RepoPut, Points, Codes, Shape, TypeOK, Others, Mine
  <2>3. CASE Advance(c, "reply", call[c].val, "Internal")
    BY <1>6, <1>a, <2>1, <2>3, Advanced, FactsCarryOver
       DEF RepoPut, Points, Codes, Shape, TypeOK, Others, Mine
  <2> QED  BY <1>6, <2>2, <2>3 DEF RepoPut
<1>7. ASSUME NEW c \in Callers, RepoPutFails(c)
      PROVE  Facts'
  <2>1. call[c].val \in Values /\ Advance(c, "reply", call[c].val, "Internal")
    BY <1>7 DEF RepoPutFails, At, Shape, ShapeOf
  <2> QED
    BY <1>7, <1>a, <2>1, Advanced, FactsCarryOver
       DEF RepoPutFails, Points, Codes, Shape, TypeOK, Others, Mine
<1>12. ASSUME NEW c \in Callers, RepoGetMissingOverHTTP(c)
      PROVE  Facts'
  BY <1>12, <1>a, Advanced, FactsCarryOver
     DEF RepoGetMissingOverHTTP, Points, Codes, Shape, TypeOK, Others, Mine
<1>13. ASSUME NEW c \in Callers, RepoPutIncompleteOverHTTP(c)
      PROVE  Facts'
  <2>1. call[c].val \in Values /\ Advance(c, "reply", call[c].val, "InvalidArgument")
    BY <1>13 DEF RepoPutIncompleteOverHTTP, At, Shape, ShapeOf
  <2> QED
    BY <1>13, <1>a, <2>1, Advanced, FactsCarryOver
       DEF RepoPutIncompleteOverHTTP, Points, Codes, Shape, TypeOK, Others, Mine
\* Only now do the histories grow, by what the facts of the request say.
<1>8. ASSUME NEW c \in Callers, Reply(c)
      PROVE  Facts'
  <2>1. call[c].code = "OK" =>
          call[c].id \in ReqIds /\ movies'[call[c].id] = call[c].val
    BY FactsCarryOver DEF Shape, ShapeOf
  <2>2. AckedIsStored'
    BY <1>8, <2>1, FactsCarryOver DEF Reply, AckedIsStored, Shape, TypeOK
  <2>3. SeenIsStored'
    BY <1>8, <2>1, FactsCarryOver DEF Reply, SeenIsStored
  <2>4. \A d \in Callers : FactsOf(call[d])'
    BY <1>8, FactsCarryOver DEF Reply, FactsOf, Idle, Shape, TypeOK
  <2> QED
    BY <1>8, <2>2, <2>3, <2>4, FactsCarryOver DEF Reply, Facts, CacheCoherent
<1>9. ASSUME NEW w \in loose, LateInsert(w)
      PROVE  Facts'
  BY <1>9, FactsCarryOver
     DEF LateInsert, Facts, FactsOf, CacheCoherent, AckedIsStored, SeenIsStored
<1>10. ASSUME NEW r \in Replicas, Crash(r)
       PROVE  Facts'
  <2>1. CacheCoherent'
    BY <1>10, FactsCarryOver DEF Crash, CacheCoherent, EmptyMap, Shape, TypeOK
  <2>2. \A d \in Callers : FactsOf(call[d])'
    BY <1>10, FactsCarryOver DEF Crash, FactsOf, Idle
  <2> QED
    BY <1>10, <2>1, <2>2, FactsCarryOver DEF Crash, Facts, AckedIsStored, SeenIsStored
<1>11. CASE UNCHANGED vars
  BY <1>11, FactsCarryOver
     DEF vars, Facts, FactsOf, CacheCoherent, AckedIsStored, SeenIsStored
<1> QED
  BY <1>1, <1>2, <1>3, <1>4, <1>5, <1>6, <1>7, <1>8, <1>9, <1>10, <1>11,
     <1>12, <1>13
     DEF Next, Handle

LEMMA FactsAlways == Spec => [](Shape /\ Facts)
<1>1. Init => Shape /\ Facts
  BY InitShape, InitFacts
<1>2. Shape /\ Facts /\ [Next]_vars => (Shape /\ Facts)'
  BY NextShape, NextFacts
<1> QED  BY <1>1, <1>2, PTL DEF Spec

\* No replica ever caches a value that is not the value of the row,
\* though controller.go never invalidates a cache.
THEOREM CacheIsCoherent == Spec => []CacheCoherent
BY FactsAlways, PTL DEF Facts

\* A Put that was answered OK is never lost or overwritten.
THEOREM AckedPutsAreStored == Spec => []AckedIsStored
BY FactsAlways, PTL DEF Facts

\* All Gets of an id that succeed return the same metadata.
THEOREM ReadsAgree == Spec => []SeenIsStored
BY FactsAlways, PTL DEF Facts

\* A Get that arrives after a Put of the id was answered OK is
\* never answered NotFound, whichever replicas serve the two.
THEOREM WritesAreRead == Spec => []ReadYourWrites
<1>1. Facts => ReadYourWrites
  BY DEF Facts, FactsOf, ReadYourWrites
<1> QED  BY <1>1, FactsAlways, PTL

-----------------------------------------------------------------------------
(* The service implements WriteOnceStore. *)

LEMMA InitRefines == Init => Store!Init
BY DEF Init, Store!Init, Store!NoCall, View, CallView, Idle, EmptyMap

\* A step that changes one request changes the view of that request.
LEMMA ViewStep ==
  ASSUME NEW c \in Callers, \A d \in Callers \ {c} : call'[d] = call[d]
  PROVE  View' = [View EXCEPT ![c] = CallView(c)']
BY DEF View, CallView

\* A request that moves on without a new answer is the same to its caller.
LEMMA ViewStutters ==
  ASSUME NEW c \in Callers, \A d \in Callers \ {c} : call'[d] = call[d],
         CallView(c)' = CallView(c)
  PROVE  View' = View
BY DEF View, CallView

\* The view when the answer of an open request becomes ready.
LEMMA ViewFixes ==
  ASSUME Shape, NEW c \in Callers, call[c].pc \in {"cache", "repo"},
         NEW pc \in {"fill", "reply"}, NEW val \in Values \cup {None},
         NEW code \in Codes, Advance(c, pc, val, code)
  PROVE  /\ View[c].phase = "open" /\ View[c].op = call[c].op
         /\ View[c].id = call[c].id /\ View[c].val = call[c].val
         /\ Store!Fix(c, val, code)
<1>1. /\ \A d \in Callers \ {c} : call'[d] = call[d]
      /\ call'[c].pc = pc /\ call'[c].val = val /\ call'[c].code = code
      /\ call'[c].op = call[c].op /\ call'[c].id = call[c].id
  BY Advanced DEF Shape, TypeOK, Points
<1>2. View[c] = [phase |-> "open", op |-> call[c].op, id |-> call[c].id,
                 val |-> call[c].val, code |-> call[c].code]
  BY DEF View, CallView
<1>3. CallView(c)' = [phase |-> "fixed", op |-> View[c].op, id |-> View[c].id,
                      val |-> val, code |-> code]
  BY <1>1, <1>2 DEF CallView
<1>4. View' = [View EXCEPT ![c] = CallView(c)']
  BY <1>1, ViewStep
<1> QED
  BY <1>2, <1>3, <1>4 DEF Store!Fix

LEMMA NextRefines ==
  ASSUME Shape, Facts, [Next]_vars
  PROVE  [Store!Next]_(Store!vars)
<1> USE DEF Store!vars
<1>1. ASSUME NEW c \in Callers, Invoke(c)
      PROVE  Store!Next
  <2>0. /\ \A d \in Callers \ {c} : call'[d] = call[d]
        /\ call[c] = Idle /\ UNCHANGED <<movies, loose>>
    BY <1>1, Invoked
  <2>1. View[c] = Store!NoCall /\ View' = [View EXCEPT ![c] = CallView(c)']
    BY <2>0, ViewStep DEF View, CallView, Idle, Store!NoCall
  <2>2. ASSUME NEW r \in Replicas, NEW op \in {"get", "put"},
               Accept(c, r, op, "reply", None, None, "InvalidArgument")
        PROVE  Store!Next
    <3>1. CallView(c)' = [phase |-> "fixed", op |-> op, id |-> None, val |-> None,
                          code |-> "InvalidArgument"]
      BY <2>2 DEF Accept, CallView, Shape, TypeOK
    <3>2. Store!Reject(c)
      BY <2>0, <2>1, <3>1 DEF Store!Reject
    <3> QED  BY <3>2 DEF Store!Next
  <2>3. ASSUME NEW r \in Replicas, NEW i \in ReqIds, InvokeGet(c, r, i)
        PROVE  Store!Next
    <3>1. CallView(c)' = [phase |-> "open", op |-> "get", id |-> i, val |-> None,
                          code |-> "none"]
      BY <2>3 DEF InvokeGet, Accept, CallView, Shape, TypeOK
    <3>2. Store!Ask(c)
      BY <2>0, <2>1, <3>1 DEF Store!Ask
    <3> QED  BY <3>2 DEF Store!Next
  <2>4. ASSUME NEW r \in Replicas, NEW i \in ReqIds, NEW v \in Values,
               InvokePut(c, r, i, v)
        PROVE  Store!Next
    <3>1. CallView(c)' = [phase |-> "open", op |-> "put", id |-> i, val |-> v,
                          code |-> "none"]
      BY <2>4 DEF InvokePut, Accept, CallView, Shape, TypeOK
    <3>2. Store!Ask(c)
      BY <2>0, <2>1, <3>1, NoneAssumption DEF Store!Ask
    <3> QED  BY <3>2 DEF Store!Next
  <2> QED
    BY <1>1, <2>2, <2>3, <2>4 DEF Invoke, RejectGet, RejectPut
\* A hit is a read of the store because the cache agrees with the table.
<1>2. ASSUME NEW c \in Callers, CacheGet(c)
      PROVE  Store!Next \/ UNCHANGED Store!vars
  <2> DEFINE hit == cache[call[c].at][call[c].id]
  <2>1. /\ call[c].op = "get" /\ call[c].pc = "cache"
        /\ call[c].val = None /\ call[c].code = "none"
        /\ hit \in Values \cup {None} /\ call[c].id \in ReqIds /\ call[c].at \in Replicas
        /\ UNCHANGED <<movies, loose>>
    BY <1>2 DEF CacheGet, At, Shape, ShapeOf, TypeOK
  <2>2. hit # None => movies[call[c].id] = hit
    BY <2>1 DEF Facts, CacheCoherent
  <2>3. CASE hit # None /\ Advance(c, "reply", hit, "OK")
    <3> HIDE DEF hit
    <3>1. Store!Read(c)
      BY <2>1, <2>2, <2>3, ViewFixes DEF Store!Read, Store!Open, Codes
    <3> QED  BY <3>1 DEF Store!Next
  <2>4. CASE Advance(c, "repo", None, "none")
    <3>1. /\ \A d \in Callers \ {c} : call'[d] = call[d]
          /\ CallView(c)' = CallView(c)
      BY <2>1, <2>4, Advanced DEF Shape, TypeOK, Points, Codes, CallView
    <3> QED  BY <2>1, <3>1, ViewStutters
  <2> QED  BY <1>2, <2>3, <2>4 DEF CacheGet
<1>3. ASSUME NEW c \in Callers, RepoGet(c)
      PROVE  Store!Next
  <2> DEFINE row == movies[call[c].id]
  <2>1. /\ call[c].op = "get" /\ call[c].pc = "repo"
        /\ row \in Values \cup {None} /\ UNCHANGED <<movies, loose>>
    BY <1>3 DEF RepoGet, At, Shape, ShapeOf, TypeOK
  <2>2. PICK pc \in {"fill", "reply"} :
          Advance(c, pc, row, IF row = None THEN "NotFound" ELSE "OK")
    BY <1>3 DEF RepoGet
  <2> DEFINE code == IF row = None THEN "NotFound" ELSE "OK"
  <2>3. code \in Codes
    BY DEF Codes
  <2>4. View[c].phase = "open" /\ View[c].op = "get" /\ View[c].id = call[c].id
        /\ Store!Fix(c, row, code)
    <3> HIDE DEF row, code
    <3> QED  BY <2>1, <2>2, <2>3, ViewFixes DEF row, code
  <2>5. Store!Read(c)
    BY <2>1, <2>4 DEF Store!Read, Store!Open
  <2> QED  BY <2>5 DEF Store!Next
<1>4. ASSUME NEW c \in Callers, RepoGetFails(c)
      PROVE  Store!Next
  <2>1. /\ call[c].pc = "repo" /\ call[c].val = None
        /\ Advance(c, "reply", None, "Internal") /\ UNCHANGED <<movies, loose>>
    BY <1>4 DEF RepoGetFails, At, Shape, ShapeOf
  <2>2. Store!Refuse(c)
    BY <2>1, ViewFixes DEF Store!Refuse, Codes
  <2> QED  BY <2>2 DEF Store!Next
<1>5. ASSUME NEW c \in Callers, CachePut(c)
      PROVE  UNCHANGED Store!vars
  <2>1. /\ call[c].pc = "fill" /\ call[c].code = "OK" /\ call[c].val \in Values
        /\ Advance(c, "reply", call[c].val, "OK") /\ UNCHANGED <<movies, loose>>
    BY <1>5 DEF CachePut, At, Shape, ShapeOf
  <2>2. /\ \A d \in Callers \ {c} : call'[d] = call[d]
        /\ CallView(c)' = CallView(c)
    BY <2>1, Advanced DEF Shape, TypeOK, Points, Codes, CallView
  <2> QED  BY <2>1, <2>2, ViewStutters
<1>6. ASSUME NEW c \in Callers, RepoPut(c)
      PROVE  Store!Next
  <2>1. /\ call[c].pc = "repo" /\ call[c].op = "put"
        /\ call[c].val \in Values /\ UNCHANGED loose
    BY <1>6 DEF RepoPut, At, Shape, ShapeOf
  <2>2. CASE /\ movies[call[c].id] = None
             /\ movies' = [movies EXCEPT ![call[c].id] = call[c].val]
             /\ Advance(c, "reply", call[c].val, "OK")
    <3>1. Store!Insert(c)
      BY <2>1, <2>2, ViewFixes DEF Store!Insert, Store!Open, Codes
    <3> QED  BY <3>1 DEF Store!Next
  <2>3. CASE Advance(c, "reply", call[c].val, "Internal") /\ UNCHANGED movies
    <3>1. Store!Refuse(c)
      BY <2>1, <2>3, ViewFixes DEF Store!Refuse, Codes
    <3> QED  BY <3>1 DEF Store!Next
  <2> QED  BY <1>6, <2>2, <2>3 DEF RepoPut
<1>7. ASSUME NEW c \in Callers, RepoPutFails(c)
      PROVE  Store!Next
  <2>1. /\ call[c].pc = "repo" /\ call[c].op = "put" /\ call[c].val \in Values
        /\ Advance(c, "reply", call[c].val, "Internal") /\ UNCHANGED movies
        /\ loose' \in {loose, loose \cup {<<call[c].id, call[c].val>>}}
    BY <1>7 DEF RepoPutFails, At, Shape, ShapeOf
  <2>2. Store!Refuse(c)
    BY <2>1, ViewFixes DEF Store!Refuse, Codes
  <2> QED  BY <2>2 DEF Store!Next
<1>12. ASSUME NEW c \in Callers, RepoGetMissingOverHTTP(c)
      PROVE  Store!Next
  <2>1. /\ call[c].pc = "repo" /\ call[c].val = None
        /\ Advance(c, "reply", None, "Internal") /\ UNCHANGED <<movies, loose>>
    BY <1>12 DEF RepoGetMissingOverHTTP, At, Shape, ShapeOf
  <2>2. Store!Refuse(c)
    BY <2>1, ViewFixes DEF Store!Refuse, Codes
  <2> QED  BY <2>2 DEF Store!Next
<1>13. ASSUME NEW c \in Callers, RepoPutIncompleteOverHTTP(c)
      PROVE  Store!Next
  <2>1. /\ call[c].pc = "repo" /\ call[c].op = "put" /\ call[c].val \in Values
        /\ Advance(c, "reply", call[c].val, "InvalidArgument")
    BY <1>13 DEF RepoPutIncompleteOverHTTP, At, Shape, ShapeOf
  <2>2. Store!Disown(c)
    BY <1>13, <2>1, ViewFixes DEF RepoPutIncompleteOverHTTP, Store!Disown, Store!Open, Codes
  <2> QED  BY <2>2 DEF Store!Next
<1>8. ASSUME NEW c \in Callers, Reply(c)
      PROVE  Store!Next
  <2>1. /\ \A d \in Callers \ {c} : call'[d] = call[d]
        /\ call'[c] = Idle /\ UNCHANGED <<movies, loose>> /\ call[c].pc = "reply"
    BY <1>8 DEF Reply, Shape, TypeOK
  <2>2. CallView(c)' = Store!NoCall /\ View[c].phase = "fixed"
    BY <2>1 DEF CallView, View, Idle, Store!NoCall
  <2>3. Store!Answer(c)
    BY <2>1, <2>2, ViewStep DEF Store!Answer
  <2> QED  BY <2>3 DEF Store!Next
<1>9. ASSUME NEW w \in loose, LateInsert(w)
      PROVE  Store!Next
  <2>1. Store!Land(w)
    BY <1>9 DEF LateInsert, Store!Land, View, CallView
  <2> QED  BY <2>1 DEF Store!Next
<1>10. ASSUME NEW r \in Replicas, Crash(r)
       PROVE  Store!Next
  <2> DEFINE S == {c \in Callers : call[c].at = r}
  <2>1. \A c \in Callers : call'[c] = IF c \in S THEN Idle ELSE call[c]
    BY <1>10 DEF Crash
  <2>2. View' = [c \in Callers |-> IF c \in S THEN Store!NoCall ELSE View[c]]
    <3> HIDE DEF S
    <3> QED  BY <2>1 DEF View, CallView, Idle, Store!NoCall
  <2>3. \E W \in SUBSET {c \in S : Store!Open(c, "put")} :
          loose' = loose \cup {<<View[c].id, View[c].val>> : c \in W}
    <3>1. PICK W \in SUBSET {c \in Callers : call[c].at = r /\ At(c, "put", "repo")} :
            loose' = loose \cup {<<call[c].id, call[c].val>> : c \in W}
      BY <1>10 DEF Crash
    <3>2. W \in SUBSET {c \in S : Store!Open(c, "put")}
      BY <3>1 DEF At, Store!Open, View, CallView
    <3>3. \A c \in W : View[c].id = call[c].id /\ View[c].val = call[c].val
      BY <3>1 DEF View, CallView
    <3>4. loose' = loose \cup {<<View[c].id, View[c].val>> : c \in W}
      BY <3>1, <3>3
    <3> QED  BY <3>2, <3>4
  <2>4. Store!Abort(S)
    BY <1>10, <2>2, <2>3 DEF Crash, Store!Abort
  <2> QED  BY <2>4 DEF Store!Next
<1>11. CASE UNCHANGED vars
  BY <1>11 DEF vars, View, CallView
<1> QED
  BY <1>1, <1>2, <1>3, <1>4, <1>5, <1>6, <1>7, <1>8, <1>9, <1>10, <1>11,
     <1>12, <1>13
     DEF Next, Handle

\* The replicated service with its caches gives only answers that
\* a single store without a cache could have given, for any number of
\* replicas, callers and ids.
THEOREM Refinement == Spec => ImplementsWriteOnceStore
<1>1. Shape /\ Facts /\ [Next]_vars => [Store!Next]_(Store!vars)
  BY NextRefines
<1> QED
  BY <1>1, InitRefines, FactsAlways, PTL DEF Spec, ImplementsWriteOnceStore, Store!Spec
=============================================================================
