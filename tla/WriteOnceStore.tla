--------------------------- MODULE WriteOnceStore ---------------------------
(***************************************************************************)
(* What the metadata service promises its callers: one store in which an   *)
(* id is written at most once, and every answer is what that one store     *)
(* held at some instant between the request and its answer.  There is no   *)
(* cache, no replica and no repository here; MetadataService shows that    *)
(* the service built from them still behaves like this.                    *)
(***************************************************************************)
CONSTANTS
  ReqIds,     \* ids a request can carry
  Values,     \* metadata records
  Callers,
  None

VARIABLES
  store,      \* [ReqIds -> Values \cup {None}]
  call,       \* the request each caller is waiting for
  loose       \* writes answered with an error that may still take effect

vars == <<store, call, loose>>

NoCall == [phase |-> "idle", op |-> "none", id |-> None, val |-> None,
           code |-> "none"]

Init ==
  /\ store = [i \in ReqIds |-> None]
  /\ call = [c \in Callers |-> NoCall]
  /\ loose = {}

Open(c, op) == call[c].phase = "open" /\ call[c].op = op

\* Fix the answer of c; it is delivered by Answer.
Fix(c, val, code) ==
  call' = [call EXCEPT ![c] = [phase |-> "fixed", op |-> @.op, id |-> @.id,
                               val |-> val, code |-> code]]

-----------------------------------------------------------------------------
\* A request that is well formed is open until its answer is fixed.
Ask(c) ==
  /\ call[c] = NoCall
  /\ \E op \in {"get", "put"}, i \in ReqIds, v \in Values \cup {None} :
       /\ (op = "get") = (v = None)
       /\ call' = [call EXCEPT ![c] = [phase |-> "open", op |-> op, id |-> i,
                                       val |-> v, code |-> "none"]]
  /\ UNCHANGED <<store, loose>>

\* A malformed request is refused without reading or writing anything.
Reject(c) ==
  /\ call[c] = NoCall
  /\ \E op \in {"get", "put"} :
       call' = [call EXCEPT ![c] = [phase |-> "fixed", op |-> op, id |-> None,
                                    val |-> None, code |-> "InvalidArgument"]]
  /\ UNCHANGED <<store, loose>>

\* A read sees the store at one instant.
Read(c) ==
  /\ Open(c, "get")
  /\ Fix(c, store[call[c].id],
         IF store[call[c].id] = None THEN "NotFound" ELSE "OK")
  /\ UNCHANGED <<store, loose>>

\* A write succeeds only on an id that was never written.
Insert(c) ==
  /\ Open(c, "put")
  /\ store[call[c].id] = None
  /\ store' = [store EXCEPT ![call[c].id] = call[c].val]
  /\ Fix(c, call[c].val, "OK")
  /\ UNCHANGED loose

\* Any request may fail; a failed write may still take effect later.
Refuse(c) ==
  /\ call[c].phase = "open"
  /\ Fix(c, call[c].val, "Internal")
  /\ \/ UNCHANGED loose
     \/ call[c].op = "put" /\ loose' = loose \cup {<<call[c].id, call[c].val>>}
  /\ UNCHANGED store

\* A write may be called malformed and be done nevertheless, now or later.
Disown(c) ==
  /\ Open(c, "put")
  /\ Fix(c, call[c].val, "InvalidArgument")
  /\ \/ /\ store[call[c].id] = None
        /\ store' = [store EXCEPT ![call[c].id] = call[c].val]
        /\ UNCHANGED loose
     \/ /\ loose' \in {loose, loose \cup {<<call[c].id, call[c].val>>}}
        /\ UNCHANGED store

Land(w) ==
  /\ w \in loose
  /\ loose' = loose \ {w}
  /\ store' = [store EXCEPT ![w[1]] = IF @ = None THEN w[2] ELSE @]
  /\ UNCHANGED call

Answer(c) ==
  /\ call[c].phase = "fixed"
  /\ call' = [call EXCEPT ![c] = NoCall]
  /\ UNCHANGED <<store, loose>>

\* Requests that lose their server are never answered; the writes among
\* them may still take effect.
Abort(S) ==
  /\ call' = [c \in Callers |-> IF c \in S THEN NoCall ELSE call[c]]
  /\ \E W \in SUBSET {c \in S : Open(c, "put")} :
       loose' = loose \cup {<<call[c].id, call[c].val>> : c \in W}
  /\ UNCHANGED store

Next ==
  \/ \E c \in Callers :
       \/ Ask(c) \/ Reject(c) \/ Answer(c)
       \/ Read(c) \/ Insert(c) \/ Refuse(c) \/ Disown(c)
  \/ \E w \in loose : Land(w)
  \/ \E S \in SUBSET Callers : Abort(S)

Spec == Init /\ [][Next]_vars
=============================================================================
