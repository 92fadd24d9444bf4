--------------------------- MODULE MetadataService ---------------------------
(***************************************************************************)
(* The metadata service: the handlers, the controller with its             *)
(* read-through cache, and the repository below it, from                   *)
(*   metadata/internal/handler/grpc/grpc.go, handler/http/http.go          *)
(*   metadata/internal/controller/metadata/controller.go                   *)
(*   metadata/internal/repository/mysql/mysql.go (the repository)          *)
(*   metadata/internal/repository/memory/memory.go (the cache)             *)
(* as metadata/cmd/main.go puts them together.                             *)
(*                                                                         *)
(* Every replica of the service has its own cache; all of them share one   *)
(* repository.  A request is a sequence of steps, one per call that leaves *)
(* the goroutine (cache, repository, cache again, answer), and the steps   *)
(* of different requests interleave.  A request comes by gRPC or by HTTP,  *)
(* whose statuses go by the names of the gRPC codes; where the two handlers *)
(* differ, the HTTP one has an action of its own.                          *)
(***************************************************************************)
CONSTANTS
  Ids,        \* movie ids
  EmptyId,    \* the empty string as a movie id
  Values,     \* metadata records, what a row holds beside its id; fields may be empty
  Replicas,   \* running instances of the service
  Callers,    \* client goroutines; each has at most one request in progress
  None        \* nil: no row, no value

ASSUME NoneAssumption ==
  /\ EmptyId \notin Ids
  /\ None \notin Ids \cup {EmptyId}
  /\ None \notin Values

ReqIds == Ids \cup {EmptyId}

VARIABLES
  movies,     \* the movies table
  cache,      \* per replica, the data map of the repository used as a cache
  call,       \* the request each caller is waiting for
  loose,      \* INSERTs whose caller got an error and MySQL may still run
  acked,      \* history: the value of the last PutMetadata answered OK
  seen        \* history: what GetMetadata has returned

vars == <<movies, cache, call, loose, acked, seen>>

\* Where a request is: before the cache read, before the repository call,
\* before the cache fill, or with its answer ready.
Points == {"idle", "cache", "repo", "fill", "reply"}
Codes == {"none", "OK", "NotFound", "InvalidArgument", "Internal"}

CallType == [pc : Points, op : {"none", "get", "put"},
             id : ReqIds \cup {None}, val : Values \cup {None},
             at : Replicas \cup {None}, code : Codes, known : BOOLEAN]

Idle == [pc |-> "idle", op |-> "none", id |-> None, val |-> None,
         at |-> None, code |-> "none", known |-> FALSE]

EmptyMap == [i \in ReqIds |-> None]

Init ==
  /\ movies = EmptyMap
  /\ cache = [r \in Replicas |-> EmptyMap]
  /\ call = [c \in Callers |-> Idle]
  /\ loose = {}
  /\ acked = EmptyMap
  /\ seen = {}

At(c, op, pc) == call[c].op = op /\ call[c].pc = pc

\* The request of c moves on, with the value and the status it holds so far.
Advance(c, pc, val, code) ==
  call' = [call EXCEPT ![c] = [@ EXCEPT !.pc = pc, !.val = val, !.code = code]]

\* The server at r takes a new request of c.  known records whether some
\* Put of that id had been answered OK by then.
Accept(c, r, op, pc, i, v, code) ==
  /\ call[c] = Idle
  /\ call' = [call EXCEPT ![c] =
       [pc |-> pc, op |-> op, id |-> i, val |-> v, at |-> r, code |-> code,
        known |-> i # None /\ acked[i] # None]]
  /\ UNCHANGED <<movies, cache, loose, acked, seen>>

-----------------------------------------------------------------------------
(* GetMetadata *)

\* A nil request or an empty id.
RejectGet(c, r) == Accept(c, r, "get", "reply", None, None, "InvalidArgument")

InvokeGet(c, r, i) == i # EmptyId /\ Accept(c, r, "get", "cache", i, None, "none")

\* cache.Get: a hit is the answer, any error goes on to the repository.
CacheGet(c) ==
  /\ At(c, "get", "cache")
  /\ LET hit == cache[call[c].at][call[c].id] IN
       \/ hit # None /\ Advance(c, "reply", hit, "OK")
       \/ hit = None /\ Advance(c, "repo", None, "none")
  /\ UNCHANGED <<movies, cache, loose, acked, seen>>

\* repo.Get: the row goes on to the cache, ErrNotFound becomes NotFound.
RepoGet(c) ==
  /\ At(c, "get", "repo")
  /\ LET row == movies[call[c].id] IN
       \/ row # None /\ Advance(c, "fill", row, "OK")
       \/ row = None /\ Advance(c, "reply", None, "NotFound")
  /\ UNCHANGED <<movies, cache, loose, acked, seen>>

\* Faulty variants of RepoGetFails: the error goes out without a status; it
\* is taken for a missing row.
RepoGetFailsUnmapped(c) ==
  /\ At(c, "get", "repo")
  /\ Advance(c, "reply", None, "Unknown")
  /\ UNCHANGED <<movies, cache, loose, acked, seen>>
RepoGetFailsAsNotFound(c) ==
  /\ At(c, "get", "repo")
  /\ Advance(c, "reply", None, "NotFound")
  /\ UNCHANGED <<movies, cache, loose, acked, seen>>

\* Any other error of the query (connection, context) becomes Internal.
RepoGetFails(c) ==
  /\ At(c, "get", "repo")
  /\ Advance(c, "reply", None, "Internal")
  /\ UNCHANGED <<movies, cache, loose, acked, seen>>

\* The HTTP handler compares the error with the ErrNotFound of the repository,
\* but the controller has returned its own: 500 for a row that is not there.
RepoGetMissingOverHTTP(c) ==
  /\ At(c, "get", "repo")
  /\ movies[call[c].id] = None
  /\ Advance(c, "reply", None, "Internal")
  /\ UNCHANGED <<movies, cache, loose, acked, seen>>

\* cache.Put after the repository has answered.
CachePut(c) ==
  /\ At(c, "get", "fill")
  /\ cache' = [cache EXCEPT ![call[c].at][call[c].id] = call[c].val]
  /\ Advance(c, "reply", call[c].val, "OK")
  /\ UNCHANGED <<movies, loose, acked, seen>>

-----------------------------------------------------------------------------
(* PutMetadata *)

\* A nil request or nil metadata.  An empty id is not refused.
RejectPut(c, r) == Accept(c, r, "put", "reply", None, None, "InvalidArgument")

InvokePut(c, r, i, v) == Accept(c, r, "put", "repo", i, v, "none")

\* Faulty variants of RepoPut: REPLACE INTO; INSERT IGNORE; an answer before
\* the statement has run.
RepoPutReplaces(c) ==
  /\ At(c, "put", "repo")
  /\ movies' = [movies EXCEPT ![call[c].id] = call[c].val]
  /\ Advance(c, "reply", call[c].val, "OK")
  /\ UNCHANGED <<cache, loose, acked, seen>>
RepoPutIgnoresDuplicate(c) ==
  /\ At(c, "put", "repo")
  /\ movies' = [movies EXCEPT ![call[c].id] = IF @ = None THEN call[c].val ELSE @]
  /\ Advance(c, "reply", call[c].val, "OK")
  /\ UNCHANGED <<cache, loose, acked, seen>>
RepoPutAnswersEarly(c) ==
  /\ At(c, "put", "repo")
  /\ loose' = loose \cup {<<call[c].id, call[c].val>>}
  /\ Advance(c, "reply", call[c].val, "OK")
  /\ UNCHANGED <<movies, cache, acked, seen>>

\* repo.Put: MySQL inserts a row whose id is a primary key, so an id that is
\* taken is an error.
RepoPut(c) ==
  /\ At(c, "put", "repo")
  /\ \/ /\ movies[call[c].id] = None
        /\ movies' = [movies EXCEPT ![call[c].id] = call[c].val]
        /\ Advance(c, "reply", call[c].val, "OK")
     \/ /\ movies[call[c].id] # None
        /\ Advance(c, "reply", call[c].val, "Internal")
        /\ UNCHANGED movies
  /\ UNCHANGED <<cache, loose, acked, seen>>

\* The INSERT fails on the way: it never runs, or it is still on its way to
\* the table when the driver has given up on it.
RepoPutFails(c) ==
  /\ At(c, "put", "repo")
  /\ Advance(c, "reply", call[c].val, "Internal")
  /\ loose' \in {loose, loose \cup {<<call[c].id, call[c].val>>}}
  /\ UNCHANGED <<movies, cache, acked, seen>>

\* The HTTP handler writes 400 for a record that lacks a field, and stores it
\* nevertheless: whatever becomes of the INSERT, the answer is 400.
RepoPutIncompleteOverHTTP(c) ==
  /\ At(c, "put", "repo")
  /\ Advance(c, "reply", call[c].val, "InvalidArgument")
  /\ \/ /\ movies[call[c].id] = None
        /\ movies' = [movies EXCEPT ![call[c].id] = call[c].val]
        /\ UNCHANGED loose
     \/ /\ loose' \in {loose, loose \cup {<<call[c].id, call[c].val>>}}
        /\ UNCHANGED movies
  /\ UNCHANGED <<cache, acked, seen>>

\* Faulty variant of LateInsert: the table without its primary key check.
LateInsertOverwrites(w) ==
  /\ loose' = loose \ {w}
  /\ movies' = [movies EXCEPT ![w[1]] = w[2]]
  /\ UNCHANGED <<cache, call, acked, seen>>

\* MySQL runs an INSERT nobody waits for; a duplicate key is an error again.
LateInsert(w) ==
  /\ loose' = loose \ {w}
  /\ movies' = [movies EXCEPT ![w[1]] = IF @ = None THEN w[2] ELSE @]
  /\ UNCHANGED <<cache, call, acked, seen>>

-----------------------------------------------------------------------------
\* The handler returns and the caller has its answer.
Reply(c) ==
  /\ call[c].pc = "reply"
  /\ call' = [call EXCEPT ![c] = Idle]
  /\ acked' = IF call[c].op = "put" /\ call[c].code = "OK"
                THEN [acked EXCEPT ![call[c].id] = call[c].val] ELSE acked
  /\ seen' = IF call[c].op = "get" /\ call[c].code = "OK"
               THEN seen \cup {<<call[c].id, call[c].val>>} ELSE seen
  /\ UNCHANGED <<movies, cache, loose>>

\* A replica dies and is restarted with an empty cache; its requests end
\* without an answer, and an INSERT it had sent may still run.
Crash(r) ==
  /\ cache' = [cache EXCEPT ![r] = EmptyMap]
  /\ call' = [c \in Callers |-> IF call[c].at = r THEN Idle ELSE call[c]]
  /\ \E W \in SUBSET {c \in Callers : call[c].at = r /\ At(c, "put", "repo")} :
       loose' = loose \cup {<<call[c].id, call[c].val>> : c \in W}
  /\ UNCHANGED <<movies, acked, seen>>

Invoke(c) ==
  \E r \in Replicas :
    \/ RejectGet(c, r)
    \/ RejectPut(c, r)
    \/ \E i \in ReqIds : InvokeGet(c, r, i)
    \/ \E i \in ReqIds, v \in Values : InvokePut(c, r, i, v)

\* What the server does for the request of c, without waiting for anyone.
Handle(c) ==
  \/ CacheGet(c) \/ RepoGet(c) \/ RepoGetFails(c) \/ RepoGetMissingOverHTTP(c) \/ CachePut(c)
  \/ RepoPut(c) \/ RepoPutFails(c) \/ RepoPutIncompleteOverHTTP(c)
  \/ Reply(c)

Next ==
  \/ \E c \in Callers : Invoke(c) \/ Handle(c)
  \/ \E w \in loose : LateInsert(w)
  \/ \E r \in Replicas : Crash(r)

Spec == Init /\ [][Next]_vars

-----------------------------------------------------------------------------
(* Properties *)

\* Types of the variables.
TypeOK ==
  /\ movies \in [ReqIds -> Values \cup {None}]
  /\ cache \in [Replicas -> [ReqIds -> Values \cup {None}]]
  /\ call \in [Callers -> CallType]
  /\ loose \subseteq ReqIds \X Values
  /\ acked \in [ReqIds -> Values \cup {None}]
  /\ seen \subseteq ReqIds \X Values

\* A cached value is the value of the row, on every replica and at every
\* moment, though Put never invalidates a cache (controller.go:59-62) and a
\* fill may come long after the read it stores (controller.go:44-51).  It
\* holds only because the repository refuses to change a row.
CacheCoherent ==
  \A r \in Replicas, i \in ReqIds :
    cache[r][i] # None => cache[r][i] = movies[i]

\* A Put answered OK is in the table and stays there, whatever other Puts,
\* late statements or crashes do.
AckedIsStored == \A i \in ReqIds : acked[i] # None => movies[i] = acked[i]

\* What one Get has returned, from any replica, is what the table holds from
\* then on: no two Gets of an id return different metadata.
SeenIsStored == \A s \in seen : movies[s[1]] = s[2]

\* Read your writes across replicas: NotFound is never the answer to a Get
\* that arrived after a Put of that id had been answered OK, by any replica.
ReadYourWrites ==
  \A c \in Callers : call[c].code = "NotFound" => ~ call[c].known

-----------------------------------------------------------------------------
(* The service with its caches implements one store that is written once.  *)

\* What a caller can tell of its request: the answer is fixed by the read of
\* the cache or of the repository; the fill after it changes nothing.
CallView(c) ==
  [phase |-> CASE call[c].pc = "idle" -> "idle"
               [] call[c].pc \in {"cache", "repo"} -> "open"
               [] OTHER -> "fixed",
   op |-> call[c].op, id |-> call[c].id, val |-> call[c].val,
   code |-> call[c].code]

View == [c \in Callers |-> CallView(c)]

Store == INSTANCE WriteOnceStore WITH store <- movies, call <- View

\* Every answer of a replica is one that a single uncached write-once store
\* could have given at some instant between the request and the answer.
ImplementsWriteOnceStore == Store!Spec
=============================================================================
