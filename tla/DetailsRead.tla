----------------------------- MODULE DetailsRead -----------------------------
(***************************************************************************)
(* What GetMovieDetails promises a caller                                  *)
(*   movie/internal/controller/movie/controller.go                         *)
(* "Get returns the movie details including the aggregated rating and      *)
(* movie metadata": both as they are stored at one instant of the call, or *)
(* an error.  There is no registry here, no instance, no retry, no         *)
(* deadline and no panic; MovieDetails shows that what the handlers,       *)
(* gateways and backends do together is one such read.                     *)
(***************************************************************************)
CONSTANTS
  Calls,
  Records   \* what may be stored of the movie: "metadata", "rating"

VARIABLES
  status,   \* "idle", "open", or what a call is answered with
  rating,   \* the aggregated rating in an answer, "nil" if there is none
  records   \* what is stored

vars == <<status, rating, records>>

Errors == {"InvalidArgument", "ResourceExhausted", "Internal", "Unavailable"}

Init ==
  /\ status = [c \in Calls |-> "idle"]
  /\ rating = [c \in Calls |-> "nil"]
  /\ records = {}

Ask(c) ==
  /\ status[c] = "idle"
  /\ \E s \in {"open"} \cup Errors : status' = [status EXCEPT ![c] = s]
  /\ UNCHANGED <<rating, records>>

\* Metadata and rating are read at once; a movie may have no rating.
Get(c) ==
  /\ status[c] = "open" /\ "metadata" \in records
  /\ status' = [status EXCEPT ![c] = "OK"]
  /\ rating' = [rating EXCEPT ![c] = IF "rating" \in records THEN "value" ELSE "nil"]
  /\ UNCHANGED records

Refuse(c) ==
  /\ status[c] = "open"
  /\ \E s \in Errors : status' = [status EXCEPT ![c] = s]
  /\ UNCHANGED <<rating, records>>

Take(c) ==
  /\ status[c] \notin {"idle", "open"}
  /\ status' = [status EXCEPT ![c] = "idle"]
  /\ rating' = [rating EXCEPT ![c] = "nil"]
  /\ UNCHANGED records

AddRecord(r) ==
  /\ records' = records \cup {r}
  /\ UNCHANGED <<status, rating>>

Next ==
  \/ \E c \in Calls : Ask(c) \/ Get(c) \/ Refuse(c) \/ Take(c)
  \/ \E r \in Records : AddRecord(r)

Spec == Init /\ [][Next]_vars
=============================================================================
