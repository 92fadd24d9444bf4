----------------------------- MODULE MCMovieLock -----------------------------
(* MovieLock on small sets, for TLC.  One unit of time is 5 seconds. *)
EXTENDS MovieLock, TLC

\* Instances run the same program; for the safety run only.
Symmetric == Permutations(Instances)
=============================================================================
