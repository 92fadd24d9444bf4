---------------------------- MODULE MCMovieDetails ----------------------------
(* MovieDetails with a few calls, for TLC.  No symmetry: the passing run     *)
(* checks a liveness property.                                               *)
EXTENDS MovieDetails
=============================================================================
