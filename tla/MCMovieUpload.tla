---------------------------- MODULE MCMovieUpload ----------------------------
(* MovieUpload with a few uploads of short files, for TLC. *)
EXTENDS MovieUpload
=============================================================================
