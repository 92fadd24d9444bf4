--------------------------- MODULE MCServiceProcess ---------------------------
(* ServiceProcess with a few calls, for TLC. *)
EXTENDS ServiceProcess
=============================================================================
