----------------------------- MODULE MCDiscovery -----------------------------
(* Discovery with a few instances, for TLC.  No symmetry: the run checks a   *)
(* liveness property.                                                        *)
EXTENDS Discovery
=============================================================================
