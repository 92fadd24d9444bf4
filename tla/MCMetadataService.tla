------------------------- MODULE MCMetadataService -------------------------
(* MetadataService on small sets, for TLC. *)
EXTENDS MetadataService, TLC

\* Values are never compared with each other by the code, and neither are
\* replicas or callers; ids are kept apart by EmptyId.  Sound, since the
\* properties and the refinement are of safety and symmetric as well.
Symmetric == Permutations(Values) \cup Permutations(Replicas) \cup Permutations(Callers)
=============================================================================
