--------------------------- MODULE MCProcessTree ---------------------------
(* Symmetry of ProcessTree's constants for TLC. *)
EXTENDS ProcessTree, TLC

\* PIDs are interchangeable.  Used with invariants and action properties, never with liveness.
PidSymmetry == Permutations(Pids)
=============================================================================
