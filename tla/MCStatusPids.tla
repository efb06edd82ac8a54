---------------------------- MODULE MCStatusPids ----------------------------
(* Symmetry of StatusPids' constants for TLC. *)
EXTENDS StatusPids, TLC

\* PIDs are interchangeable.  Used with invariants and action properties, never with liveness.
PidSymmetry == Permutations(Pids)
=============================================================================
