--------------------------- MODULE MCControlPlane ---------------------------
(* Values of ControlPlane's constants for TLC. *)
EXTENDS ControlPlane, TLC

\* tight: the compiled defaults, nothing to populate; workspace: two prefixes;
\* broken: passes validate_prefix, but its second key does not fit the map;
\* unknown: not in the policy file.
ProfilesMC == {"tight", "workspace", "broken", "unknown"}
GoodProfilesMC == {"tight", "workspace", "unknown"}
AllowMC == [f \in ProfilesMC |->
    CASE f = "workspace" -> <<"work", "var">>
      [] f = "broken"    -> <<"work", "toolong">>
      [] OTHER           -> <<>>]
RejectedMC == {"unknown"}
TooLongMC == {"toolong"}

\* The shells are interchangeable.  Used with invariants only.
ClientSymmetry == Permutations(Clients)
=============================================================================
