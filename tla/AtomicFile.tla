----------------------------- MODULE AtomicFile -----------------------------
(***************************************************************************)
(* What replacing a file through a temporary promises (bpf/build.sh, and   *)
(* write_state_to in src/src/deadman.rs): whoever opens the file finds     *)
(* nothing, or all of what one writer wrote, never a part and never a mix. *)
(***************************************************************************)

CONSTANTS
    Writers, \* processes that replace the file
    Absent   \* there is no such file

VARIABLES
    value,  \* whose content the file has, or Absent
    writing \* writers at work

vars == <<value, writing>>

Init == value = Absent /\ writing = {}

Start(w) ==
    /\ w \notin writing
    /\ writing' = writing \cup {w}
    /\ UNCHANGED value

\* The new content is there at once, for everybody.
Replace(w) ==
    /\ w \in writing
    /\ value' = w
    /\ writing' = writing \ {w}

\* A writer that fails or is killed leaves the file as it was.
GiveUp(w) ==
    /\ w \in writing
    /\ writing' = writing \ {w}
    /\ UNCHANGED value

Remove == value' = Absent /\ UNCHANGED writing

Next ==
    \/ \E w \in Writers : Start(w) \/ Replace(w) \/ GiveUp(w)
    \/ Remove

Spec == Init /\ [][Next]_vars
=============================================================================
