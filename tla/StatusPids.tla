----------------------------- MODULE StatusPids -----------------------------
(***************************************************************************)
(* The list of PIDs in a `bpolicy status` (src/src/status.rs), put         *)
(* together beside the forks, exits and commands that change the map it is *)
(* read from.                                                              *)
(*                                                                         *)
(* bpftool opens the pinned map and then walks it, one get_next_key and    *)
(* one lookup at a time.  The walk has no snapshot: it follows the order   *)
(* of the hash slots, finds a key that is inserted under it or not,        *)
(* depending on its slot, and starts again at the first slot when the key  *)
(* it stands on has been deleted.  A key that is written again goes to the *)
(* head of its slot, which may be behind the walk.  An open map outlives   *)
(* an unload.                                                              *)
(* The report's counters and mode are StatusRead's, its TTL StatusTtl's.   *)
(***************************************************************************)
EXTENDS ProcessTree

CONSTANT MaxOverlap \* bound: steps of the tree and of commands under one status

ASSUME OverlapAssumption == MaxOverlap \in Nat

VARIABLE report \* the status under way, or the last one

svars == <<vars, report>>

\* key: the key the walk stands on; ahead: keys whose slots it has yet to reach;
\* told: the PIDs found; read: bpftool has opened the map.  steady is history:
\* the processes that have been restricted ever since the status began, and whose
\* keys nobody has written again.
NoReport == [at |-> "idle", key |-> {}, ahead |-> {}, told |-> {}, read |-> FALSE,
             steady |-> {}, steps |-> 0]

\* Enforced or descended from an enforced process, and past its fork hook; of
\* no use once a fork hook has found the map full.
Restricted == {p \in covered : ~missed /\ ~Forking(p)}

\* The report is out, and the walk forgotten.
Printed(pids) == [NoReport EXCEPT !.at = "printed", !.told = pids,
                                  !.read = report.read, !.steady = report.steady]

\* is_loaded.  When it says no, `{"loaded": false}` is all there is.
StatusBegin ==
    /\ report.at \in {"idle", "printed"}
    /\ loaded
    /\ report' = [NoReport EXCEPT !.at = "open", !.steady = Restricted]
    /\ UNCHANGED vars

\* bpftool opens the map, or prints nothing: parse_pids of nothing is [].
OpenPids ==
    /\ report.at = "open"
    /\ UNCHANGED vars
    /\ \/ /\ loaded
          /\ report' = [report EXCEPT !.at = "next", !.read = TRUE]
       \/ /\ ~loaded \/ SudoFails
          /\ report' = Printed(report.told)

\* At the start, and when its own key is gone, the walk has all keys ahead.
Ahead == IF report.key # {} /\ report.key \subseteq protected
         THEN report.ahead ELSE protected

\* The next key is one of those, or one that was put ahead of them meanwhile.
NextKey ==
    /\ report.at = "next"
    /\ \E p \in Ahead \cup (protected \ report.told) :
           report' = [report EXCEPT !.at = "lookup", !.key = {p}, !.ahead = Ahead \ {p}]
    /\ UNCHANGED vars

\* parse_pids: an entry whose lookup failed has no "formatted" and is left out.
\* Mutant: one such entry and the whole list is taken for unreadable.
ListUnreadable == {}
WithoutEntry   == report.told

LookupKey ==
    /\ report.at = "lookup"
    /\ UNCHANGED vars
    /\ \E p \in report.key :
          \/ /\ p \in protected
             /\ report' = [report EXCEPT !.at = "next", !.told = @ \cup {p}]
          \/ /\ p \notin protected
             /\ report' = [report EXCEPT !.at = "next", !.told = WithoutEntry]

\* What the walk still finds if the map stays as it is.
RestOfWalk == IF report.at = "lookup" THEN (Ahead \cup report.key) \cap protected
              ELSE Ahead

\* No key lies ahead; the status reads the other maps and prints.
EndOfMap ==
    /\ report.at = "next"
    /\ Ahead = {}
    /\ report' = Printed(report.told)
    /\ UNCHANGED vars

-----------------------------------------------------------------------------

SInit == Init /\ report = NoReport

Walking == report.at \in {"next", "lookup"}

\* The keys of the map that a step writes again: an enforce of a PID that is
\* restricted already, or the hook of a thread that is cloned.
Rewritten ==
    {p \in protected : \/ cmd.op = "enforce" /\ Pid = p /\ Advance
                       \/ \E h \in hooks \ hooks' : h.hit /\ h.child = p}

\* What the walk may have ahead after a step.  A key written again is ahead or
\* behind from then on; if it is the one the walk stands on, others of its slot
\* come once more.
StillAhead ==
    {keys \in SUBSET protected' :
        /\ (report.ahead \cap protected') \ Rewritten \subseteq keys
        /\ keys \subseteq report.ahead \cup
                          (IF report.key \cap Rewritten # {} THEN protected ELSE {})}

\* A step of the tree or of a command, seen from the status under way.  When it
\* is an unload, nobody changes the map that bpftool has open any more, and the
\* rest of the walk is this step.  A report is forgotten after it was printed.
TreeStep ==
    /\ Next
    /\ report.steps < MaxOverlap
    /\ \/ report.at \in {"idle", "printed"} /\ report' = NoReport
       \/ Walking /\ ~loaded' /\ report' = Printed(report.told \cup RestOfWalk)
       \/ /\ report.at = "open" \/ (Walking /\ loaded')
          /\ \E keys \in StillAhead :
                 report' = [report EXCEPT
                              !.steps = @ + 1,
                              !.ahead = keys,
                              !.steady = (@ \cap Restricted') \ Rewritten]

SNext ==
    \/ TreeStep
    \/ StatusBegin \/ OpenPids \/ NextKey \/ LookupKey \/ EndOfMap

SSpec == SInit /\ [][SNext]_svars

-----------------------------------------------------------------------------
(* Properties *)

\* Every process that was restricted, by a command or by descent, before the
\* status began and until it printed is in its list, whatever else forks, exits,
\* is enforced or released under the walk (while the map has room), unless its
\* own key was written again.
RestrictedAreReported ==
    report.at = "printed" /\ report.read => report.steady \subseteq report.told

=============================================================================
