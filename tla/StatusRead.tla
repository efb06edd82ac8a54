----------------------------- MODULE StatusRead -----------------------------
(***************************************************************************)
(* `bpolicy status` (src/src/status.rs) beside the hook it reports about.  *)
(*                                                                         *)
(* The command asks is_loaded, then runs one `bpftool map dump` per map.   *)
(* bpftool opens the pinned map and then reads one counter after the       *)
(* other, while hooks, loads and unloads go on.  A map that bpftool has    *)
(* open outlives an unload; a dump that fails prints nothing, and nothing  *)
(* is what the parsers take for an empty map.  The list of PIDs and the    *)
(* TTL of the report belong to ProcessTree and ControlPlane.               *)
(***************************************************************************)
EXTENDS OpenHook

CONSTANTS
    Reports, \* bound: how many times status is run
    SudoFails \* whether sudo may fail: bpftool then prints nothing

ASSUME ReportsAssumption == Reports \in Nat /\ SudoFails \in BOOLEAN

VARIABLES
    status, \* the command under way, and what it has read so far
    runs,   \* how often it was run (bound)
    behind  \* history: opens under way when CHECKED was read

view  == <<status, runs, behind>>
svars == <<vars, view>>

\* held: the counters of the map that bpftool has open, once it is unpinned;
\* late: opens that were under way then, and end on that map.
NoStatus == [pc |-> "idle", next |-> 1, counts |-> <<>>, mode |-> "none",
             open |-> FALSE, held |-> NoCounts, late |-> 0]

UnderWay == Cardinality({t \in Tasks : InFlight(t)})

\* The index of each counter in the array map, from 1: bpftool reads them in
\* this order.  Mutant: the array laid out the other way round.
StatsReversed == <<"denied", "allowed", "checked">>
StatsOrder    == <<"checked", "allowed", "denied">>

StatusBegin ==
    /\ status.pc \in {"idle", "printed"}
    /\ runs < Reports
    /\ runs' = runs + 1
    /\ behind' = 0
    /\ UNCHANGED vars
    /\ \/ /\ loaded
          /\ status' = [NoStatus EXCEPT !.pc = "stats"]
       \/ /\ ~loaded \/ SudoFails
          /\ status' = [NoStatus EXCEPT !.pc = "printed"]

\* bpftool opens the stats map, or prints nothing.
OpenStats ==
    /\ status.pc = "stats"
    /\ UNCHANGED <<vars, runs, behind>>
    /\ \/ /\ loaded
          /\ status' = [status EXCEPT !.pc = "counters", !.open = TRUE]
       \/ /\ ~loaded \/ SudoFails
          /\ status' = [status EXCEPT !.pc = "config"]

Counter == StatsOrder[status.next]

\* The value is taken, and bpftool goes on with the next key.
Take(value, ended) ==
    status' = [status EXCEPT !.counts = Append(@, value),
                             !.next = @ + 1,
                             !.late = @ - ended,
                             !.pc = IF status.next = Len(StatsOrder)
                                    THEN "config" ELSE @]

ReadCounter ==
    /\ status.pc = "counters"
    /\ UNCHANGED <<vars, runs>>
    /\ \/ /\ status.open
          /\ Take(stats[Counter], 0)
          /\ behind' = IF Counter = "checked" THEN UnderWay ELSE behind
       \/ /\ ~status.open
          /\ \E ended \in IF Counter = "checked" THEN {0} ELSE 0..status.late :
                Take(status.held[Counter] + ended, ended)
          /\ behind' = IF Counter = "checked" THEN status.late ELSE behind

\* The config map's dump; parse_mode of nothing is None, taken as enforce.
ReadConfig ==
    /\ status.pc = "config"
    /\ UNCHANGED <<vars, runs, behind>>
    /\ \/ /\ loaded
          /\ status' = [status EXCEPT !.pc = "printed", !.mode = mode]
       \/ /\ ~loaded \/ SudoFails
          /\ status' = [status EXCEPT !.pc = "printed", !.mode = "enforce"]

-----------------------------------------------------------------------------

SInit ==
    /\ Init
    /\ status = NoStatus
    /\ runs = 0
    /\ behind = 0

\* A step of the enforcer, seen from a status under way.
Enforcer ==
    /\ Next
    /\ status' = IF loaded /\ ~loaded' /\ status.open
                 THEN [status EXCEPT !.open = FALSE, !.held = stats, !.late = UnderWay]
                 ELSE status
    /\ UNCHANGED <<runs, behind>>

SNext ==
    \/ Enforcer
    \/ StatusBegin \/ OpenStats \/ ReadCounter \/ ReadConfig

SSpec == SInit /\ [][SNext]_svars

-----------------------------------------------------------------------------
(* Properties *)

Reported(counter) ==
    status.counts[CHOOSE n \in DOMAIN StatsOrder : StatsOrder[n] = counter]

Complete == status.pc = "printed" /\ Len(status.counts) = Len(StatsOrder)

\* The counters of one report are read at different times, but no checked open
\* gets lost between them: those neither allowed nor denied in the report were
\* under way when its first counter was read.
ReportLosesNoOpen ==
    Complete => Reported("checked") <= Reported("allowed") + Reported("denied") + behind

=============================================================================
