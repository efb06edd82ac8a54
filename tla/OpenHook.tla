------------------------------ MODULE OpenHook ------------------------------
(***************************************************************************)
(* The write-open hook of bpf/bpolicy.bpf.c: tasks that run                *)
(* file_open_check, while `bpolicy load` (src/src/bpf.rs) is still filling *)
(* the allow-list map and writing the mode, and while `unload` takes the   *)
(* program away.                                                           *)
(*                                                                         *)
(* The hook does not disable preemption: it builds its lookup keys in a    *)
(* per-CPU slot that tasks of one CPU share.  Each access to a map or to   *)
(* that slot is one action; what a task does with its own stack between    *)
(* two of them is folded into the next.                                    *)
(***************************************************************************)
EXTENDS PrefixMatch

CONSTANTS
    Tasks,    \* protected processes that open files for writing
    Cpus,     \* CPUs
    CpuOf,    \* CpuOf[t]: the CPU task t runs on
    Paths,    \* the paths they open
    Profiles, \* sets of prefixes that a load may be given
    MaxOpens  \* bound: write-opens under one load

ASSUME TasksAssumption == CpuOf \in [Tasks -> Cpus]
ASSUME PathsAssumption ==
    /\ Paths \subseteq Seq(Chars) \ {<<>>}
    /\ \A f \in Profiles : f \subseteq Seq(Chars)
ASSUME BoundsAssumption == MaxOpens \in Nat

VARIABLES
    loaded,    \* the program is attached
    request,   \* the load's profile, and whether it has --audit
    mode,      \* bpolicy_config[0]
    allowlist, \* keys of the allow-list map, as prefixes
    stats,     \* the counters; FORKED_IN belongs to the fork hook
    scratch,   \* key_scratch: one candidate key per CPU
    hook       \* each task's run of the hook

control == <<loaded, request>>
vars    == <<loaded, request, mode, allowlist, stats, scratch, hook>>

NoRequest == [profile |-> {}, audit |-> FALSE]
NoKey     == [len |-> 0, data |-> <<>>]
NoCounts  == [checked |-> 0, allowed |-> 0, denied |-> 0]

\* saw and then are history: the allow-list and the mode when the open began.
NoHook == [pc |-> "idle", path |-> <<>>, i |-> 0, ret |-> "none",
           saw |-> {}, then |-> "enforce"]

InFlight(t) == hook[t].pc \in {"resolve", "walk", "copy", "lookup"}

Path(t) == hook[t].path

\* The key that a slot holds, as the hash map compares it: length and bytes.
Holds(cpu, prefix) == scratch[cpu] = prefix_to_key_bytes(prefix)

-----------------------------------------------------------------------------
(* load and unload *)

Load(profile, audit) ==
    /\ ~loaded
    /\ loaded' = TRUE
    /\ request' = [profile |-> profile, audit |-> audit]
    /\ mode' = "enforce"
    /\ allowlist' = {}
    /\ stats' = NoCounts
    /\ scratch' = [cpu \in Cpus |-> NoKey]
    /\ hook' = [t \in Tasks |-> NoHook]

\* One iteration of the loop over the profile.  A prefix without a key ends it.
AllowlistAdd(prefix) ==
    /\ loaded
    /\ prefix \in request.profile \ allowlist
    /\ validate_prefix(prefix)
    /\ HasKey(prefix)
    /\ allowlist' = allowlist \cup {prefix}
    /\ UNCHANGED <<control, mode, stats, scratch, hook>>

WriteMode ==
    /\ loaded
    /\ allowlist = request.profile
    /\ mode' = IF request.audit THEN "audit" ELSE "enforce"
    /\ mode' # mode
    /\ UNCHANGED <<control, allowlist, stats, scratch, hook>>

\* Runs of the hook that are under way end on maps nobody can read any more.
Unload ==
    /\ loaded
    /\ loaded' = FALSE
    /\ request' = NoRequest
    /\ mode' = "enforce"
    /\ allowlist' = {}
    /\ stats' = NoCounts
    /\ scratch' = [cpu \in Cpus |-> NoKey]
    /\ hook' = [t \in Tasks |-> NoHook]

-----------------------------------------------------------------------------
(* file_open_check *)

\* bump is an atomic add.
Bump(counter) == stats' = [stats EXCEPT ![counter] = @ + 1]

Return(t, ret) == hook' = [hook EXCEPT ![t].pc = "done", ![t].ret = ret]

\* The opens that reach the rule: the task is protected and the mode is write.
Open(t, path) ==
    /\ loaded
    /\ ~InFlight(t)
    /\ hook[t].pc # "denied"
    /\ stats.checked < MaxOpens
    /\ Bump("checked")
    /\ hook' = [hook EXCEPT ![t] = [NoHook EXCEPT !.pc = "resolve", !.path = path,
                                                  !.saw = allowlist, !.then = mode]]
    /\ UNCHANGED <<control, mode, allowlist, scratch>>

\* A path that cannot be resolved is allowed; so is one of the defaults.  For
\* the others the slot is zeroed and the walk begins.
Resolve(t) ==
    /\ hook[t].pc = "resolve"
    /\ UNCHANGED <<control, mode, allowlist>>
    /\ \/ /\ ~DPathFits(Path(t)) \/ path_allowed_defaults(Path(t))
          /\ Bump("allowed")
          /\ Return(t, "ok")
          /\ UNCHANGED scratch
       \/ /\ DPathFits(Path(t))
          /\ ~path_allowed_defaults(Path(t))
          /\ scratch' = [scratch EXCEPT ![CpuOf[t]] = NoKey]
          /\ hook' = [hook EXCEPT ![t].pc = "walk", ![t].i = 1]
          /\ UNCHANGED stats

\* The boundaries the walk has still before it.
Ahead(t) == {i \in hook[t].i..WalkEnd(Path(t)) : Boundary(Path(t), i)}

\* k->len = i at the next boundary.
NextCandidate(t) ==
    /\ hook[t].pc = "walk"
    /\ \E i \in Ahead(t) :
          /\ \A j \in Ahead(t) : i <= j
          /\ scratch' = [scratch EXCEPT ![CpuOf[t]].len = i]
          /\ hook' = [hook EXCEPT ![t].pc = "copy", ![t].i = i]
    /\ UNCHANGED <<control, mode, allowlist, stats>>

\* The bytes of the candidate, and zeroes behind them.
CopyPath(t) ==
    /\ hook[t].pc = "copy"
    /\ scratch' = [scratch EXCEPT ![CpuOf[t]].data = Candidate(Path(t), hook[t].i).data]
    /\ hook' = [hook EXCEPT ![t].pc = "lookup"]
    /\ UNCHANGED <<control, mode, allowlist, stats>>

Lookup(t) ==
    /\ hook[t].pc = "lookup"
    /\ UNCHANGED <<control, mode, allowlist, scratch>>
    /\ \/ /\ \E prefix \in allowlist : Holds(CpuOf[t], prefix)
          /\ Bump("allowed")
          /\ Return(t, "ok")
       \/ /\ ~\E prefix \in allowlist : Holds(CpuOf[t], prefix)
          /\ hook' = [hook EXCEPT ![t].pc = "walk", ![t].i = @ + 1]
          /\ UNCHANGED stats

\* No candidate is left.  Mutant: a denial is not counted.
DenialNotCounted == UNCHANGED stats
CountDenial      == Bump("denied")

Deny(t) ==
    /\ hook[t].pc = "walk"
    /\ Ahead(t) = {}
    /\ CountDenial
    /\ hook' = [hook EXCEPT ![t].pc = "denied"]
    /\ UNCHANGED <<control, mode, allowlist, scratch>>

\* An audit returns the verdict, and lets the open pass.
DenialInThisMode == IF mode = "audit" THEN "ok" ELSE "EPERM"

ReadMode(t) ==
    /\ hook[t].pc = "denied"
    /\ Return(t, DenialInThisMode)
    /\ UNCHANGED <<control, mode, allowlist, stats, scratch>>

-----------------------------------------------------------------------------

Init ==
    /\ loaded = FALSE
    /\ request = NoRequest
    /\ mode = "enforce"
    /\ allowlist = {}
    /\ stats = NoCounts
    /\ scratch = [cpu \in Cpus |-> NoKey]
    /\ hook = [t \in Tasks |-> NoHook]

HookStep(t) ==
    \/ Resolve(t) \/ NextCandidate(t) \/ CopyPath(t) \/ Lookup(t)
    \/ Deny(t) \/ ReadMode(t)

Next ==
    \/ \E profile \in Profiles, audit \in BOOLEAN : Load(profile, audit)
    \/ \E prefix \in request.profile : AllowlistAdd(prefix)
    \/ WriteMode
    \/ Unload
    \/ \E t \in Tasks, path \in Paths : Open(t, path)
    \/ \E t \in Tasks : HookStep(t)

Spec == Init /\ [][Next]_vars

-----------------------------------------------------------------------------
(* Properties *)

\* Every variable holds a value of its type; a key never outgrows its slot.
TypeOK ==
    /\ loaded \in BOOLEAN
    /\ request \in [profile : Profiles \cup {{}}, audit : BOOLEAN]
    /\ mode \in {"audit", "enforce"}
    /\ allowlist \subseteq request.profile
    /\ stats \in [{"checked", "allowed", "denied"} -> 0..MaxOpens]
    /\ \A cpu \in Cpus : /\ scratch[cpu].len \in 0..MaxPrefix
                         /\ Len(scratch[cpu].data) <= MaxPrefix
    /\ \A t \in Tasks : /\ hook[t].i \in 0..MaxPrefix + 1
                        /\ InFlight(t) => hook[t].path \in Paths

\* The hook and `bpolicy policy check` decide alike (policy.rs: both implement
\* the same rule), under a load that is still adding prefixes: what the hook
\* lets through is allowed by the prefixes in the map when it returns, what it
\* denies was not allowed by the prefixes in the map when the open began.
HookMirrorsPolicy ==
    \A t \in Tasks :
        /\ hook[t].pc = "done" /\ hook[t].ret = "ok" /\ hook[t].then = "enforce"
              /\ mode = "enforce" => is_allowed(Path(t), allowlist)
        /\ hook[t].pc = "denied" => ~is_allowed(Path(t), hook[t].saw)

\* Every open that was counted as checked is under way, or was counted once as
\* allowed or denied.
CountsAddUp ==
    stats.checked = stats.allowed + stats.denied
                        + Cardinality({t \in Tasks : InFlight(t)})

\* README.md and audit.rs: a program loaded with --audit refuses nothing, from
\* its first call.  False: it is attached before its mode is written, and an open
\* in between is judged by the mode of an empty map (Finding_audit_refuses).
AuditRefusesNothing ==
    request.audit => \A t \in Tasks : hook[t].ret # "EPERM"

=============================================================================
