---------------------------- MODULE ControlPlane ----------------------------
(***************************************************************************)
(* The bpolicy command line: `load`, `unload` and `renew`                  *)
(* (src/src/bpf.rs, src/src/deadman.rs), the deadman that runs             *)
(* `bpolicy unload` when the TTL of a load is over, and what the commands  *)
(* share: the kernel's pinned program and maps, the state file with its    *)
(* temporary, and the user manager's one watchdog unit.                    *)
(*                                                                         *)
(* A command is a sequence of subprocesses (sudo, bpftool, systemctl,      *)
(* systemd-run) and file operations; nothing locks anything, so each of    *)
(* those is one action, and the commands of several processes interleave   *)
(* between any two of them.                                                *)
(*                                                                         *)
(* Time is kept as countdowns.  The expiry of the state file, of the       *)
(* watchdog and of the promise made to the operator is how many seconds    *)
(* remain until it (what ttl_remaining computes), and Tick takes one from  *)
(* each, so no clock value grows without bound.                            *)
(***************************************************************************)
EXTENDS Integers, Sequences, FiniteSets

CONSTANTS
    Clients,      \* the operator's shells: each runs one command at a time
    Deadman,      \* the process the watchdog starts: ExecStart=bpolicy unload
    Profiles,     \* what --profile may name
    Allow,        \* Allow[f]: the prefixes of profile f, in file order
    Rejected,     \* profiles refused by lookup, parsing or validate_prefix
    TooLong,      \* prefixes whose key exceeds the allow-list map's key size
    AllowCap,     \* max_entries of the allow-list map
    TTLs,         \* values of load's --ttl, 0 = permanent
    RenewTTLs,    \* values of renew's --ttl, 0 = keep the stored one
    DefaultTtl,   \* DEFAULT_TTL_SECS
    Faults,       \* what may go wrong in this instance
    Ops           \* which commands the clients use in this instance

Prefixes(f) == {Allow[f][n] : n \in 1..Len(Allow[f])}

ASSUME DeadmanAssumption == Deadman \notin Clients
ASSUME ProfilesAssumption ==
    /\ \A f \in Profiles : Allow[f] \in Seq(Prefixes(f))
    /\ Rejected \subseteq Profiles
ASSUME NumbersAssumption ==
    /\ TTLs \subseteq Nat
    /\ RenewTTLs \subseteq Nat
    /\ DefaultTtl \in Nat \ {0}
    /\ AllowCap \in Nat
ASSUME EnvironmentAssumption ==
    /\ Faults \subseteq {"sudo", "io", "systemd", "kill", "reboot", "logout"}
    /\ Ops \subseteq {"load", "unload", "renew"}

Procs == Clients \cup {Deadman}

VARIABLES
    pc,        \* where each process is in its command
    job,       \* the arguments of each process's command
    attached,  \* the enforcer's pins exist: program attached, maps pinned
    mode,      \* bpolicy_config[0] of the pinned maps
    allowlist, \* keys of the allow-list map
    state,     \* deadman.json
    tmp,       \* deadman.tmp, the one temporary name every writer uses
    timer,     \* the pending timer of bpolicy-deadman
    arm,       \* history: what the load that attached the program promised
    trouble    \* history: since then a command reported an error or was cut short

kernel == <<attached, mode, allowlist>>
files  == <<state, tmp>>
ghosts == <<arm, trouble>>
vars   == <<pc, job, attached, mode, allowlist, state, tmp, timer, arm, trouble>>

NoJob  == [op |-> "none", profile |-> "none", audit |-> FALSE, ttl |-> 0, i |-> 0]
NoFile == [here |-> FALSE, ttl |-> 0, left |-> 0]
NoTimer == [set |-> FALSE, left |-> 0]
NoArm  == [profile |-> "none", audit |-> FALSE, ttl |-> 0, left |-> 0]

Idle(p) == pc[p] = "idle"
AtRest  == \A c \in Clients : Idle(c)

Goto(p, label) == pc' = [pc EXCEPT ![p] = label]

Finish(p) == /\ pc' = [pc EXCEPT ![p] = "idle"]
             /\ job' = [job EXCEPT ![p] = NoJob]

\* An error reaches the caller: the `?` of the Rust code.  Nothing is undone.
Fail(p) == /\ Finish(p)
           /\ trouble' = attached

May(fault) == fault \in Faults

-----------------------------------------------------------------------------
(* bpolicy load *)

interlock_allows(audit, yes, tty) == audit \/ yes \/ ~tty

\* is_loaded runs `sudo -n test -e PIN`; sudo's own failure reads as "absent".
SaysLoaded(answer) == \/ answer = attached
                      \/ May("sudo") /\ answer = FALSE

\* Everything cmd_load does before it touches the kernel.
LoadBegin(c, profile, audit, yes, tty, ttl) ==
    /\ "load" \in Ops
    /\ Idle(c)
    /\ UNCHANGED <<kernel, files, timer, arm>>
    /\ \/ /\ SaysLoaded(TRUE)
          /\ UNCHANGED <<pc, job, trouble>>
       \/ /\ SaysLoaded(FALSE)
          /\ profile \in Rejected \/ ~interlock_allows(audit, yes, tty)
          /\ Fail(c)
       \/ /\ SaysLoaded(FALSE)
          /\ profile \notin Rejected
          /\ interlock_allows(audit, yes, tty)
          /\ Goto(c, "load_prog")
          /\ job' = [job EXCEPT ![c] = [op |-> "load", profile |-> profile,
                                        audit |-> audit, ttl |-> ttl, i |-> 1]]
          /\ UNCHANGED trouble

\* Pins and maps come and go together.  MapsSurvive is the mutant: maps pinned
\* where rm -rf does not reach them.
MapsSurvive == mode' = "enforce" /\ allowlist' = allowlist
EmptyMaps   == mode' = "enforce" /\ allowlist' = {}

\* bpftool prog loadall ... autoattach pinmaps: fails when the pins exist.
\* The maps are new, so the mode reads as the zero value, MODE_ENFORCE.
LoadProg(c) ==
    /\ pc[c] = "load_prog"
    /\ UNCHANGED <<files, timer>>
    /\ \/ /\ ~attached
          /\ attached' = TRUE
          /\ EmptyMaps
          /\ arm' = [profile |-> job[c].profile, audit |-> job[c].audit,
                     ttl |-> job[c].ttl, left |-> 0]
          /\ trouble' = FALSE
          /\ Goto(c, "populate")
          /\ UNCHANGED job
       \/ /\ attached \/ May("sudo")
          /\ Fail(c)
          /\ UNCHANGED <<kernel, arm>>

Fits(prefix) ==
    /\ prefix \notin TooLong
    /\ prefix \in allowlist \/ Cardinality(allowlist) < AllowCap

\* The loop over the profile's prefixes is not over.  Mutant: stops one early.
PopulatingShort(c) == pc[c] = "populate" /\ job[c].i < Len(Allow[job[c].profile])
Populating(c)      == pc[c] = "populate" /\ job[c].i <= Len(Allow[job[c].profile])

\* One iteration of that loop.
AllowlistAdd(c) ==
    /\ Populating(c)
    /\ UNCHANGED <<attached, mode, files, timer, arm>>
    /\ LET prefix == Allow[job[c].profile][job[c].i]
       IN  \/ /\ attached
              /\ Fits(prefix)
              /\ allowlist' = allowlist \cup {prefix}
              /\ job' = [job EXCEPT ![c].i = @ + 1]
              /\ UNCHANGED <<pc, trouble>>
           \/ /\ ~attached \/ ~Fits(prefix) \/ May("sudo")
              /\ Fail(c)
              /\ UNCHANGED allowlist

\* The mode a load asks for.  Mutant: the two constants swapped.
ModeSwapped(c)   == IF job[c].audit THEN "enforce" ELSE "audit"
RequestedMode(c) == IF job[c].audit THEN "audit" ELSE "enforce"

\* The config map write is best effort: its failure is not even reported.
WriteMode(c) ==
    /\ pc[c] = "populate"
    /\ ~Populating(c)
    /\ Goto(c, "write_tmp")
    /\ UNCHANGED <<job, attached, allowlist, files, timer, ghosts>>
    /\ \/ /\ attached
          /\ mode' = RequestedMode(c)
       \/ /\ ~attached \/ May("sudo")
          /\ UNCHANGED mode

-----------------------------------------------------------------------------
(* The deadman record and the watchdog: arm_to, renew_at *)

\* fs::write of deadman.tmp, with the expiry counted from now.
WriteTmp(c) ==
    /\ pc[c] = "write_tmp"
    /\ UNCHANGED <<kernel, state, timer, arm>>
    /\ \/ /\ tmp' = [here |-> TRUE, ttl |-> job[c].ttl, left |-> job[c].ttl]
          /\ Goto(c, "rename")
          /\ UNCHANGED <<job, trouble>>
       \/ /\ May("io")
          /\ Fail(c)
          /\ UNCHANGED tmp

\* Mutant: the boundary of "permanent" off by one.
NeedsWatchdogAboveOne(c) == job[c].ttl > 1
NeedsWatchdog(c)         == job[c].ttl > 0

\* fs::rename onto deadman.json.  A permanent arm ends here: arm_to neither
\* starts a watchdog nor cancels one that is still pending.
Rename(c) ==
    /\ pc[c] = "rename"
    /\ UNCHANGED <<kernel, timer, arm>>
    /\ \/ /\ tmp.here
          /\ state' = tmp
          /\ tmp' = NoFile
          /\ UNCHANGED trouble
          /\ IF NeedsWatchdog(c) THEN Goto(c, "stop") /\ UNCHANGED job
                                 ELSE Finish(c)
       \/ /\ ~tmp.here \/ May("io")
          /\ Fail(c)
          /\ UNCHANGED files

\* Watchdog::arm, first half: cancel, `systemctl stop bpolicy-deadman.service`.
\* It kills a deadman at work.  A timer that is still pending is a unit of its
\* own, bpolicy-deadman.timer, which nobody stops.  The exit status is ignored.
ArmStop(c) ==
    /\ pc[c] = "stop"
    /\ UNCHANGED <<kernel, files, timer, ghosts>>
    /\ \/ /\ pc' = [pc EXCEPT ![c] = "run", ![Deadman] = "idle"]
          /\ job' = [job EXCEPT ![Deadman] = NoJob]
       \/ /\ May("systemd")
          /\ Goto(c, "run")
          /\ UNCHANGED job

\* systemd-run refuses a unit name that is pending or running.  Mutant: no
\* fixed --unit, so every arm gets a name of its own.
UnitNeverTaken == TRUE
UnitFree       == ~timer.set /\ Idle(Deadman)

\* Watchdog::arm, second half: systemd-run --on-active=ttl.
SystemdRun(c) ==
    /\ pc[c] = "run"
    /\ UNCHANGED <<kernel, files>>
    /\ \/ /\ UnitFree
          /\ timer' = [set |-> TRUE, left |-> job[c].ttl]
          /\ arm' = IF attached
                    THEN [arm EXCEPT !.ttl = job[c].ttl, !.left = job[c].ttl]
                    ELSE arm
          /\ Finish(c)
          /\ UNCHANGED trouble
       \/ /\ ~UnitFree \/ May("systemd")
          /\ Fail(c)
          /\ UNCHANGED <<timer, arm>>

\* The TTL a renew goes on with.  The record of a permanent arm has none, so
\* it falls to the default; renew_at's "already permanent" test that follows
\* is never true.
RenewedTtl(asked) == IF asked > 0 THEN asked
                     ELSE IF state.ttl > 0 THEN state.ttl ELSE DefaultTtl

Renew(c, asked) ==
    /\ "renew" \in Ops
    /\ Idle(c)
    /\ UNCHANGED <<kernel, files, timer, arm>>
    /\ \/ /\ state.here
          /\ Goto(c, "write_tmp")
          /\ job' = [job EXCEPT ![c] = [NoJob EXCEPT !.op = "renew",
                                                     !.ttl = RenewedTtl(asked)]]
          /\ UNCHANGED trouble
       \/ /\ ~state.here
          /\ Fail(c)

-----------------------------------------------------------------------------
(* bpolicy unload, by a client or by the deadman *)

\* is_loaded; when it says no, nothing else happens: no disarm.
UnloadCheck(p) ==
    /\ IF p = Deadman THEN pc[p] = "check" ELSE Idle(p) /\ "unload" \in Ops
    /\ UNCHANGED <<kernel, files, timer, ghosts>>
    /\ \/ /\ SaysLoaded(FALSE)
          /\ Finish(p)
       \/ /\ SaysLoaded(TRUE)
          /\ Goto(p, "rm")
          /\ job' = [job EXCEPT ![p] = [NoJob EXCEPT !.op = "unload"]]

Detach == /\ attached' = FALSE
          /\ EmptyMaps
          /\ arm' = NoArm
          /\ trouble' = FALSE

\* sudo rm -rf of the pins: the last references go, the program is detached.
\* rm -rf succeeds when there is nothing to remove.
UnloadRm(p) ==
    /\ pc[p] = "rm"
    /\ UNCHANGED <<files, timer>>
    /\ \/ /\ Detach
          /\ Goto(p, "disarm")
          /\ UNCHANGED job
       \/ /\ May("sudo")
          /\ Fail(p)
          /\ UNCHANGED <<kernel, arm>>

\* disarm_at, first half: cancel.  The deadman stops the unit it runs in, and
\* is killed by it; a client kills a deadman at work, but not its timer.
Disarm(p) ==
    /\ pc[p] = "disarm"
    /\ UNCHANGED <<kernel, files, timer, ghosts>>
    /\ \/ /\ pc' = [pc EXCEPT ![p] = "remove", ![Deadman] = "idle"]
          /\ job' = [job EXCEPT ![Deadman] = NoJob]
       \/ /\ May("systemd")
          /\ Goto(p, "remove")
          /\ UNCHANGED job

\* disarm_at, second half: remove_state.  cmd_unload ignores its error.
RemoveState(p) ==
    /\ pc[p] = "remove"
    /\ Finish(p)
    /\ UNCHANGED <<kernel, tmp, timer, ghosts>>
    /\ \/ state' = NoFile
       \/ May("io") /\ UNCHANGED state

-----------------------------------------------------------------------------
(* The environment *)

\* The timer elapses and starts the unit's command.
Fire ==
    /\ timer.set
    /\ timer.left = 0
    /\ Idle(Deadman)
    /\ timer' = NoTimer
    /\ Goto(Deadman, "check")
    /\ UNCHANGED <<job, kernel, files, ghosts>>

\* A process is killed between two of its steps.
Kill(p) ==
    /\ May("kill")
    /\ ~Idle(p)
    /\ Fail(p)
    /\ UNCHANGED <<kernel, files, timer, arm>>

\* Everything but the files is gone; nothing is armed by a boot as such.
Reboot ==
    /\ May("reboot")
    /\ pc' = [p \in Procs |-> "idle"]
    /\ job' = [p \in Procs |-> NoJob]
    /\ timer' = NoTimer
    /\ Detach
    /\ UNCHANGED files

\* The user manager ends with the session: its units go, the program stays.
Logout ==
    /\ May("logout")
    /\ timer' = NoTimer
    /\ pc' = [pc EXCEPT ![Deadman] = "idle"]
    /\ job' = [job EXCEPT ![Deadman] = NoJob]
    /\ UNCHANGED <<kernel, files, ghosts>>

\* saturating_sub of ttl_remaining.  Mutant: a plain subtraction.
PassBelowZero(r) == [r EXCEPT !.left = @ - 1]
Pass(r)          == [r EXCEPT !.left = IF @ > 0 THEN @ - 1 ELSE 0]

Tick ==
    /\ timer' = Pass(timer)
    /\ state' = Pass(state)
    /\ tmp' = Pass(tmp)
    /\ arm' = Pass(arm)
    /\ UNCHANGED <<pc, job, kernel, trouble>>

-----------------------------------------------------------------------------

Init ==
    /\ pc = [p \in Procs |-> "idle"]
    /\ job = [p \in Procs |-> NoJob]
    /\ attached = FALSE
    /\ mode = "enforce"
    /\ allowlist = {}
    /\ state = NoFile
    /\ tmp = NoFile
    /\ timer = NoTimer
    /\ arm = NoArm
    /\ trouble = FALSE

\* The steps of a load or a renew that is under way.
ClientStep(c) ==
    \/ LoadProg(c) \/ AllowlistAdd(c) \/ WriteMode(c)
    \/ WriteTmp(c) \/ Rename(c) \/ ArmStop(c) \/ SystemdRun(c)

\* The steps of an unload that is under way.
UnloadStep(p) == UnloadRm(p) \/ Disarm(p) \/ RemoveState(p)

Start(c) ==
    \/ \E profile \in Profiles, audit, yes, tty \in BOOLEAN, ttl \in TTLs :
           LoadBegin(c, profile, audit, yes, tty, ttl)
    \/ \E asked \in RenewTTLs : Renew(c, asked)
    \/ UnloadCheck(c)

Next ==
    \/ \E c \in Clients : Start(c) \/ ClientStep(c) \/ UnloadStep(c)
    \/ UnloadCheck(Deadman)
    \/ UnloadStep(Deadman)
    \/ \E p \in Procs : Kill(p)
    \/ Fire
    \/ Reboot
    \/ \E fault \in Faults \cap {"logout"} : Logout
    \/ Tick

Spec == Init /\ [][Next]_vars

\* Commands that have begun go on, the user manager starts what has elapsed
\* and time passes; nobody is obliged to begin a command.
Fairness ==
    /\ \A c \in Clients : WF_vars(ClientStep(c) \/ UnloadStep(c))
    /\ WF_vars(UnloadCheck(Deadman) \/ UnloadStep(Deadman))
    /\ WF_vars(Fire)
    /\ WF_vars(Tick)

FairSpec == Spec /\ Fairness

-----------------------------------------------------------------------------
(* Properties *)

Labels == {"idle", "load_prog", "populate", "write_tmp", "rename", "stop",
           "run", "check", "rm", "disarm", "remove"}

AllPrefixes == UNION {Prefixes(f) : f \in Profiles}

JobType   == [op : {"none", "load", "unload", "renew"},
              profile : Profiles \cup {"none"}, audit : BOOLEAN, ttl : Nat, i : Nat]
FileType  == [here : BOOLEAN, ttl : Nat, left : Nat]
TimerType == [set : BOOLEAN, left : Nat]
ArmType   == [profile : Profiles \cup {"none"}, audit : BOOLEAN, ttl : Nat, left : Nat]

\* A command carries the arguments that its next steps will use, and only an
\* unload ever runs as the deadman.
ArgumentsOK ==
    /\ \A c \in Clients :
          /\ pc[c] # "check"
          /\ pc[c] \in {"load_prog", "populate"} => /\ job[c].profile \in Profiles
                                                    /\ job[c].i > 0
          /\ pc[c] \in {"stop", "run"} => job[c].ttl > 0
    /\ pc[Deadman] \in {"idle", "check", "rm", "disarm", "remove"}

\* Every variable holds a value of its type; counters never go below zero.
TypeOK ==
    /\ pc \in [Procs -> Labels]
    /\ job \in [Procs -> JobType]
    /\ ArgumentsOK
    /\ attached \in BOOLEAN
    /\ mode \in {"audit", "enforce"}
    /\ allowlist \subseteq AllPrefixes
    /\ state \in FileType
    /\ tmp \in FileType
    /\ timer \in TimerType
    /\ arm \in ArmType
    /\ trouble \in BOOLEAN

\* The deadman is on its way to detach the program.
DeadmanComing == timer.set \/ pc[Deadman] \in {"check", "rm"}

\* An arm with a TTL is never left standing on its own: once the commands have
\* returned, either the timer is pending or the deadman is already unloading
\* (README.md: a bare load is armed with a 30-minute deadman).
DeadmanGuardsArm == attached /\ arm.ttl # 0 /\ AtRest => DeadmanComing

\* The deadman does not take the program away before the TTL that the last
\* acknowledged load or renew promised is over: not from an older timer, not
\* because of an earlier program, whatever else runs or fails meanwhile.
DeadmanKeepsPromise == attached /\ pc[Deadman] \in {"check", "rm"} => arm.left = 0

\* deadman.rs, of renew: "we stop the old unit and rearm".  What the state file
\* says is left never exceeds what the pending timer will really wait.
RecordNotAheadOfTimer ==
    AtRest /\ timer.set /\ state.here /\ state.ttl # 0 => state.left <= timer.left

\* A program that nothing will unload was preceded by an error that somebody
\* saw: no sequence of successful commands strands the operator.
StrandIsReported ==
    attached /\ arm.ttl # 0 /\ AtRest /\ ~DeadmanComing => trouble

\* The allow-list of the attached program holds prefixes of the profile it was
\* loaded with and of no other load.
AllowlistFromOneProfile == attached => allowlist \subseteq Prefixes(arm.profile)

\* A load that returned without an error left the whole profile in the kernel
\* (the loop over the prefixes stops at the first failure).
LoadedMeansPopulated ==
    attached /\ AtRest /\ ~trouble => Prefixes(arm.profile) \subseteq allowlist

\* README.md: --audit counts what would be denied and never blocks.  Here only
\* of a load whose commands all reported success.
AuditNeverBlocks == attached /\ AtRest /\ ~trouble /\ arm.audit => mode = "audit"

\* README.md: --ttl 0 arms permanently; no deadman detaches such an arm.
PermanentStays ==
    [][attached /\ ~attached' /\ arm.ttl = 0 /\ AtRest => pc[Deadman] # "rm"]_vars

\* CHANGELOG.md: arming the enforcer cannot strand you.  Once the operator has
\* stopped typing, every arm with a TTL is eventually taken down.
SelfHeals == <>[]AtRest => []((attached /\ arm.ttl # 0) => <>~attached)

\* For an operator who works in one shell and never arms permanently, the
\* program is held on a lease.
L == INSTANCE Lease WITH
        Terms <- (TTLs \cup RenewTTLs \cup {DefaultTtl}) \ {0},
        phase <- IF attached THEN "on"
                 ELSE IF \E p \in Procs : pc[p] = "disarm" THEN "removed" ELSE "off",
        left  <- arm.left,
        asked <- \E c \in Clients : pc[c] = "rm"

\* The commands, the state file, the unit and the deadman together implement
\* the lease: a promised term is kept to its end and no longer than needed.
HeldOnLease == L!Spec

=============================================================================
