# A verification development for bpolicy

bpolicy is a write-enforcer for the file system: a BPF-LSM hook denies
write-opens of protected processes outside an allow-list, and a Rust command
line loads it, says which processes and which prefixes, and takes it down.
This directory holds TLA+ models of it, the TLC configurations that check them
on small instances, and TLAPS proofs of the results that matter most.
Paths are relative to the repository.

## The system

| Part | Where | State it keeps | Operations |
|---|---|---|---|
| load, unload, renew, deadman | `src/bpf.rs`, `src/deadman.rs`, `src/main.rs` | pins under `/sys/fs/bpf/bpolicy`, `deadman.json`, `deadman.tmp`, the user unit `bpolicy-deadman` | `cmd_load`, `cmd_unload`, `renew_at`, `arm_to`, `disarm_at`; the watchdog runs `bpolicy unload` |
| protected PIDs | `bpf/bpolicy.bpf.c` `on_fork`, `on_exit`; `cmd_enforce`, `cmd_release` | map `protected_pids` | insert on fork, delete on exit, insert and delete by command |
| allow-list rule | `src/policy.rs`; `path_allowed_*` in C | profiles of `policy.toml`; map `allowlist` | `is_allowed`; the hook's walk over a path |
| write-open hook | `bpf/bpolicy.bpf.c` `file_open_check` | `stats`, `bpolicy_config`, `key_scratch` | one run per open, on any CPU |
| status | `src/status.rs`, `src/audit.rs` | none | reads three maps and the record |
| doctor | `src/doctor.rs` | none | read-only probes, verdicts, first gap |
| log | `src/bpf.rs` `tail_trace_pipe` | a `cat` of `trace_pipe` and its pipe | prints the denials, up to N |
| encodings | `src/pids.rs`, `src/audit.rs`, `prefix_to_key_bytes` | none | PIDs, mode and prefixes as bytes |
| build | `bpf/build.sh` | `bpolicy.bpf.o` and a temporary | compile, check, promote |
| reference, scripts | `reference/`, `scripts/` | none at run time | |

How they interact. Every command is a process of its own; what it does to the
kernel it does by running `sudo bpftool`, `sudo test`, `sudo rm`, and what it
does to the timer by `systemctl --user` and `systemd-run --user`. Nothing locks
anything. Two commands, or a command and the deadman, interleave between any
two of these subprocesses; the hooks run beside all of them on every CPU; sudo,
the file system and systemd may fail at each step; and a process may be killed,
the session end, or the machine restart.

What is hard, and what makes each part correct:

- *control plane*: an arm must neither be stranded (attached, and nobody will
  ever detach it) nor lost early (detached before a promised TTL is over). The
  attach comes before the allow-list, the mode and the deadman; the record and
  the timer are written one after the other; the disarm comes after the detach.
- *process tree*: the map must follow a changing tree of processes through two
  tracepoints that run per task while the map is keyed by process.
- *rule and hook*: the rule exists twice and must be one; the hook decides while
  a load is still adding prefixes, and builds its keys in memory that the tasks
  of one CPU share.
- *status*, *doctor*: one report is put together from reads at different times.
- *files*: the object and the record are replaced while others read them, by
  processes that fail and die half-way.
- *log*: reading the trace consumes it, and the reader sits behind two buffers.

`PROJECT.json` lists each hazard at its line with the properties aimed at it.

## Modules

| Module | Models |
|---|---|
| `ControlPlane` | the commands load, unload and renew, the deadman, files, timer, kernel pins; faults |
| `Lease` | abstract: what arming promises an operator |
| `ControlPlaneProofs`, `ControlPlaneSerialProofs` | theorems about `ControlPlane`; the second, for one shell, also about `StatusTtl` |
| `ProcessTree` | protected PIDs: hooks, enforce, release, load, unload |
| `ProcessTreeProofs` | theorems about `ProcessTree` and `StatusPids` |
| `PrefixMatch` | the rule, in Rust and in C; no state |
| `PrefixMatchProofs` | the hook's walk and the evaluator agree; and the theorems about `Encodings` |
| `OpenHookProofs` | theorems about `OpenHook` and `StatusRead`, on top of `PrefixMatchProofs` |
| `OpenHook` | EXTENDS `PrefixMatch`: tasks in the hook, counters, per-CPU key, mode, growing allow-list |
| `StatusRead` | EXTENDS `OpenHook`: a status beside the running hook |
| `StatusPids` | EXTENDS `ProcessTree`: the dump of the PIDs beside the tree |
| `StatusTtl` | EXTENDS `ControlPlane`: the seconds a status reports |
| `Doctor` | EXTENDS `ControlPlane`: a doctor beside the commands it diagnoses |
| `DoctorProofs` | theorems about `Doctor`, on top of `ControlPlaneProofs` |
| `Files` | the system calls of `build.sh` on the object and of `deadman.rs` on the record |
| `AtomicFile` | abstract: a file that is replaced as a whole |
| `FilesProofs` | theorems about `Files`, the two refinements among them |
| `TraceLog` | `bpolicy log` between the kernel's trace ring and its reader |
| `TraceLogProofs` | theorems about `TraceLog` |
| `Encodings` | PIDs and the mode as bytes and back; no state |
| `MC*` | constants of the modules for TLC |

### ControlPlane

`pc` says where each process is in its command, `job` carries its arguments;
`attached`, `mode` and `allowlist` are the pinned program and maps; `state` and
`tmp` are `deadman.json` and `deadman.tmp`; `timer` is the pending timer of the
unit. Each subprocess or file operation is an action: `LoadBegin` (everything
`cmd_load` does before it touches the kernel), `LoadProg`, `AllowlistAdd` (one
per prefix), `WriteMode`, `WriteTmp`, `Rename`, `ArmStop`, `SystemdRun`;
`Renew` joins at `WriteTmp`; `UnloadCheck`, `UnloadRm`, `Disarm`, `RemoveState`
are run by a shell and by the deadman. `systemctl stop` names
`bpolicy-deadman.service`, in which the deadman runs: `Disarm` and `ArmStop` end
a deadman at work, the one that runs `Disarm` included. They do not end a pending
timer: `systemd-run --on-active` makes a `bpolicy-deadman.timer` of its own, and
nothing stops that. `systemd-run` then refuses the name (`UnitFree`). `load_prog`'s `mkdir -p` has no effect of
its own and is part of `LoadProg`.

Times are countdowns: `state.left` is `ttl_remaining` of the record, and `Tick`
takes one second from each. Nothing else advances, so no bound is needed. `arm`
and `trouble` are history: what the last acknowledged load or renew promised,
and whether some command reported an error or was cut short since the attach.

`Faults` says what may go wrong in an instance: `sudo` (any sudo subprocess),
`io` (write, rename, remove), `systemd` (stop or start), `kill`, `reboot`,
`logout` (the user manager ends, and with it its units).

Not in it: `--profile` names are resolved before anything else happens, so an
unknown or invalid profile is a member of `Rejected`; a record that cannot be
parsed reads as absent, and `fs::write` is one step: what is below it is in
`Files`.

### Lease

`phase`, `left`, `asked`. The enforcer goes on; a term is promised and runs
down; a removal takes it off only when somebody asked or the term is over, and
when nothing is left of the term, it is taken off. A power loss also takes it
off, but without passing through `"removed"`, so an early removal cannot pass
for one. No files, timers or processes. `ControlPlane!HeldOnLease` maps
`attached` to `"on"`, a removal that has not disarmed yet to `"removed"`,
`arm.left` to `left`, and "a shell's unload has found it loaded" to `asked`. A
load whose TTL has not been acknowledged yet is a lease with nothing left; a
permanent arm has no lease, so the instances of the run give every arm a TTL.

### ProcessTree

`threads[p]` is the kernel's side: how many tasks share the tgid `p`. The fork
hook is two steps, `Fork` (lookup) and `ForkHook` (insertion, whose failure is
ignored), because commands and other CPUs get in between. The exit hook and the
exit are one step, per thread. `enforce` and `release` are one action per PID;
`Begin` is `is_loaded`; the lists name processes that exist, where the code takes
any u32. With `SudoFails` a subprocess may fail: an enforce then ends with an
error, while a release goes on as if it had deleted the key (`ReleaseOne`, second
disjunct). `covered` is history: the processes that were enforced
and have descended from those, without the dead and those whose key was deleted. `missed` is
history too: a fork hook of this load has found the map full.

### PrefixMatch, OpenHook, StatusRead

Paths are sequences over a small alphabet, since the boundary rule is about
characters. The compiled defaults are grouped by how the C code tests them:
`/tmp/` and `/proc/self/` in full, names below `/dev/` by their first letter.
`Candidate` is the key of the first `i` bytes, zero-padded: the NUL that the
length from `bpf_d_path` includes counts in the key's length only.

In `OpenHook` each access to a map or to `key_scratch` is an action: `Open`
(counts CHECKED), `Resolve`, `NextCandidate` (length of the key), `CopyPath`
(its bytes), `Lookup`, `Deny`, `ReadMode`. The copy of the bytes is one step;
mixtures within it are left out. Opens by unprotected tasks and read-only opens
return before they touch anything shared and are left out too. `Load`, `AllowlistAdd`,
`WriteMode` and `Unload` are the same steps as in `ControlPlane`, without its
failures. `StatusRead` adds `cmd_status`: `is_loaded`, then the stats map (which
stays readable once bpftool has it open, even if an unload unpins it), counter
by counter, then the mode.

### StatusPids, StatusTtl

The two other reads of a status, each beside the component whose state it reads,
because a status reads its four sources one after the other and nothing relates
them. `StatusPids` has `bpftool map dump`: the map stays readable once it is
open (`OpenPids`), then `NextKey` and `LookupKey` alternate. `ahead` is what the
walk has yet to reach; a key that is inserted meanwhile is found or not,
depending on its slot, and when the key the walk stands on is deleted, `Ahead`
is the whole map again. A key that is written again (`Rewritten`: a second enforce,
or the hook of a cloned thread) goes to the head of its slot: `StillAhead` lets it
be ahead or behind from then on, and if it is the key the walk stands on, others may
come twice. `told` is a set: the code sorts the list, and a walk
that has started again may list a PID twice. When an unload takes the pins away
under a walk, nothing changes that map any more, and the rest of the walk is one
step. `steady` is history: the processes restricted ever since the status began
and not written again.

`StatusTtl` has the read of the record and what an operator does with it: `said`
counts down with the clock, until the program goes or a later load or renew
promises anew. `said.sound` is history: no command of a shell was under way during
the status, and none had failed since the attach.

### Files, AtomicFile

`dir` maps names to files and `file` says whose bytes a file has, and whether
all of them; a reader that has a file open (`view`) keeps it. Both files are
replaced through a temporary, in different ways. `build.sh` asks `mktemp` for a
fresh name (`MkTemp`) and sets its trap (`SetTrap`), trusts clang's exit status,
refuses an empty object, and removes the temporary in the trap. `KillBuild` is
SIGKILL at any time, and any signal that comes before the trap. `write_state_to` uses the one name `deadman.tmp`,
truncates what it finds there, and undoes nothing. `Fill` writes in two parts.
The builds' clang may return at any time; only after an object that is empty
or whole does it report success. `GiveUp` is a failed write, a failed rename
and a kill alike.

`AtomicFile` has no temporaries: a writer starts, replaces the content at once
or gives up. `ObjectIsAtomic` and `RecordIsAtomic` are `Files` seen through two
instances of it: the value is whose whole content the name has (a torn file is a
value no abstract step can produce), and who is at work is `writing`.

### TraceLog

`trace` is every line ever written, with the two things the loop looks at:
whether it names bpolicy and whether it is UTF-8 (a path may be anything).
`ring` is the kernel's buffer, `pipe` the one between `cat` and the log.
`Return` leaves `cat` behind where the code does: nobody waits for it, the kill
goes to a sudo that runs as root and may fail, and a `cat` whose log has gone
takes lines once more before it dies. `alone` is history: the log has been the
only reader, and the ring has dropped nothing.

### Encodings

`pid_to_key_bytes`, `mode_map_bytes`, what the hook reads of the mode, what
`parse_mode` gets of it. `KeyIsPid` is why `ProcessTree` may use PIDs as keys,
`ModeIsRead` why the other modules have one mode for the hook and the status.

### Doctor

Checks 1 to 3 read what does not change under a report, so they are functions
of the caller (`Callers`: what the machine lets this caller read) and one step.
Every later read is a step: `ReadMounts`, `ReadPin`, `ReadDir`, `AskUnit` (one
`systemctl show`), `ReadPinAgain`. `ControlPlane` has no use for the directory
around the pin; here it is `dir`, made by `Mkdir` before `LoadProg`, left behind
when that fails, and removed with the pin by an unload. `units` are external:
the repository ships none, and they start and stop as they like. `seen` is
history: what was so at some time since the report began. `rm -rf` of the
directory stays one step, and the three output formats are left out.

## Runs

| Run | Instance | Shows |
|---|---|---|
| `StatusTtl` | one shell, all faults, permanent arms, a profile that does not fit, a status | `DeadmanKeepsPromise`, `AllowlistFromOneProfile`, `SecondsAreKept`, `TypeOK` |
| `ControlPlane_two_shells` | two shells that load and renew, systemd errors, kills | `StrandIsReported`, `LoadedMeansPopulated` |
| `ControlPlane_lease` | one shell, every arm with a TTL, reboots, profiles that fit | `HeldOnLease` (refinement, liveness included), `SelfHeals`, `DeadmanGuardsArm`, `LoadedMeansPopulated`, `AuditNeverBlocks` |
| `StatusPids` | four single-threaded processes, no PID reuse, map of three, failing sudo, a status whose dump may fail | `DescendantsProtected`, `NoStrayProtection`, `RestrictedAreReported`, `EnforceIsComplete`, `TypeOK` |
| `StatusRead` | two tasks on two CPUs, loads, unloads, one status, failing sudo | `HookMirrorsPolicy`, `CountsAddUp`, `ReportLosesNoOpen`, `TypeOK` |
| `Doctor` | one shell, the deadman, two units, root and an ordinary user, sudo and systemctl fail, reboots | `InertIsExplained`, `HalfMadeWasThere`, `DoctorTypeOK` |
| `FilesAndLog` | two builds, one arming command, a reader; two logs | `ObjectIsAtomic`, `RecordIsAtomic` (refinements), `ReadersSeeWhole`, `NoLitter`, `NoDenialSkipped`, `LogReturns` (liveness), `FilesTypeOK`, `LogTypeOK` |

A run that states a property for one shell, or without some fault, does so
because the property is false beyond it: see Findings and Divergences.
`NoLitter` leaves out temporaries of builds that a signal ended without their trap.
`FilesAndLog` checks three subjects that share nothing, so each of its behaviours
is about one of them (`part` in `MCFilesLog`).

Bounds. The shells, profiles and TTLs of `ControlPlane` are what it takes to
tell permanent from finite, short from long, populated from empty and fitting
from refused: TTLs 0, 1, 2 (1 and 3 for the lease, so that a longer timer can
survive a shorter term), renewals 0 and 2 (0 alone, the stored TTL or
the default, for two shells), two prefixes, an allow-list map of two. With two
shells a kill takes the place of a failed write or rename, which ends the command
at the same point. Two shells are the smallest number that races; the theorem about the
promise covers any number. In `ProcessTree`, `MaxThreads`, `MaxList`, `StatCap`
and the PIDs bound the tree: a parent, a child, a grandchild and an outsider,
lists of two, and a map with one entry less than there are processes; the one
command under way stands for one operator. `MaxOverlap` bounds the steps of the
tree and of commands under one status: three are enough to fork a child and run its
hook under the walk, or to begin a release or an enforce and delete or rewrite the
key the walk stands on. `Files` has two builds,
since two are what a shared name would take, the two names `mktemp` then needs,
and five files: the object, two temporaries, and two that only a reader or a
writer still has open. `TraceLog` has a ring and a pipe of two lines and three
lines in all, so that the ring can drop one and a log can stop at its second
with a third behind it. In `OpenHook`, `MaxOpens` bounds the
opens under one load (two, so that both tasks can be in the hook) and
`MaxPrefix` stands for 255; `StatusRead` has a path of exactly that length and
one below a compiled default. `Reports` bounds the statuses: a second one starts
afresh. `Doctor` has one profile and one TTL, since it reads neither, and two
units instead of six: one that decides and one after it.

Fairness, in `FairSpec` only. A command that has begun goes on, the deadman
goes on, systemd starts what has elapsed, and time passes: subprocesses return
and timers elapse. Nobody is obliged to type a command or to restart a machine.
`SelfHeals` also assumes that from some time on no command is under way, since
an operator who keeps renewing keeps the enforcer on. The lease's fairness is
that the enforcer is taken down once nothing is left, whatever the operator does.
`LogFairness`: `cat` and the log go on while there is something for them to read;
nobody is obliged to write to the trace, so `LogReturns` says that the N-th
denial is enough by itself.

Every property of a passing run has a mutant: a changed definition that stands
for a plausible bug, with which the property fails under the same configuration.
The mutants are written next to what they mutate and say so.

## Findings

Each is a run whose one property states what a document or comment says, and
which the code violates.

| Run | What happens |
|---|---|
| `Finding_failed_load_strands` | a prefix that does not fit fails the load after the attach: no deadman |
| `Finding_permanent_unloaded` | a load with a TTL, an unload that leaves its timer, a permanent load: the old timer's deadman detaches the permanent arm |
| `Finding_renew_not_rearmed` | a renew beside the pending timer writes the later expiry, and systemd-run refuses the new timer: the record promises more than the deadman will wait |
| `Finding_audit_refuses` | between the attach and the mode of a `load --audit` another shell enforces a process: its write is refused |
| `Finding_thread_exit` | one thread exits: the process is no longer restricted |

Three theorems are the other side of a finding: what they leave out is the step, or
the setting, of its run. `ArmIsGuarded` assumes profiles that fit (`Roomy`),
`DescendantsHold` that no thread exits early (`WholeExits`), `PermanentHolds` that no
permanent arm is attached while a deadman of an earlier program is on its way
(`PermanentWaits`). `SecondsHold` speaks of commands that succeeded, which the renew of
`Finding_renew_not_rearmed` did not.

### Divergences

Further places where code and documents part, met while modelling. The models
contain them; no run is spent on a property that one step decides, and the
passing runs name the restriction under which their property holds.

| Where | Code | Text |
|---|---|---|
| `src/src/bpf.rs:408` | the result of writing the mode is dropped: `--audit` may enforce (`WriteMode`, second disjunct; `AuditNeverBlocks` holds without io and sudo failures) | `src/README.md:32`: always allow |
| `src/src/deadman.rs:260` | a bare renew of a permanent arm gives it 30 minutes (`RenewedTtl`) | `src/src/main.rs:85`: 0 = keep existing TTL |
| `src/src/bpf.rs:164-171` | every failure of sudo reads as absent: `already_unloaded` with the program attached (`SaysLoaded`) | `src/src/bpf.rs:40` |
| `src/src/bpf.rs:267-269` | the result of deleting a PID is dropped: release reports a PID that stays restricted (`ReleaseOne`, second disjunct) | `src/src/bpf.rs:464`: an error if bpftool fails |
| `src/src/bpf.rs:438-440` | nothing orders the rm and the disarm of an unload. A load in between loses its record; and if the unload is held up for the load's whole TTL, its `systemctl stop` kills the deadman at work, and the arm stays with no error seen (`NoRival` is what `StrandedWasTold` assumes) | `src/CHANGELOG.md:5` |
| `src/src/status.rs:139` | bpftool walks the live map: a PID that is enforced again, or clones a thread, may move behind the walk and be missed though it was restricted all along (`StillAhead`; `steady` leaves it out) | `src/README.md:22` |
| `src/bpf/build.sh:28-29` | an interrupt between the `mktemp` and the trap leaves the temporary (`KillBuild` from `"made"`) | its line 29: the trap removes it |
| `src/bpf/bpolicy.bpf.c:136` | a full map is ignored: a child is not restricted, and counted (`ForkHook`, second disjunct; `missed`) | its header: "and its descendants" |
| `src/bpf/bpolicy.bpf.c:131-138` | the hook runs for cloned threads too: it looks the process up, a release deletes it, the hook puts it back, and the process stays restricted (`SettledReleases` is what `NoStrayHolds` assumes) | `src/README.md:20`: add / remove PIDs from the protected set |
| `src/src/bpf.rs:455` | a PID that exits before the update stays in the map and restricts the next process of that number (`PidReuse` TRUE violates `NoStrayProtection`) | header of `bpolicy.bpf.c` |
| `src/bpf/bpolicy.bpf.c:203` | tasks of one CPU share the key slot; if the kernel preempts inside the program, one decides by the other's key (a `CpuOf` that is not injective violates `HookMirrorsPolicy`) | its line 92: per-CPU suffices |
| `src/bpf/bpolicy.bpf.c:161` | every name below `/dev/` that begins with n, t, s or p is allowed (`path_allowed_defaults`) | `src/src/policy.rs:56`: the lists must be the same |
| `src/bpf/bpolicy.bpf.c:259-265` | a path longer than the buffer is allowed (`Resolve`, first disjunct) | `src/src/policy.rs:227`: mirror of the hook |
| `src/src/status.rs:64` | a dump that fails reads as enforce (`ReadConfig`, second disjunct) | `src/README.md:32` |
| `src/src/doctor.rs:281` | a unit that has run is good enough, though the deadman has since unloaded what it armed: no gap, and inert (`InertIsExplained` has to exclude it) | `src/src/doctor.rs:501`: boot_arm returns Gap when the enforcer is not loaded |
| `src/src/doctor.rs:240` | `exists` without sudo: for an ordinary user the pin is never there, so an armed enforcer is "not yet pinned" and "not armed" (`Exists`) | `src/src/doctor.rs:6`: `unknown` when elevated access is needed |
| `src/bpf/bpolicy.bpf.c:220` | the walk looks up keys that end before a `/`, so an entry that ends with one never matches, while `prefix_matches` (`src/src/policy.rs:197`) takes it and `validate_prefix` lets it in (`Boundary`; a profile with such a prefix violates `HookMirrorsPolicy`) | its line 28: identical in BPF and policy.rs |
| `src/src/deadman.rs:160` | two arming commands write into one `deadman.tmp`; the rename of one publishes what the other has truncated (two `Arms` violate `RecordIsAtomic` and `ReadersSeeWhole`) | its line 151: atomically |
| `src/src/deadman.rs:271` | the record is written before the new timer exists: a status beside a renew, or after one that failed, reports seconds that are not kept (`SecondsAreKept` is false without `said.sound`) | `src/README.md:76` |
| `src/src/status.rs:45` | `cmd_status` never reports a profile (`assemble_status` passes `None`) | `src/README.md:72` shows it |
| `src/src/bpf.rs:302` | a line that is not UTF-8 ends the log with success, `-n 0` too, and so does a sudo that refuses (`BreakLoop`, `Eof`) | `src/src/main.rs:70`: 0 = tail forever |
| `src/src/bpf.rs:297` | the result of the kill is dropped and nobody waits: the `cat` may live on and take lines that the next log then misses (`CatDies`; `NoDenialSkipped` needs `alone`) | none |
| `src/bpf/build.sh:33` | a failed build keeps the object of the last good one | its lines 24-25 and `src/CHANGELOG.md:42`: no stale object |
| `src/src/bpf.rs:30` | `load` takes the object from `~/.local/src/bpolicy/`, the build leaves it in `bpf/` | `src/README.md:93-103` |

## Proofs

All of it by `tlapm`, for every value of the constants that the named
assumptions of the modules allow.

| Theorem | Says | Under |
|---|---|---|
| `TypeCorrect` | `Spec => []TypeOK` | nothing else |
| `PromiseHolds` | `Spec => []DeadmanKeepsPromise` | nothing else: any number of shells, any faults |
| `OneProfileHolds` | `[]AllowlistFromOneProfile` | `Serial`: one shell |
| `ArmIsGuarded` | `[]DeadmanGuardsArm` | `Serial`, `Calm` (reboots are the only fault), `Roomy` (accepted profiles fit the map) |
| `PopulatedHolds` | `[]LoadedMeansPopulated` | nothing else: any number of shells, any faults |
| `AuditKept` | `[]AuditNeverBlocks` | `Serial`, no sudo failure |
| `StrandedWasTold` | `[]StrandIsReported` | `NoRival` (if shells unload at all there is one shell), `SudoAnswers` (no sudo failure, no logout) |
| `SecondsHold` | `[]SecondsAreKept` | `Serial`: one shell, any faults (the property itself speaks of a status beside no command, after none that failed) |
| `PermanentHolds` | `PermanentStays`: the deadman never detaches a permanent arm | steps are `PermanentWaits`: no permanent arm is attached while a timer waits or the deadman works; any number of shells, any faults |
| `ImplementsLease` | `Spec => L!SafeSpec` | `Serial`, `RemovalsGoThrough` (no sudo failure, no kill) |
| `KeyIsPid` | every PID's key reads back as that PID, and keys differ | a u32 |
| `ModeIsRead` | both modes are the same to the hook and to the status | nothing else |
| `OneLongest` | `longest_prefix_match` has one answer at most, however the profile is ordered | nothing else |
| `WalkFindsLongest` | the hook's walk hits iff `longest_prefix_match` is not empty | the path fits the buffer, no prefix ends with a slash |
| `HookTypes` | `[]TypeOK` of `OpenHook` | finitely many tasks |
| `CountsHold` | `[]CountsAddUp` | finitely many tasks |
| `MirrorHolds` | `[]HookMirrorsPolicy` | `FitBuffer`, `SameDefaults`, `NoSlashes`; steps are `SlotsApart`: no run of the hook writes the slot of another between its key and its lookup |
| `ReportHolds` | `[]ReportLosesNoOpen` | finitely many tasks |
| `TreeTypes` | `[]TypeOK` of `ProcessTree`: the map never outgrows `max_entries` | nothing else |
| `EnforceCompletes` | `EnforceIsComplete` | nothing else: any number of threads, any reuse of PIDs |
| `DescendantsHold` | `[]DescendantsProtected` | steps are `WholeExits`: of a restricted process, no thread exits before the last one |
| `NoStrayHolds` | `[]NoStrayProtection` | `NoReuse`; steps are `SettledReleases`: no release comes into the middle of a clone's hook. Deletes may fail |
| `ListHolds` | `[]RestrictedAreReported` | steps are `WholeExits` (the property itself speaks of PIDs not written again under the walk) |
| `OneThreadIsEnough`, `ListHoldsOneThread` | the three | `SingleThreaded` instead of the two assumptions on steps |
| `LogTypes` | `[]LogTypeOK` | nothing else: any number of logs, any ring and pipe |
| `NoneSkipped` | `[]NoDenialSkipped` | nothing else (the property itself speaks of a log that is alone, and of a ring that has dropped nothing) |
| `DoctorTypes`, `InertHolds`, `HalfMadeHolds` | `[]DoctorTypeOK`, `[]InertIsExplained`, `[]HalfMadeWasThere` | nothing else: any machine, caller, number of units, shells and faults |
| `FilesTypes`, `NothingIsLeft`, `ObjectAtomic` | `[]FilesTypeOK`, `[]NoLitter`, `FilesSpec => ObjectIsAtomic` | nothing else: any number of builds and of arming commands (`NoLitter` itself leaves out builds that a signal ended without their trap) |
| `WholeIsRead`, `RecordAtomic` | `[]ReadersSeeWhole`, `FilesSpec => RecordIsAtomic` | `OneArm`: one command at a time writes the record; any number of builds |

*The promise.* `DeadmanKeepsPromise` is not inductive: a pending timer that is
too short does no harm until it fires. `Promise` adds that a pending timer of an
attached program is no shorter than what is left of the promise, and that a
deadman that runs finds nothing left. It is kept because a new promise is only
made together with a new timer, and systemd-run refuses while the unit's old
timer waits or its process runs; that is also why a timer that outlives its stop
cannot break the promise.

*One profile.* The invariant adds that a shell which is populating runs the load
that attached the program. With two shells it is false: an unload and a load may
slip in under a loop.

*The guard.* `GuardInv` follows the one shell through load and renew: at each
label it says whether the timer is pending, still to come, or not wanted, and
that the allow-list has room for the prefixes still ahead.

*The maps.* `Kinds` sorts every step by what it does to the maps: it leaves them,
takes them away, creates them, adds one prefix, or writes the mode. Then
`Populated` says that without an error the profile is in the map or a load whose
job is that profile has put in all prefixes before the one at hand (`Filling`);
`Audited` says the same of the mode. Two shells would break the second: a load
could write its mode into the maps of another.

*Stranding.* `StrandInv` says that an arm with a TTL and no error has a deadman
coming or a command that is still on its way to the timer (`Arming`), that the
deadman's process is idle while a timer waits, and that an unload that has got
to the stop has nothing attached behind it. The last is what a second shell
takes away (see Divergences), hence `NoRival`; a sudo that fails makes
the deadman see no program, and a logout ends a timer silently, hence
`SudoAnswers`.

*Permanent arms.* `Spared` says that no timer is pending and no deadman at work while
a permanent arm is attached. Every step keeps it but the attach of one under a
timer left from before, which is the step of `Finding_permanent_unloaded`;
`PermanentWaits` leaves out that step and nothing else, so a permanent arm is lost in
no other way. That a systemd-run of the arm itself cannot break it is by its TTL: a
renew that starts a timer makes the arm one with a TTL in the same step.

*The seconds.* `RecordInv` relates what the shell's command carries, the record and the
timer while nothing has failed since the attach (`Honest`): a failed command leaves
the record ahead, and is what `trouble` remembers. `Told` carries this over to what a
sound status has read, through the steps of the deadman. `Promise` and the record's
half are used on both sides of a step.

*The lease.* Each action maps to a step of `Lease` or a stutter; `TermsOnly`
carries that the TTL on its way to the watchdog is a configured one.

*The walk.* Forward, the prefix that matches is the candidate at its own length,
which is a boundary; backward, a boundary candidate is an exact match or is
followed by a slash. That some matching prefix is a longest one needs the
well-foundedness of the naturals.

*The bytes.* `DigitsReadBack` divides by 256 three times; that the fourth digit is
all that is left is the bound of a u32.

*The hook.* `Shape` types the records and puts every walk on a boundary of its
path. `MirrorInv` says at each label what the run has settled: no candidate
before the one at hand was an entry when the open began, and the slot holds
what the run has put there. `SlotsApart` says that no other task disturbs that:
tasks may share a CPU, but one that has put down its key is not preempted by
another run of the hook before it has looked the key up. A load only adds entries,
and `AllowsMore` says that allows more. At a hit or at the end of the walk,
`WalkFindsLongest` turns it into the answer of `is_allowed`. Without any of the
four assumptions the statement is false (see Divergences); the instance of the run
`StatusRead` meets all four.

*The report.* Counters only grow while the program is attached, and those of a
program that is gone add up once the opens under way on it have ended. `Balance`
therefore compares the first counter of the report with the other two where
they come from now: the report, the live map, or the one held open. `CountInv`
gives the balance at the first counter.

*The tree.* `Base` adds to the types that nothing is in a map or a hook when no
program is attached. `Done` says that what an enforcing loop has behind it is in
the map or was taken away since. The hook runs for clones of threads too, with
the process itself as the child (`Clones`), so the invariants tell those from the
hook of a process in creation (`Creating`), whose one thread waits for it.
`Descends` adds to `DescendantsProtected` that what is covered or in creation is
alive, and that a hook on its way to a covered child has seen the parent in the
map: that is what makes the step from the fork to the hook's write safe. It takes
one assumption on steps, `WholeExits`, and that leaves out just the step of
`Finding_thread_exit`. `Stray` goes the other way: an entry, a hook that saw its
parent, and an operator's list mean PIDs that are known already, so a new process
can be none of them if PIDs are not reused; a delete that fails leaves entry and
history as they are. With threads it is false: a clone's
hook that has looked its process up puts it back after a release (see
Divergences), and `SettledReleases` leaves out that step. Where processes have
one thread there are no clones, and both assumptions hold of themselves.

*The list.* `WalkInv` says that while bpftool walks, every steady process is told
or still pending: ahead of the key at hand, or that key before its lookup. It
speaks of the keys put down as ahead and not of those the walk would find now,
because a key can be deleted and come back: the walk that would have restarted
then goes on. Of the keys written again nothing is claimed, and `StillAhead` keeps
all others that were ahead. `Descends` puts the steady processes in the map, so a restart
finds them all.

*doctor.* `Pinned` says that the pin is never without its directory, and that a
report between its two looks has seen no directory or one without the pin, which
the directory that a load makes first cannot change. `Explained` says what the
last two verdicts rest on; both read the program or a unit and the history at
the same step.

*The files.* A build between `mktemp` and its trap owns its temporary as any other, but
ends without removing it only into `litter`. In `FInv` a file has at most one name; builds, and the arming
command if it is the only one (`Owners`), own their temporary and the file behind
it; what is published, or open in a reader, is whole and has no temporary name
left, so nobody writes to it again. Several arming commands own nothing, since
they share `deadman.tmp` (see Divergences), but the files they write are neither
the object nor a build's (`Apart`, `Sound`): the builds' three theorems do without
`OneArm`, and the two about the record need it.
For the refinements `Promote` and `RenameTmp` map to `Replace`, `RemoveState` to
`Remove`, and the other steps are shown to change nothing that either name shows.

*The log.* Lines are compared by their positions in the order of the kernel's
trace. `RingInOrder` and `InOrder` put the ring, the pipe and what was printed in
that order; `Judged` and `Printed` say that between two lines next to each other
in the pipe, or between the last printed one and the first in the pipe, nothing
of ours is missing while the log is alone. So the next denial it prints is the
next one there is (`NextOurs`).

Only model-checked: `SelfHeals`, `LogReturns` and the liveness half of
`HeldOnLease`, since TLAPS does not reason about fairness here.

## Not modelled

- TOML and JSON (de)serialisation, output formats and wording; `policy show`
  and `policy check` beyond the rule they print or apply.
- `bpf/vmlinux.h`: a generated dump of the kernel's types, 162600 lines of
  declarations without behaviour. It is all but 292 of the repository's lines of
  C, so a share of lines of C says nothing about this development.
- What clang makes of the source, an orphaned clang that still writes after its
  `build.sh` was killed, and power loss between a rename and the disk (neither
  file is synced).
- The known gap that the header of `bpolicy.bpf.c` describes (an O_CREAT leaves
  an empty file), and `bpf_printk` cutting long lines.
- The Python reference, scripts and metadata: they are not part of the program.

## Plan

What is left:

1. `ReadersSeeWhole` for the readers of the object alone, with any number of arming
   commands; a view would have to remember the name it was opened by.
2. The theorems under `Serial`, with an assumption on steps in its place, as
   `MirrorHolds` and `DescendantsHold` have one: several shells whose commands do
   not overlap.
