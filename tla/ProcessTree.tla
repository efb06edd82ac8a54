---------------------------- MODULE ProcessTree ----------------------------
(***************************************************************************)
(* Which processes the enforcer restricts: the protected_pids map, kept by *)
(* `bpolicy enforce` and `bpolicy release` (src/src/bpf.rs) on one side    *)
(* and by the fork and exit tracepoints of bpf/bpolicy.bpf.c on the other. *)
(*                                                                         *)
(* The map is keyed by tgid.  The kernel's tasks are a count of threads    *)
(* per PID.  The fork hook runs in the forking thread after the child is   *)
(* visible and before it runs; its lookup and its update are two steps, so *)
(* that commands and other CPUs interleave between them.                   *)
(***************************************************************************)
EXTENDS Integers, Sequences, FiniteSets

CONSTANTS
    Pids,       \* the kernel's PIDs
    MaxThreads, \* bound: threads of one process
    MapCap,     \* max_entries of protected_pids (8192)
    StatCap,    \* bound: where the model stops counting FORKED_IN
    PidReuse,   \* whether a PID may name a second process
    SudoFails,  \* whether sudo or bpftool may fail in a command
    MaxList     \* bound: PIDs named by one command

ASSUME SizesAssumption ==
    /\ IsFiniteSet(Pids)
    /\ MaxThreads \in Nat \ {0}
    /\ MapCap \in Nat
    /\ StatCap \in Nat
    /\ MaxList \in Nat \ {0}
    /\ PidReuse \in BOOLEAN
    /\ SudoFails \in BOOLEAN

VARIABLES
    threads,   \* live threads of each PID; 0 when no process has it
    used,      \* PIDs that have named a process
    loaded,    \* the enforcer is attached
    protected, \* keys of protected_pids
    forked_in, \* stats[S_FORKED_IN]
    hooks,     \* fork hooks between their lookup and their update
    cmd,       \* the enforce or release under way
    covered,   \* history: processes that were enforced, and their descendants,
               \* but for those whose key a release has deleted
    missed     \* history: a fork hook has found the map full

kernel == <<threads, used>>
ghosts == <<covered, missed>>
vars   == <<threads, used, loaded, protected, forked_in, hooks, cmd, covered, missed>>

NoCmd == [op |-> "none", pids |-> <<>>, i |-> 1, gone |-> {}]

Alive(p) == threads[p] > 0

\* A thread that is inside the hook, and a child that waits for it, do nothing.
Busy(p)    == Cardinality({h \in hooks : h.parent = p})
              + Cardinality({h \in hooks : h.child = p})
Running(p) == threads[p] > Busy(p)
Forking(p) == \E h \in hooks : h.child = p

Free(p) == ~Alive(p) /\ (PidReuse \/ p \notin used)

\* Room for a key: a full hash map refuses a new one and accepts an old one.
HasRoom(p) == p \in protected \/ Cardinality(protected) < MapCap

-----------------------------------------------------------------------------
(* on_fork and on_exit *)

\* Which of the parent's identifiers the hook looks up.  Mutant: the child's.
LooksUpChild(parent, child) == child
LooksUp(parent, child)      == parent

\* A process is forked (child is another PID) or a thread is cloned (child is
\* the same PID); the hook looks the parent's tgid up.
Fork(parent, child) ==
    /\ Running(parent)
    /\ child = parent \/ Free(child)
    /\ threads[child] < MaxThreads
    /\ threads' = [threads EXCEPT ![child] = @ + 1]
    /\ used' = used \cup {child}
    /\ hooks' = IF loaded
                THEN hooks \cup {[parent |-> parent, child |-> child,
                                  hit |-> LooksUp(parent, child) \in protected]}
                ELSE hooks
    /\ covered' = IF parent \in covered THEN covered \cup {child} ELSE covered
    /\ UNCHANGED <<loaded, protected, forked_in, cmd, missed>>

\* On a hit the child is inserted.  The result of the insertion is ignored, and
\* FORKED_IN counts it either way.
ForkHook(h) ==
    /\ h \in hooks
    /\ hooks' = hooks \ {h}
    /\ UNCHANGED <<kernel, loaded, cmd, covered>>
    /\ \/ /\ h.hit
          /\ HasRoom(h.child)
          /\ protected' = protected \cup {h.child}
          /\ forked_in' = IF forked_in < StatCap THEN forked_in + 1 ELSE forked_in
          /\ UNCHANGED missed
       \/ /\ h.hit
          /\ ~HasRoom(h.child)
          /\ forked_in' = IF forked_in < StatCap THEN forked_in + 1 ELSE forked_in
          /\ missed' = TRUE
          /\ UNCHANGED protected
       \/ /\ ~h.hit
          /\ UNCHANGED <<protected, forked_in, missed>>

\* History: entries that others took away while a command was under way.
Withdrawn(some) == IF cmd.op = "none" THEN cmd ELSE [cmd EXCEPT !.gone = @ \cup some]

\* sched_process_exit fires for every thread, and the hook deletes the tgid.
ThreadExit(p) ==
    /\ Running(p)
    /\ threads' = [threads EXCEPT ![p] = @ - 1]
    /\ protected' = IF loaded THEN protected \ {p} ELSE protected
    /\ covered' = IF threads[p] = 1 THEN covered \ {p} ELSE covered
    /\ cmd' = Withdrawn({p})
    /\ UNCHANGED <<used, loaded, forked_in, hooks, missed>>

\* A process of somebody else's tree appears.
Spawn(p) ==
    /\ Free(p)
    /\ threads' = [threads EXCEPT ![p] = 1]
    /\ used' = used \cup {p}
    /\ UNCHANGED <<loaded, protected, forked_in, hooks, cmd, ghosts>>

-----------------------------------------------------------------------------
(* enforce, release, load, unload *)

Lists == UNION {[1..n -> Pids] : n \in 1..MaxList}

\* is_loaded, else an error.  The operator names processes that exist, and
\* whose creation is over.
Begin(op, pids) ==
    /\ cmd.op = "none"
    /\ loaded
    /\ \A n \in DOMAIN pids : Alive(pids[n]) /\ ~Forking(pids[n])
    /\ cmd' = [NoCmd EXCEPT !.op = op, !.pids = pids]
    /\ UNCHANGED <<kernel, loaded, protected, forked_in, hooks, ghosts>>

Pid == cmd.pids[cmd.i]

\* The command goes on with the next PID, or returns after the last one.
\* Mutant: the loop runs one PID too far.
AdvancePastEnd == cmd' = IF cmd.i > Len(cmd.pids) THEN NoCmd ELSE [cmd EXCEPT !.i = @ + 1]
Advance        == cmd' = IF cmd.i = Len(cmd.pids) THEN NoCmd ELSE [cmd EXCEPT !.i = @ + 1]

\* The loop's `?`: a failed update ends the command, earlier PIDs stay.
\* Mutant: the error is dropped and the loop goes on.
CarriesOn == Advance
GivesUp   == cmd' = [cmd EXCEPT !.op = "failed"]

EnforceOne ==
    /\ cmd.op = "enforce"
    /\ UNCHANGED <<kernel, loaded, forked_in, hooks, missed>>
    /\ \/ /\ loaded
          /\ HasRoom(Pid)
          /\ protected' = protected \cup {Pid}
          /\ covered' = IF Alive(Pid) THEN covered \cup {Pid} ELSE covered
          /\ Advance
       \/ /\ ~loaded \/ ~HasRoom(Pid) \/ SudoFails
          /\ GivesUp
          /\ UNCHANGED <<protected, covered>>

\* The command has reported its error.
ReturnError ==
    /\ cmd.op = "failed"
    /\ cmd' = NoCmd
    /\ UNCHANGED <<kernel, loaded, protected, forked_in, hooks, ghosts>>

\* The key an iteration of release deletes.  Mutant: always the first PID's.
FirstKey    == cmd.pids[1]
ReleasedKey == Pid

\* map_delete ignores its exit status: a delete that failed leaves the PID as
\* restricted as it was, and the loop goes on and reports it as released.
ReleaseOne ==
    /\ cmd.op = "release"
    /\ \/ /\ protected' = protected \ {ReleasedKey}
          /\ covered' = covered \ {Pid}
       \/ /\ SudoFails
          /\ UNCHANGED <<protected, covered>>
    /\ Advance
    /\ UNCHANGED <<kernel, loaded, forked_in, hooks, missed>>

\* A load starts with empty maps; what an earlier one enforced is forgotten.
Load ==
    /\ ~loaded
    /\ loaded' = TRUE
    /\ protected' = {}
    /\ forked_in' = 0
    /\ missed' = FALSE
    /\ UNCHANGED <<kernel, hooks, cmd, covered>>

\* Hooks in flight finish on maps that nobody can reach any more.
Unload ==
    /\ loaded
    /\ loaded' = FALSE
    /\ protected' = {}
    /\ forked_in' = 0
    /\ hooks' = {}
    /\ covered' = {}
    /\ missed' = FALSE
    /\ cmd' = Withdrawn(Pids)
    /\ UNCHANGED kernel

-----------------------------------------------------------------------------

\* The machine is up, some processes run, the enforcer is not loaded.
Init ==
    /\ \E some \in SUBSET Pids : /\ some # {}
                                 /\ threads = [p \in Pids |-> IF p \in some THEN 1 ELSE 0]
                                 /\ used = some
    /\ loaded = FALSE
    /\ protected = {}
    /\ forked_in = 0
    /\ hooks = {}
    /\ cmd = NoCmd
    /\ covered = {}
    /\ missed = FALSE

Next ==
    \/ \E p, q \in Pids : Fork(p, q)
    \/ \E h \in hooks : ForkHook(h)
    \/ \E p \in Pids : ThreadExit(p) \/ Spawn(p)
    \/ \E op \in {"enforce", "release"}, pids \in Lists : Begin(op, pids)
    \/ EnforceOne \/ ReleaseOne \/ ReturnError
    \/ Load \/ Unload

Spec == Init /\ [][Next]_vars

-----------------------------------------------------------------------------
(* Properties *)

\* Every variable holds a value of its type, and the map respects its size.
TypeOK ==
    /\ threads \in [Pids -> 0..MaxThreads]
    /\ used \subseteq Pids
    /\ loaded \in BOOLEAN
    /\ protected \subseteq Pids
    /\ Cardinality(protected) <= MapCap
    /\ forked_in \in 0..StatCap
    /\ hooks \subseteq [parent : Pids, child : Pids, hit : BOOLEAN]
    /\ cmd \in [op : {"none", "enforce", "release", "failed"},
                pids : Lists \cup {<<>>}, i : 1..MaxList, gone : SUBSET Pids]
    /\ cmd.op # "none" => cmd.i \in DOMAIN cmd.pids
    /\ covered \subseteq Pids
    /\ missed \in BOOLEAN

\* bpolicy.bpf.c, header: a PID set by userspace and its descendants may not
\* write outside the allow-list; exit clears it.  So a process that was
\* enforced, or descends from one, is in the map for as long as it lives and
\* nobody releases it; its own fork hook has the first few instructions.  Where
\* a hook has found the map full (its result is ignored), nothing is claimed.
DescendantsProtected ==
    loaded /\ ~missed => \A p \in covered : Forking(p) \/ p \in protected

\* No process is restricted that nobody enforced and that descends from no
\* process somebody enforced; nor one that was, once a release has deleted its
\* key.  That a release may report a PID whose delete failed is another matter:
\* README, Divergences.
NoStrayProtection ==
    loaded => \A p \in protected : Alive(p) => p \in covered

\* An enforce that returns without an error has restricted every PID it was
\* given, but for those that an exit or an unload has taken away meanwhile.
EnforceIsComplete ==
    [][cmd.op = "enforce" /\ cmd' = NoCmd /\ loaded =>
           \A n \in DOMAIN cmd.pids : cmd.pids[n] \in protected' \cup cmd.gone]_vars

=============================================================================
