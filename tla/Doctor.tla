------------------------------- MODULE Doctor -------------------------------
(***************************************************************************)
(* `bpolicy doctor` (src/src/doctor.rs) beside the control plane it        *)
(* diagnoses.  It reads one thing after the other, without a lock and      *)
(* without sudo: facts of the machine, the mount table, the pin and its    *)
(* directory, up to six `systemctl show`, and the pin once more, while     *)
(* loads, unloads and the deadman go on.                                   *)
(*                                                                         *)
(* ControlPlane knows the pin (attached); here there is also the directory *)
(* around it, which load_prog makes before the pin is in it.               *)
(***************************************************************************)
EXTENDS ControlPlane

CONSTANTS
    Callers, \* what the machine and the caller's rights let doctor read
    Units    \* how many units are asked for: three names, user then system

ASSUME DoctorAssumption ==
    /\ Units \in Nat
    /\ Callers \subseteq
           [lsm : {"unread", "bpf", "other"}, cmdline : {"unread", "bpf", "other"},
            btf : {"present", "empty", "absent", "unread"},
            caps : {"either", "neither", "unread"}, root : BOOLEAN]

VARIABLES
    dir,    \* BPF_ROOT exists
    units,  \* what systemctl would say of each unit
    doctor, \* the report under way
    seen    \* history: what was so at some time since the report began

dvars == <<vars, dir, units, doctor, seen>>

NoReport  == [pc |-> "idle", next |-> 1, root |-> FALSE, mounted |-> TRUE,
              verdicts |-> <<>>]
NothingYet == [up |-> FALSE, ran |-> FALSE, half |-> FALSE]

-----------------------------------------------------------------------------
(* Checks 1 to 3: facts that do not change while doctor runs *)

\* securityfs first, the lsm= of the command line when that cannot be read.
check_lsm_list(m) ==
    LET active == IF m.lsm # "unread" THEN m.lsm ELSE m.cmdline
    IN  [unread |-> "unknown", bpf |-> "ok", other |-> "gap"][active]

check_btf(m) ==
    [present |-> "ok", empty |-> "gap", absent |-> "gap", unread |-> "unknown"][m.btf]

\* CAP_BPF or CAP_SYS_ADMIN in CapEff.
check_capability(m) ==
    [either |-> "ok", neither |-> "gap", unread |-> "unknown"][m.caps]

DoctorBegin(m) ==
    /\ doctor.pc \in {"idle", "printed"}
    /\ doctor' = [NoReport EXCEPT
                    !.pc = "mounts", !.root = m.root,
                    !.verdicts = <<check_lsm_list(m), check_btf(m), check_capability(m)>>]

-----------------------------------------------------------------------------
(* Checks 4 and 5 *)

\* Path::exists.  /sys/fs/bpf is closed to everybody but root, and what cannot
\* be looked at does not exist.
Exists(file) == doctor.root /\ file

\* The check at hand has its verdict.
Verdict(verdict, label) ==
    doctor' = [doctor EXCEPT !.verdicts = Append(@, verdict), !.pc = label]

\* Without the mount the check returns early.  Mutant: it goes on.
UnmountedGoesOn  == "pin"
UnmountedReturns == "units"

ReadMounts ==
    /\ doctor.pc = "mounts"
    /\ \/ doctor' = [doctor EXCEPT !.pc = "pin"]
       \/ /\ ~dir
          /\ doctor' = [doctor EXCEPT !.verdicts = Append(@, "gap"),
                                      !.mounted = FALSE, !.pc = UnmountedReturns]

ReadPin ==
    /\ doctor.pc = "pin"
    /\ IF Exists(attached) THEN Verdict("ok", "units")
                           ELSE doctor' = [doctor EXCEPT !.pc = "dir"]

ReadDir ==
    /\ doctor.pc = "dir"
    /\ Verdict(IF Exists(dir) THEN "gap" ELSE "ok", "units")

\* There is another unit to ask for.
MoreUnits == doctor.next <= Units

\* The first unit that is there decides.  A systemctl that fails is one that
\* does not know the unit.
AskUnit ==
    /\ doctor.pc = "units"
    /\ MoreUnits
    /\ \/ /\ units[doctor.next] = "ran"
          /\ Verdict("ok", "printed")
       \/ /\ units[doctor.next] = "inactive"
          /\ Verdict("gap", "printed")
       \/ /\ units[doctor.next] = "not-found" \/ May("systemd")
          /\ doctor' = [doctor EXCEPT !.next = @ + 1]

\* No unit: loaded is good enough.  Mutant: any trace of a load will do.
ArmedByDirectory == Exists(dir)
ArmedByHand      == Exists(attached)

ReadPinAgain ==
    /\ doctor.pc = "units"
    /\ ~MoreUnits
    /\ Verdict(IF ArmedByHand THEN "ok" ELSE "gap", "printed")

Probe == ReadMounts \/ ReadPin \/ ReadDir \/ AskUnit \/ ReadPinAgain

-----------------------------------------------------------------------------
(* What doctor looks at, while it looks *)

\* load_prog's mkdir -p.
Mkdir(c) ==
    /\ pc[c] = "load_prog"
    /\ ~dir
    /\ dir' = TRUE
    /\ UNCHANGED <<vars, units, doctor>>

\* bpftool pins into a directory that is there.  Mutant: no mkdir -p, and the
\* directory comes with the pins.
DirComesWithPins == TRUE
DirIsMade        == dir

\* rm -rf of the directory by an unload; bpffs and doctor end with a reboot.
Removed == \E p \in Procs : pc[p] = "rm" /\ pc'[p] = "disarm"

Commands ==
    /\ Next
    /\ ~attached /\ attached' => DirIsMade
    /\ IF Reboot
       THEN /\ dir' = FALSE
            /\ units' = [k \in 1..Units |->
                            IF units[k] = "ran" THEN "inactive" ELSE units[k]]
            /\ doctor' = NoReport
       ELSE /\ dir' = (attached' \/ (dir /\ ~Removed))
            /\ UNCHANGED <<units, doctor>>

\* A unit is started, or stopped.
UnitChanges(k) ==
    /\ units[k] # "not-found"
    /\ units' = [units EXCEPT ![k] = IF @ = "ran" THEN "inactive" ELSE "ran"]
    /\ UNCHANGED <<vars, dir, doctor>>

\* What is so after a step is added to what the report has seen.
Now == [up   |-> attached',
        ran  |-> \E k \in 1..Units : units'[k] = "ran",
        half |-> dir' /\ ~attached']

Observe ==
    seen' = CASE doctor'.pc = "idle"                  -> NothingYet
              [] doctor'.pc = doctor.pc /\ doctor.pc = "printed" -> seen
              [] doctor'.pc = "mounts" /\ doctor.pc # "mounts"   -> Now
              [] OTHER -> [w \in DOMAIN seen |-> seen[w] \/ Now[w]]

DInit ==
    /\ Init
    /\ dir = FALSE
    /\ units \in [1..Units -> {"not-found", "inactive"}]
    /\ doctor = NoReport
    /\ seen = NothingYet

DNext ==
    /\ \/ Commands
       \/ \E c \in Clients : Mkdir(c)
       \/ \E k \in 1..Units : UnitChanges(k)
       \/ /\ (\E m \in Callers : DoctorBegin(m)) \/ Probe
          /\ UNCHANGED <<vars, dir, units>>
    /\ Observe

DSpec == DInit /\ [][DNext]_dvars

-----------------------------------------------------------------------------
(* Properties *)

Checks == <<"lsm-list", "btf", "capability", "bpf-fs", "boot-arm">>

\* The first check, in probe order, whose verdict is a gap.
first_gap == LET gaps == {n \in DOMAIN doctor.verdicts : doctor.verdicts[n] = "gap"}
             IN  IF gaps = {} THEN "none"
                 ELSE Checks[CHOOSE n \in gaps : \A k \in gaps : n <= k]

Printed == doctor.pc = "printed"

\* Every variable of doctor holds a value of its type: one verdict per check
\* that has been made, and never a question about a unit that is not in the list.
DoctorTypeOK ==
    /\ dir \in BOOLEAN
    /\ units \in [1..Units -> {"not-found", "inactive", "ran"}]
    /\ seen \in [DOMAIN NothingYet -> BOOLEAN]
    /\ doctor.next \in 1..(Units + 1)
    /\ doctor.verdicts \in Seq({"ok", "gap", "unknown"})
    /\ Len(doctor.verdicts) = [idle |-> 0, mounts |-> 3, pin |-> 3, dir |-> 3,
                               units |-> 4, printed |-> 5][doctor.pc]

\* README.md: doctor tells why the enforcer is inert.  A report during which
\* the program was never attached and no unit had run names a gap, whatever
\* came and went between its probes.  Test AC6 of doctor.rs leaves the unit out,
\* which is too much: after the deadman has unloaded what a unit had armed, the
\* unit has still run.
InertIsExplained == Printed /\ ~seen.up /\ ~seen.ran => first_gap # "none"

\* The two reads of check 4 are made at different times, but what they say
\* together was so: a directory without the pin is reported only when there was
\* one, and not because a load came in between.
HalfMadeWasThere ==
    Printed /\ doctor.mounted /\ doctor.verdicts[4] = "gap" => seen.half

=============================================================================
