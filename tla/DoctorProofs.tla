---------------------------- MODULE DoctorProofs ----------------------------
(***************************************************************************)
(* Theorems about doctor, for any number of units, any machine and any     *)
(* caller, beside any shells and faults of the control plane.              *)
(***************************************************************************)
EXTENDS Doctor, ControlPlaneProofs, SequenceTheorems

-----------------------------------------------------------------------------
(* Types *)

Verdicts == {"ok", "gap", "unknown"}

Stages == {"idle", "mounts", "pin", "dir", "units", "printed"}

Facts == {"up", "ran", "half"}
Flags == [Facts -> BOOLEAN]

DoctorRecord == [pc : Stages, next : 1..(Units + 1), root : BOOLEAN, mounted : BOOLEAN,
                 verdicts : Seq(Verdicts)]

\* How many checks are made when doctor is at a label.
Made(label) == [idle |-> 0, mounts |-> 3, pin |-> 3, dir |-> 3, units |-> 4, printed |-> 5][label]

Shape ==
    /\ dir \in BOOLEAN
    /\ units \in [1..Units -> {"not-found", "inactive", "ran"}]
    /\ seen \in Flags
    /\ doctor \in DoctorRecord
    /\ Len(doctor.verdicts) = Made(doctor.pc)

\* The pin is in a directory.  A report at its second look for the half-made pin
\* has seen neither, or has seen the directory without the pin.
Pinned ==
    /\ attached => dir
    /\ doctor.pc = "dir" /\ doctor.root => ~dir \/ seen.half

\* What the last two verdicts stand for.
Explained ==
    /\ doctor.pc \in {"units", "printed"} /\ doctor.mounted /\ doctor.verdicts[4] = "gap"
           => seen.half
    /\ doctor.pc = "printed" =>
           \/ doctor.verdicts[5] = "gap"
           \/ doctor.verdicts[5] = "ok" /\ (seen.up \/ seen.ran)

LEMMA FlagsAre ==
    ASSUME NEW a \in BOOLEAN, NEW b \in BOOLEAN, NEW c \in BOOLEAN
    PROVE  /\ [up |-> a, ran |-> b, half |-> c] \in Flags
           /\ [up |-> a, ran |-> b, half |-> c].up = a
           /\ [up |-> a, ran |-> b, half |-> c].ran = b
           /\ [up |-> a, ran |-> b, half |-> c].half = c
<1> DEFINE flags == [up |-> a, ran |-> b, half |-> c]
<1>1. DOMAIN flags = Facts /\ \A w \in Facts : flags[w] \in BOOLEAN
  BY DEF Facts
<1>2. flags = [w \in DOMAIN flags |-> flags[w]]
  OBVIOUS
<1>3. flags.up = a /\ flags.ran = b /\ flags.half = c
  OBVIOUS
<1> HIDE DEF flags
<1>4. flags \in Flags
  BY <1>1, <1>2 DEF Flags
<1> QED BY <1>3, <1>4 DEF flags

LEMMA NothingSeen == NothingYet \in Flags /\ ~NothingYet.half /\ ~NothingYet.up
BY FlagsAre DEF NothingYet

\* What a report has seen only grows till it is printed.
LEMMA SeenGrows ==
    ASSUME Shape, attached' \in BOOLEAN, dir' \in BOOLEAN, Observe
    PROVE  /\ seen' \in Flags
           /\ doctor'.pc = doctor.pc /\ doctor.pc # "idle" =>
                  \A w \in Facts : seen[w] => seen'[w]
           /\ doctor'.pc \in {"pin", "dir", "units", "printed"} /\ doctor'.pc # doctor.pc =>
                  \A w \in Facts : seen'[w] = (seen[w] \/ Now[w])
           /\ doctor'.pc = doctor.pc /\ doctor.pc \in {"mounts", "pin", "dir", "units"} =>
                  \A w \in Facts : seen'[w] = (seen[w] \/ Now[w])
<1>1. seen \in Flags /\ NothingYet \in Flags
  BY NothingSeen DEF Shape
<1>a. Now \in Flags
  BY FlagsAre DEF Now
<1> HIDE DEF Now
<1>b. DOMAIN seen = Facts
  BY <1>1 DEF Flags
<1>2. CASE doctor'.pc = "idle"
  BY <1>1, <1>2 DEF Observe
<1>3. CASE doctor'.pc = doctor.pc /\ doctor.pc = "printed"
  BY <1>1, <1>3 DEF Observe
<1>4. CASE doctor'.pc = "mounts" /\ doctor.pc # "mounts"
  BY <1>a, <1>4 DEF Observe
<1>5. CASE /\ doctor'.pc # "idle" /\ ~(doctor'.pc = doctor.pc /\ doctor.pc = "printed")
           /\ ~(doctor'.pc = "mounts" /\ doctor.pc # "mounts")
  <2>1. seen' = [w \in Facts |-> seen[w] \/ Now[w]]
    BY <1>b, <1>5 DEF Observe
  <2>2. seen' \in Flags /\ \A w \in Facts : seen'[w] = (seen[w] \/ Now[w])
    BY <2>1, Zenon DEF Flags
  <2> QED BY <1>5, <2>2
<1> QED BY <1>2, <1>3, <1>4, <1>5

-----------------------------------------------------------------------------
(* The steps *)

\* One more verdict leaves those before it as they are.
LEMMA OneMore ==
    ASSUME Shape, NEW v \in Verdicts, doctor'.verdicts = Append(doctor.verdicts, v)
    PROVE  /\ doctor'.verdicts \in Seq(Verdicts)
           /\ Len(doctor'.verdicts) = Made(doctor.pc) + 1
           /\ doctor'.verdicts[Made(doctor.pc) + 1] = v
           /\ \A n \in 1..Made(doctor.pc) : doctor'.verdicts[n] = doctor.verdicts[n]
<1>1. doctor.verdicts \in Seq(Verdicts) /\ Len(doctor.verdicts) = Made(doctor.pc)
  BY DEF Shape, DoctorRecord
<1> QED BY <1>1, AppendProperties

LEMMA MadeIs ==
    /\ Made("idle") = 0 /\ Made("mounts") = 3 /\ Made("pin") = 3 /\ Made("dir") = 3
    /\ Made("units") = 4 /\ Made("printed") = 5
BY DEF Made

\* The three checks of the machine.
LEMMA MachineChecks ==
    ASSUME NEW m \in Callers
    PROVE  /\ <<check_lsm_list(m), check_btf(m), check_capability(m)>> \in Seq(Verdicts)
           /\ Len(<<check_lsm_list(m), check_btf(m), check_capability(m)>>) = 3
           /\ m.root \in BOOLEAN
<1>1. /\ m.lsm \in {"unread", "bpf", "other"} /\ m.cmdline \in {"unread", "bpf", "other"}
      /\ m.btf \in {"present", "empty", "absent", "unread"}
      /\ m.caps \in {"either", "neither", "unread"} /\ m.root \in BOOLEAN
  BY DoctorAssumption
<1>2. check_lsm_list(m) \in Verdicts
  BY <1>1 DEF check_lsm_list, Verdicts
<1>3. check_btf(m) \in Verdicts /\ check_capability(m) \in Verdicts
  BY <1>1 DEF check_btf, check_capability, Verdicts
<1> QED BY <1>1, <1>2, <1>3

DoctorInv == Shape /\ Pinned /\ Explained

\* While a report stays where it is.
LEMMA ReportWaits ==
    ASSUME DoctorInv, UNCHANGED doctor, Observe, attached' \in BOOLEAN, dir' \in BOOLEAN,
           units' \in [1..Units -> {"not-found", "inactive", "ran"}],
           attached' => dir', dir' => dir \/ ~attached'
    PROVE  DoctorInv'
<1>1. seen' \in Flags /\ (doctor.pc # "idle" => \A w \in Facts : seen[w] => seen'[w])
  BY SeenGrows DEF DoctorInv
<1>2. Shape'
  BY <1>1 DEF DoctorInv, Shape
<1>3. Explained'
  BY <1>1 DEF DoctorInv, Explained, Facts
<1>4. CASE doctor.pc = "dir" /\ dir' /\ ~dir
  <2>1. seen'.half = (seen.half \/ Now.half)
    BY <1>4, SeenGrows DEF DoctorInv, Facts
  <2>2. Now.half = (dir' /\ ~attached')
    BY DEF Now
  <2>3. seen'.half
    BY <1>4, <2>1, <2>2
  <2> QED BY <1>2, <1>3, <2>3 DEF DoctorInv, Pinned
<1>5. CASE ~(doctor.pc = "dir" /\ dir' /\ ~dir)
  <2>1. Pinned'
    BY <1>1, <1>5 DEF DoctorInv, Pinned, Facts
  <2> QED BY <1>2, <1>3, <2>1 DEF DoctorInv
<1> QED BY <1>4, <1>5

LEMMA AroundReport ==
    ASSUME TypeOK, TypeOK', DoctorInv, Observe,
           \/ Commands \/ (\E c \in Clients : Mkdir(c)) \/ (\E k \in 1..Units : UnitChanges(k))
    PROVE  DoctorInv'
<1>0. /\ attached \in BOOLEAN /\ attached' \in BOOLEAN /\ dir \in BOOLEAN
      /\ units \in [1..Units -> {"not-found", "inactive", "ran"}]
  BY DEF TypeOK, DoctorInv, Shape
<1>1. CASE Commands /\ Reboot
  <2>1. /\ dir' = FALSE /\ doctor' = NoReport
        /\ units' = [k \in 1..Units |-> IF units[k] = "ran" THEN "inactive" ELSE units[k]]
    BY <1>1 DEF Commands
  <2>2. ~attached'
    BY <1>1 DEF Reboot, Detach
  <2>3. units' \in [1..Units -> {"not-found", "inactive", "ran"}]
    BY <1>0, <2>1
  <2>4. seen' = NothingYet
    BY <2>1 DEF Observe, NoReport
  <2>5. <<>> \in Seq(Verdicts) /\ Len(<<>>) = 0
    BY EmptySeq
  <2>6. doctor' \in DoctorRecord /\ doctor'.pc = "idle" /\ doctor'.verdicts = <<>>
    BY <2>1, <2>5, DoctorAssumption DEF NoReport, DoctorRecord, Stages
  <2> QED BY <2>1, <2>2, <2>3, <2>4, <2>5, <2>6, MadeIs, NothingSeen
          DEF DoctorInv, Shape, Pinned, Explained
<1>2. CASE Commands /\ ~Reboot
  <2>1. /\ UNCHANGED <<units, doctor>> /\ (~attached /\ attached' => dir)
        /\ dir' = (attached' \/ (dir /\ ~Removed))
    BY <1>2 DEF Commands, DirIsMade
  <2>2. dir' \in BOOLEAN /\ (attached' => dir') /\ (dir' => dir \/ attached')
    BY <1>0, <2>1
  <2>3. dir' => dir
    BY <2>1, <2>2 DEF DoctorInv, Pinned
  <2> QED BY <1>0, <2>1, <2>2, <2>3, ReportWaits
<1>3. ASSUME NEW c \in Clients, Mkdir(c) PROVE DoctorInv'
  <2>1. attached' = attached /\ ~attached /\ UNCHANGED <<units, doctor>> /\ dir' = TRUE
    BY <1>0, <1>3 DEF Mkdir, vars, kernel, DoctorInv, Pinned
  <2> QED BY <1>0, <2>1, ReportWaits
<1>4. ASSUME NEW k \in 1..Units, UnitChanges(k) PROVE DoctorInv'
  <2>1. attached' = attached /\ UNCHANGED <<dir, doctor>>
    BY <1>4 DEF UnitChanges, vars, kernel
  <2>2. units' \in [1..Units -> {"not-found", "inactive", "ran"}]
    BY <1>0, <1>4 DEF UnitChanges
  <2> QED BY <1>0, <2>1, <2>2, ReportWaits DEF DoctorInv, Pinned
<1> QED BY <1>1, <1>2, <1>3, <1>4

LEMMA BeginStep ==
    ASSUME TypeOK, DoctorInv, UNCHANGED <<vars, dir, units>>, Observe,
           NEW m \in Callers, DoctorBegin(m)
    PROVE  DoctorInv'
<1> DEFINE three == <<check_lsm_list(m), check_btf(m), check_capability(m)>>
<1>1. doctor' = [NoReport EXCEPT !.pc = "mounts", !.root = m.root, !.verdicts = three]
  BY DEF DoctorBegin
<1>2. three \in Seq(Verdicts) /\ Len(three) = 3 /\ m.root \in BOOLEAN
  BY MachineChecks
<1> HIDE DEF three
<1>3. /\ doctor'.pc = "mounts" /\ doctor'.verdicts = three /\ doctor' \in DoctorRecord
  <2>1. doctor' = [pc |-> "mounts", next |-> 1, root |-> m.root, mounted |-> TRUE,
                   verdicts |-> three]
    BY <1>1 DEF NoReport
  <2>2. 1 \in 1..(Units + 1)
    BY DoctorAssumption
  <2> QED BY <1>2, <2>1, <2>2 DEF DoctorRecord, Stages
<1>4. attached' = attached /\ dir' = dir /\ units' = units
  BY DEF vars, kernel
<1>5. attached' \in BOOLEAN /\ dir' \in BOOLEAN
  BY <1>4 DEF TypeOK, DoctorInv, Shape
<1>6. seen' \in Flags
  BY <1>5, SeenGrows DEF DoctorInv
<1> QED BY <1>2, <1>3, <1>4, <1>6, MadeIs DEF DoctorInv, Shape, Pinned, Explained

\* A probe.  What it says is so when it looks.
LEMMA ProbeStep ==
    ASSUME TypeOK, DoctorInv, UNCHANGED <<vars, dir, units>>, Observe, Probe
    PROVE  DoctorInv'
<1>0. /\ attached' = attached /\ dir' = dir /\ units' = units
      /\ attached \in BOOLEAN /\ dir \in BOOLEAN
  BY DEF vars, kernel, TypeOK, DoctorInv, Shape
<1>1. /\ doctor \in DoctorRecord /\ Len(doctor.verdicts) = Made(doctor.pc)
      /\ attached => dir
  BY DEF DoctorInv, Shape, Pinned
<1>2. seen' \in Flags
  BY <1>0, SeenGrows DEF DoctorInv
\* The report goes on without a verdict.
<1>3. ASSUME doctor' \in DoctorRecord, doctor'.verdicts = doctor.verdicts,
             Made(doctor'.pc) = Made(doctor.pc)
      PROVE  Shape'
  BY <1>0, <1>1, <1>2, <1>3 DEF DoctorInv, Shape
\* It has a verdict more.
<1>4. ASSUME NEW v \in Verdicts, doctor'.verdicts = Append(doctor.verdicts, v),
             doctor'.pc \in Stages, doctor'.next = doctor.next, doctor'.root = doctor.root,
             doctor'.mounted \in BOOLEAN, DOMAIN doctor' = DOMAIN doctor,
             doctor' = [doctor EXCEPT !.verdicts = doctor'.verdicts, !.pc = doctor'.pc,
                                      !.mounted = doctor'.mounted],
             Made(doctor'.pc) = Made(doctor.pc) + 1
      PROVE  Shape'
  <2>1. doctor'.verdicts \in Seq(Verdicts) /\ Len(doctor'.verdicts) = Made(doctor.pc) + 1
    BY <1>4, OneMore DEF DoctorInv
  <2>2. doctor' \in DoctorRecord
    BY <1>1, <1>4, <2>1 DEF DoctorRecord
  <2> QED BY <1>0, <1>2, <1>4, <2>1, <2>2 DEF DoctorInv, Shape
<1>5. CASE ReadMounts
  <2>0. doctor.pc = "mounts"
    BY <1>5 DEF ReadMounts
  <2>1. CASE doctor' = [doctor EXCEPT !.pc = "pin"]
    <3>1. /\ doctor' \in DoctorRecord /\ doctor'.pc = "pin"
          /\ doctor'.verdicts = doctor.verdicts
      BY <1>1, <2>1 DEF DoctorRecord, Stages
    <3> QED BY <1>0, <1>1, <1>3, <2>0, <3>1, MadeIs DEF DoctorInv, Pinned, Explained
  <2>2. CASE doctor' = [doctor EXCEPT !.verdicts = Append(@, "gap"), !.mounted = FALSE,
                                      !.pc = "units"]
    <3>1. /\ doctor'.pc = "units" /\ doctor'.mounted = FALSE
          /\ doctor'.verdicts = Append(doctor.verdicts, "gap")
          /\ doctor'.next = doctor.next /\ doctor'.root = doctor.root
          /\ DOMAIN doctor' = DOMAIN doctor
          /\ doctor' = [doctor EXCEPT !.verdicts = doctor'.verdicts, !.pc = doctor'.pc,
                                      !.mounted = doctor'.mounted]
      BY <1>1, <2>2 DEF DoctorRecord
    <3>2. Shape'
      <4>1. Made(doctor'.pc) = Made(doctor.pc) + 1
        BY <2>0, <3>1, MadeIs
      <4> QED BY <1>4, <3>1, <4>1 DEF Stages, Verdicts
    <3> QED BY <1>0, <1>1, <3>1, <3>2 DEF DoctorInv, Pinned, Explained
  <2> QED BY <1>5, <2>1, <2>2 DEF ReadMounts, UnmountedReturns
<1>6. CASE ReadPin
  <2>0. doctor.pc = "pin"
    BY <1>6 DEF ReadPin
  <2>1. CASE Exists(attached) /\ Verdict("ok", "units")
    <3>1. /\ doctor'.pc = "units" /\ doctor'.mounted = doctor.mounted
          /\ doctor'.verdicts = Append(doctor.verdicts, "ok")
          /\ doctor'.next = doctor.next /\ doctor'.root = doctor.root
          /\ DOMAIN doctor' = DOMAIN doctor
          /\ doctor' = [doctor EXCEPT !.verdicts = doctor'.verdicts, !.pc = doctor'.pc,
                                      !.mounted = doctor'.mounted]
      BY <1>1, <2>1 DEF DoctorRecord, Verdict
    <3>2. Shape'
      BY <1>1, <1>4, <2>0, <3>1, MadeIs DEF Stages, Verdicts, DoctorRecord
    <3>3. doctor'.verdicts[4] = "ok"
      BY <2>0, <3>1, OneMore, MadeIs DEF DoctorInv, Verdicts
    <3>4. Explained'
      BY <3>1, <3>3 DEF Explained
    <3>5. Pinned'
      BY <1>0, <1>1, <3>1 DEF Pinned
    <3> QED BY <3>2, <3>4, <3>5 DEF DoctorInv
  <2>2. CASE ~Exists(attached) /\ doctor' = [doctor EXCEPT !.pc = "dir"]
    <3>1. /\ doctor' \in DoctorRecord /\ doctor'.pc = "dir"
          /\ doctor'.verdicts = doctor.verdicts /\ doctor'.root = doctor.root
      BY <1>1, <2>2 DEF DoctorRecord, Stages
    <3>2. Shape'
      BY <1>3, <2>0, <3>1, MadeIs
    <3>3. doctor.root /\ dir => seen'.half
      <4>1. seen'.half = (seen.half \/ Now.half)
        BY <1>0, <2>0, <3>1, SeenGrows DEF DoctorInv, Facts
      <4>2. Now.half = (dir' /\ ~attached')
        BY DEF Now
      <4>3. ASSUME doctor.root, dir PROVE seen'.half
        <5>1. ~attached' /\ dir'
          BY <1>0, <2>2, <4>3 DEF Exists
        <5>2. Now.half
          BY <4>2, <5>1
        <5> QED BY <4>1, <5>2
      <4> QED BY <4>3
    <3> QED BY <1>0, <1>1, <3>1, <3>2, <3>3 DEF DoctorInv, Pinned, Explained
  <2> QED BY <1>6, <2>1, <2>2 DEF ReadPin
<1>7. CASE ReadDir
  <2> DEFINE v == IF Exists(dir) THEN "gap" ELSE "ok"
  <2>0. doctor.pc = "dir" /\ Verdict(v, "units") /\ v \in Verdicts
    BY <1>7 DEF ReadDir, Verdicts
  <2>a. v = "gap" => doctor.root /\ dir
    BY DEF Exists
  <2> HIDE DEF v
  <2>1. /\ doctor'.pc = "units" /\ doctor'.mounted = doctor.mounted
        /\ doctor'.verdicts = Append(doctor.verdicts, v)
        /\ doctor'.next = doctor.next /\ doctor'.root = doctor.root
        /\ DOMAIN doctor' = DOMAIN doctor
        /\ doctor' = [doctor EXCEPT !.verdicts = doctor'.verdicts, !.pc = doctor'.pc,
                                    !.mounted = doctor'.mounted]
    BY <1>1, <2>0 DEF DoctorRecord, Verdict
  <2>2. Shape'
    BY <1>1, <1>4, <2>0, <2>1, MadeIs DEF Stages, DoctorRecord
  <2>3. doctor'.verdicts[4] = v
    BY <2>0, <2>1, OneMore, MadeIs DEF DoctorInv
  <2>4. v = "gap" => seen'.half
    <3>1. seen'.half = (seen.half \/ Now.half)
      BY <1>0, <2>0, <2>1, SeenGrows DEF DoctorInv, Facts
    <3> QED BY <2>0, <2>a, <3>1 DEF DoctorInv, Pinned
  <2> QED BY <1>0, <1>1, <2>1, <2>2, <2>3, <2>4 DEF DoctorInv, Pinned, Explained
\* The last verdict, and what it rests on.
<1>8. ASSUME NEW v \in {"ok", "gap"}, doctor.pc = "units", Verdict(v, "printed"),
             v = "ok" => attached \/ \E k \in 1..Units : units[k] = "ran"
      PROVE  DoctorInv'
  <2>1. /\ doctor'.pc = "printed" /\ doctor'.mounted = doctor.mounted
        /\ doctor'.verdicts = Append(doctor.verdicts, v)
        /\ doctor'.next = doctor.next /\ doctor'.root = doctor.root
        /\ DOMAIN doctor' = DOMAIN doctor
        /\ doctor' = [doctor EXCEPT !.verdicts = doctor'.verdicts, !.pc = doctor'.pc,
                                    !.mounted = doctor'.mounted]
    BY <1>1, <1>8 DEF DoctorRecord, Verdict
  <2>2. v \in Verdicts
    BY DEF Verdicts
  <2>3. Shape'
    BY <1>1, <1>4, <1>8, <2>1, <2>2, MadeIs DEF Stages, DoctorRecord
  <2>4. doctor'.verdicts[5] = v /\ doctor'.verdicts[4] = doctor.verdicts[4]
    BY <1>8, <2>1, <2>2, OneMore, MadeIs DEF DoctorInv
  <2>5. \A w \in Facts : seen'[w] = (seen[w] \/ Now[w])
    BY <1>0, <1>8, <2>1, SeenGrows DEF DoctorInv
  <2>6. Now.up = attached' /\ Now.ran = (\E k \in 1..Units : units'[k] = "ran")
    BY DEF Now
  <2>7. v = "ok" => Now.up \/ Now.ran
    BY <1>0, <1>8, <2>6
  <2>8. /\ v = "ok" => seen'.up \/ seen'.ran
        /\ seen.half => seen'.half
    BY <2>5, <2>7 DEF Facts
  <2> QED BY <1>0, <1>1, <1>8, <2>1, <2>3, <2>4, <2>8 DEF DoctorInv, Pinned, Explained
<1>9. CASE AskUnit
  <2>1. CASE doctor' = [doctor EXCEPT !.next = @ + 1]
    <3>1. doctor.pc = "units" /\ doctor.next <= Units
      BY <1>9 DEF AskUnit, MoreUnits
    <3>2. doctor.next + 1 \in 1..(Units + 1)
      BY <1>1, <3>1, DoctorAssumption DEF DoctorRecord
    <3>3. /\ doctor' \in DoctorRecord /\ doctor'.pc = doctor.pc
          /\ doctor'.verdicts = doctor.verdicts /\ doctor'.mounted = doctor.mounted
      BY <1>1, <2>1, <3>2 DEF DoctorRecord
    <3>4. Shape'
      BY <1>3, <3>3
    <3>5. seen.half => seen'.half
      BY <1>0, <3>1, <3>3, SeenGrows DEF DoctorInv, Facts
    <3> QED BY <1>0, <1>1, <3>1, <3>3, <3>4, <3>5 DEF DoctorInv, Pinned, Explained
  <2>2. CASE doctor' # [doctor EXCEPT !.next = @ + 1]
    <3>1. /\ doctor.pc = "units" /\ doctor.next \in 1..Units
          /\ \/ units[doctor.next] = "ran" /\ Verdict("ok", "printed")
             \/ Verdict("gap", "printed")
      BY <1>1, <1>9, <2>2 DEF AskUnit, MoreUnits, DoctorRecord
    <3> QED BY <1>8, <3>1
  <2> QED BY <2>1, <2>2
<1>10. CASE ReadPinAgain
  <2>1. /\ doctor.pc = "units"
        /\ Verdict(IF ArmedByHand THEN "ok" ELSE "gap", "printed")
        /\ ArmedByHand => attached
    BY <1>10 DEF ReadPinAgain, ArmedByHand, Exists
  <2>2. CASE ArmedByHand
    BY <1>8, <2>1, <2>2
  <2>3. CASE ~ArmedByHand
    BY <1>8, <2>1, <2>3
  <2> QED BY <2>2, <2>3
<1> QED BY <1>5, <1>6, <1>7, <1>9, <1>10 DEF Probe

LEMMA DoctorStep ==
    ASSUME TypeOK, TypeOK', DoctorInv, [DNext]_dvars
    PROVE  DoctorInv'
<1>1. CASE UNCHANGED dvars
  <2>1. UNCHANGED <<attached, dir, units, doctor, seen>>
    BY <1>1 DEF dvars, vars, kernel
  <2> QED BY <2>1 DEF DoctorInv, Shape, Pinned, Explained
<1>2. CASE DNext
  BY <1>2, AroundReport, BeginStep, ProbeStep DEF DNext
<1> QED BY <1>1, <1>2

LEMMA DoctorInit == DInit => DoctorInv
<1> SUFFICES ASSUME DInit PROVE DoctorInv
  OBVIOUS
<1>1. /\ dir = FALSE /\ units \in [1..Units -> {"not-found", "inactive"}]
      /\ doctor = NoReport /\ seen = NothingYet /\ attached = FALSE
  BY DEF DInit, Init
<1>2. units \in [1..Units -> {"not-found", "inactive", "ran"}]
  BY <1>1
<1>3. <<>> \in Seq(Verdicts) /\ Len(<<>>) = 0
  BY EmptySeq
<1>4. doctor \in DoctorRecord /\ doctor.pc = "idle" /\ doctor.verdicts = <<>>
  BY <1>1, <1>3, DoctorAssumption DEF NoReport, DoctorRecord, Stages
<1> QED BY <1>1, <1>2, <1>3, <1>4, MadeIs, NothingSeen
        DEF DoctorInv, Shape, Pinned, Explained

-----------------------------------------------------------------------------
(* The theorems *)

\* doctor looks at the control plane and leaves it as it is.
LEMMA DoctorOnlyLooks == DSpec => Spec
<1>1. DInit => Init
  BY DEF DInit
<1>2. [DNext]_dvars => [Next]_vars
  BY DEF DNext, dvars, Commands, Mkdir, UnitChanges
<1> QED BY <1>1, <1>2, PTL DEF DSpec, Spec

LEMMA DoctorInvHolds == DSpec => [](TypeOK /\ DoctorInv)
BY DoctorInit, DoctorStep, DoctorOnlyLooks, TypeCorrect, PTL DEF DSpec

\* DoctorReport::run: one verdict per check that was made, and no question about
\* a unit beyond the list.
THEOREM DoctorTypes == DSpec => []DoctorTypeOK
<1>1. DoctorInv => DoctorTypeOK
  <2> SUFFICES ASSUME DoctorInv PROVE DoctorTypeOK
    OBVIOUS
  <2>1. DOMAIN NothingYet = Facts
    BY DEF NothingYet, Facts
  <2> QED BY <2>1 DEF DoctorInv, Shape, DoctorRecord, Flags, Made, Verdicts, DoctorTypeOK
<1> QED BY <1>1, DoctorInvHolds, PTL

\* check_bpf_fs: the half-made pin that a report names was there.
THEOREM HalfMadeHolds == DSpec => []HalfMadeWasThere
<1>1. DoctorInv => HalfMadeWasThere
  BY DEF DoctorInv, Explained, HalfMadeWasThere, Printed
<1> QED BY <1>1, DoctorInvHolds, PTL

\* A set of positions among the five checks has a first.
LEMMA FirstOfFive ==
    ASSUME NEW gaps \in SUBSET (1..5), gaps # {}
    PROVE  \E n \in gaps : \A k \in gaps : n <= k
<1>1. CASE 1 \in gaps
  BY <1>1
<1>2. CASE 1 \notin gaps /\ 2 \in gaps
  BY <1>2
<1>3. CASE 1 \notin gaps /\ 2 \notin gaps /\ 3 \in gaps
  BY <1>3
<1>4. CASE 1 \notin gaps /\ 2 \notin gaps /\ 3 \notin gaps /\ 4 \in gaps
  BY <1>4
<1>5. CASE 1 \notin gaps /\ 2 \notin gaps /\ 3 \notin gaps /\ 4 \notin gaps
  <2>1. PICK n \in gaps : TRUE
    OBVIOUS
  <2>2. \A k \in gaps : k \in 1..5 /\ k # 1 /\ k # 2 /\ k # 3 /\ k # 4
    BY <1>5
  <2>3. \A k \in gaps : k = 5
    BY <2>2
  <2> QED BY <2>1, <2>3
<1> QED BY <1>1, <1>2, <1>3, <1>4, <1>5

\* DoctorReport::run: an enforcer that is never attached and whose units never
\* have run during a report is given a gap, with any number of units, on any
\* machine, for any caller, and whatever loads and unloads pass.
THEOREM InertHolds == DSpec => []InertIsExplained
<1>1. DoctorInv => InertIsExplained
  <2> SUFFICES ASSUME DoctorInv, doctor.pc = "printed", ~seen.up, ~seen.ran
               PROVE  first_gap # "none"
    BY DEF InertIsExplained, Printed
  <2> DEFINE gaps == {n \in DOMAIN doctor.verdicts : doctor.verdicts[n] = "gap"}
  <2>1. doctor.verdicts \in Seq(Verdicts) /\ Len(doctor.verdicts) = 5
    BY MadeIs DEF DoctorInv, Shape, DoctorRecord
  <2>2. DOMAIN doctor.verdicts = 1..5
    BY <2>1, LenProperties
  <2>3. doctor.verdicts[5] = "gap"
    BY DEF DoctorInv, Explained
  <2>4. gaps \in SUBSET (1..5) /\ 5 \in gaps
    BY <2>2, <2>3
  <2> DEFINE first == CHOOSE n \in gaps : \A k \in gaps : n <= k
  <2>5. first_gap = Checks[first]
    BY <2>4 DEF first_gap
  <2> HIDE DEF gaps
  <2>6. first \in 1..5
    BY <2>4, FirstOfFive
  <2> HIDE DEF first
  <2>7. Checks[first] # "none"
    BY <2>6 DEF Checks
  <2> QED BY <2>5, <2>7
<1> QED BY <1>1, DoctorInvHolds, PTL

=============================================================================
