------------------------- MODULE ControlPlaneProofs -------------------------
(***************************************************************************)
(* Theorems about the command line of bpolicy, for every set of shells, of *)
(* profiles and of TTLs: types, the promise of the deadman, what a load    *)
(* leaves in the maps, that nobody is stranded without an error, and when  *)
(* a permanent arm stays.                                                  *)
(***************************************************************************)
EXTENDS ControlPlane, TLAPS

-----------------------------------------------------------------------------
(* Types *)

\* The null records are records of their types.
LEMMA NullTypes ==
    NoJob \in JobType /\ NoFile \in FileType /\ NoTimer \in TimerType /\ NoArm \in ArmType
BY DEF NoJob, JobType, NoFile, FileType, NoTimer, TimerType, NoArm, ArmType

\* A second less leaves a record in its type.
LEMMA PassTypes ==
    /\ \A r \in FileType : Pass(r) \in FileType
    /\ \A r \in TimerType : Pass(r) \in TimerType
    /\ \A r \in ArmType : Pass(r) \in ArmType
BY DEF Pass, FileType, TimerType, ArmType

\* A prefix of a profile, by its place in the file, is one of the prefixes.
LEMMA PrefixAt ==
    ASSUME NEW f \in Profiles, NEW n \in 1..Len(Allow[f])
    PROVE  Allow[f][n] \in Prefixes(f) /\ Prefixes(f) \subseteq AllPrefixes
BY DEF Prefixes, AllPrefixes

\* A process that returns to idle has a well-typed pc and job.
LEMMA FinishType ==
    ASSUME TypeOK, NEW p \in Procs, Finish(p)
    PROVE  pc' \in [Procs -> Labels] /\ job' \in [Procs -> JobType] /\ ArgumentsOK'
<1>1. pc' \in [Procs -> Labels] /\ job' \in [Procs -> JobType]
    BY NullTypes DEF TypeOK, Finish, Labels
<1>2. ArgumentsOK'
    BY DeadmanAssumption DEF TypeOK, ArgumentsOK, Finish, Procs
<1>3. QED BY <1>1, <1>2

\* A process that fails is well typed as well.
LEMMA FailType ==
    ASSUME TypeOK, NEW p \in Procs, Fail(p)
    PROVE  /\ pc' \in [Procs -> Labels] /\ job' \in [Procs -> JobType] /\ ArgumentsOK'
           /\ trouble' \in BOOLEAN
BY FinishType DEF TypeOK, Fail

\* Initially every variable has its type.
LEMMA InitType == Init => TypeOK
<1> SUFFICES ASSUME Init PROVE TypeOK
    OBVIOUS
<1>1. ArgumentsOK
    BY DeadmanAssumption DEF Init, ArgumentsOK, Procs
<1>2. QED BY <1>1, NullTypes DEF Init, TypeOK, Labels


\* The fields of a well-typed job.
LEMMA JobFields ==
    ASSUME TypeOK, NEW p \in Procs
    PROVE  /\ job[p].profile \in Profiles \cup {"none"} /\ job[p].audit \in BOOLEAN
           /\ job[p].ttl \in Nat /\ job[p].i \in Nat
BY DEF TypeOK, JobType

\* Moving a process to a label that asks nothing of its job.
LEMMA GotoType ==
    ASSUME TypeOK, NEW p \in Procs, NEW label \in Labels, Goto(p, label), job' = job,
           p # Deadman => label \notin {"check", "load_prog", "populate", "stop", "run"},
           p = Deadman => label \in {"rm", "disarm", "remove"}
    PROVE  pc' \in [Procs -> Labels] /\ job' \in [Procs -> JobType] /\ ArgumentsOK'
<1>1. pc' \in [Procs -> Labels]
    BY DEF TypeOK, Goto
<1>2. ArgumentsOK'
    BY DeadmanAssumption DEF TypeOK, ArgumentsOK, Goto, Procs
<1>3. QED BY <1>1, <1>2 DEF TypeOK

\* Every action keeps every variable in its type.
LEMMA NextType == TypeOK /\ [Next]_vars => TypeOK'
<1> SUFFICES ASSUME TypeOK, [Next]_vars PROVE TypeOK'
    OBVIOUS
<1> USE NullTypes
<1>1. ASSUME NEW c \in Clients, NEW profile \in Profiles, NEW audit \in BOOLEAN,
             NEW yes \in BOOLEAN, NEW tty \in BOOLEAN, NEW ttl \in TTLs,
             LoadBegin(c, profile, audit, yes, tty, ttl)
      PROVE  TypeOK'
  <2> DEFINE j == [op |-> "load", profile |-> profile, audit |-> audit, ttl |-> ttl, i |-> 1]
  <2>0. c \in Procs
    BY DEF Procs
  <2>1. CASE UNCHANGED <<pc, job, trouble>>
    BY <1>1, <2>1 DEF LoadBegin, TypeOK, ArgumentsOK, kernel, files
  <2>2. CASE Fail(c)
    BY <1>1, <2>0, <2>2, FailType DEF LoadBegin, TypeOK, kernel, files
  <2>3. CASE Goto(c, "load_prog") /\ job' = [job EXCEPT ![c] = j] /\ UNCHANGED trouble
    <3>1. j \in JobType
      BY NumbersAssumption DEF JobType
    <3>2. pc' \in [Procs -> Labels] /\ job' \in [Procs -> JobType]
      BY <2>3, <3>1 DEF TypeOK, Goto, Labels
    <3>3. ArgumentsOK'
      BY <2>0, <2>3, DeadmanAssumption DEF TypeOK, ArgumentsOK, Goto, Procs
    <3>4. QED BY <1>1, <2>3, <3>2, <3>3 DEF LoadBegin, TypeOK, kernel, files
  <2>4. QED BY <1>1, <2>1, <2>2, <2>3 DEF LoadBegin
<1>2. ASSUME NEW c \in Clients, NEW asked \in RenewTTLs, Renew(c, asked)
      PROVE  TypeOK'
  <2> DEFINE j == [NoJob EXCEPT !.op = "renew", !.ttl = RenewedTtl(asked)]
  <2>0. c \in Procs
    BY DEF Procs
  <2>1. CASE Fail(c)
    BY <1>2, <2>0, <2>1, FailType DEF Renew, TypeOK, kernel, files
  <2>2. CASE Goto(c, "write_tmp") /\ job' = [job EXCEPT ![c] = j] /\ UNCHANGED trouble
    <3>1. RenewedTtl(asked) \in Nat
      BY NumbersAssumption DEF RenewedTtl, TypeOK, FileType
    <3>2. j \in JobType
      BY <3>1 DEF JobType, NoJob
    <3>3. pc' \in [Procs -> Labels] /\ job' \in [Procs -> JobType]
      BY <2>2, <3>2 DEF TypeOK, Goto, Labels
    <3>4. ArgumentsOK'
      BY <2>0, <2>2, DeadmanAssumption DEF TypeOK, ArgumentsOK, Goto, Procs
    <3>5. QED BY <1>2, <2>2, <3>3, <3>4 DEF Renew, TypeOK, kernel, files
  <2>3. QED BY <1>2, <2>1, <2>2 DEF Renew
<1>3. ASSUME NEW p \in Procs, UnloadCheck(p)
      PROVE  TypeOK'
  <2> DEFINE j == [NoJob EXCEPT !.op = "unload"]
  <2>1. CASE Finish(p)
    BY <1>3, <2>1, FinishType DEF UnloadCheck, TypeOK, kernel, files, ghosts
  <2>2. CASE Goto(p, "rm") /\ job' = [job EXCEPT ![p] = j]
    <3>1. j \in JobType
      BY DEF JobType, NoJob
    <3>2. pc' \in [Procs -> Labels] /\ job' \in [Procs -> JobType]
      BY <2>2, <3>1 DEF TypeOK, Goto, Labels
    <3>3. ArgumentsOK'
      BY <2>2, DeadmanAssumption DEF TypeOK, ArgumentsOK, Goto, Procs
    <3>4. QED BY <1>3, <2>2, <3>2, <3>3 DEF UnloadCheck, TypeOK, kernel, files, ghosts
  <2>3. QED BY <1>3, <2>1, <2>2 DEF UnloadCheck
<1>4. ASSUME NEW c \in Clients, LoadProg(c)
      PROVE  TypeOK'
  <2>0. c \in Procs
    BY DEF Procs
  <2>1. CASE Fail(c) /\ UNCHANGED <<kernel, arm>>
    BY <1>4, <2>0, <2>1, FailType DEF LoadProg, TypeOK, kernel, files
  <2>2. CASE ~(Fail(c) /\ UNCHANGED <<kernel, arm>>)
    <3>1. Goto(c, "populate") /\ UNCHANGED job
      BY <1>4, <2>2 DEF LoadProg
    <3>2. pc' \in [Procs -> Labels] /\ job' \in [Procs -> JobType]
      BY <3>1 DEF TypeOK, Goto, Labels
    <3>3. ArgumentsOK'
      BY <1>4, <2>0, <3>1, DeadmanAssumption
         DEF LoadProg, TypeOK, ArgumentsOK, Goto, Procs
    <3>4. arm' \in ArmType
      BY <1>4, <2>0, <2>2, JobFields DEF LoadProg, ArmType
    <3>5. QED BY <1>4, <2>2, <3>2, <3>3, <3>4 DEF LoadProg, TypeOK, EmptyMaps, files
  <2>3. QED BY <2>1, <2>2
<1>5. ASSUME NEW c \in Clients, AllowlistAdd(c)
      PROVE  TypeOK'
  <2> DEFINE f == job[c].profile
  <2>0. c \in Procs
    BY DEF Procs
  <2>1. f \in Profiles /\ job[c].i \in 1..Len(Allow[f])
    <3>1. f \in Profiles /\ job[c].i > 0 /\ job[c].i <= Len(Allow[f])
      BY <1>5 DEF AllowlistAdd, Populating, TypeOK, ArgumentsOK
    <3>2. QED BY <2>0, <3>1, JobFields, ProfilesAssumption
  <2>2. Allow[f][job[c].i] \in AllPrefixes
    BY <2>1, PrefixAt
  <2>3. CASE Fail(c) /\ UNCHANGED allowlist
    BY <1>5, <2>0, <2>3, FailType DEF AllowlistAdd, TypeOK, files
  <2>4. CASE job' = [job EXCEPT ![c].i = @ + 1] /\ UNCHANGED <<pc, trouble>>
             /\ allowlist' = allowlist \cup {Allow[f][job[c].i]}
    <3>1. job' \in [Procs -> JobType]
      BY <2>0, <2>4 DEF TypeOK, JobType
    <3>2. /\ job'[c].profile = f /\ job'[c].i = job[c].i + 1 /\ job'[c].ttl = job[c].ttl
          /\ \A d \in Clients \ {c} : job'[d] = job[d]
      BY <2>0, <2>4 DEF TypeOK, JobType, Procs
    <3>3. ArgumentsOK'
      BY <2>0, <2>1, <2>4, <3>2, JobFields DEF TypeOK, ArgumentsOK
    <3>4. QED BY <1>5, <2>2, <2>4, <3>1, <3>3 DEF AllowlistAdd, TypeOK, files
  <2>5. QED BY <1>5, <2>3, <2>4 DEF AllowlistAdd
<1>6. ASSUME NEW c \in Clients, WriteMode(c)
      PROVE  TypeOK'
  <2>1. c \in Procs /\ c # Deadman /\ "write_tmp" \in Labels
    BY DeadmanAssumption DEF Procs, Labels
  <2>2. Goto(c, "write_tmp") /\ UNCHANGED job
    BY <1>6 DEF WriteMode
  <2>3. QED BY <1>6, <2>1, <2>2, GotoType
            DEF WriteMode, RequestedMode, TypeOK, files, ghosts
<1>7. ASSUME NEW c \in Clients, WriteTmp(c)
      PROVE  TypeOK'
  <2>1. c \in Procs /\ c # Deadman /\ "rename" \in Labels
    BY DeadmanAssumption DEF Procs, Labels
  <2>2. CASE Fail(c) /\ UNCHANGED tmp
    BY <1>7, <2>1, <2>2, FailType DEF WriteTmp, TypeOK, kernel
  <2>3. CASE Goto(c, "rename") /\ UNCHANGED <<job, trouble>>
             /\ tmp' = [here |-> TRUE, ttl |-> job[c].ttl, left |-> job[c].ttl]
    <3>1. tmp' \in FileType
      BY <2>1, <2>3, JobFields DEF FileType
    <3>2. QED BY <1>7, <2>1, <2>3, <3>1, GotoType DEF WriteTmp, TypeOK, kernel
  <2>4. QED BY <1>7, <2>2, <2>3 DEF WriteTmp
<1>8. ASSUME NEW c \in Clients, Rename(c)
      PROVE  TypeOK'
  <2>0. c \in Procs
    BY DEF Procs
  <2>1. CASE Fail(c) /\ UNCHANGED files
    BY <1>8, <2>0, <2>1, FailType DEF Rename, TypeOK, kernel, files
  <2>2. CASE Finish(c) /\ state' = tmp /\ tmp' = NoFile /\ UNCHANGED trouble
    BY <1>8, <2>0, <2>2, FinishType DEF Rename, TypeOK, kernel
  <2>3. CASE NeedsWatchdog(c) /\ Goto(c, "stop") /\ UNCHANGED job
             /\ state' = tmp /\ tmp' = NoFile /\ UNCHANGED trouble
    <3>1. pc' \in [Procs -> Labels]
      BY <2>3 DEF TypeOK, Goto, Labels
    <3>2. ArgumentsOK'
      BY <2>0, <2>3, DeadmanAssumption DEF TypeOK, ArgumentsOK, Goto, Procs, NeedsWatchdog
    <3>3. QED BY <1>8, <2>3, <3>1, <3>2 DEF Rename, TypeOK, kernel
  <2>4. QED BY <1>8, <2>1, <2>2, <2>3 DEF Rename
<1>9. ASSUME NEW c \in Clients, ArmStop(c)
      PROVE  TypeOK'
  <2>1. pc' \in [Procs -> Labels] /\ job' \in [Procs -> JobType]
    BY <1>9 DEF ArmStop, TypeOK, Goto, Labels
  <2>2. ArgumentsOK'
    BY <1>9, DeadmanAssumption DEF ArmStop, TypeOK, ArgumentsOK, Goto, Procs
  <2>3. timer' \in TimerType
    BY <1>9 DEF ArmStop, TypeOK
  <2>4. QED BY <1>9, <2>1, <2>2, <2>3 DEF ArmStop, TypeOK, kernel, files, ghosts
<1>10. ASSUME NEW c \in Clients, SystemdRun(c)
       PROVE  TypeOK'
  <2>0. c \in Procs
    BY DEF Procs
  <2>1. CASE Fail(c) /\ UNCHANGED <<timer, arm>>
    BY <1>10, <2>0, <2>1, FailType DEF SystemdRun, TypeOK, kernel, files
  <2>2. CASE ~(Fail(c) /\ UNCHANGED <<timer, arm>>)
    <3>0. timer' = [set |-> TRUE, left |-> job[c].ttl]
      BY <1>10, <2>2 DEF SystemdRun
    <3>1. timer' \in TimerType
      BY <2>0, <3>0, JobFields DEF TimerType
    <3>2. arm' \in ArmType
      BY <1>10, <2>0, <2>2, JobFields DEF SystemdRun, TypeOK, ArmType
    <3>3. QED BY <1>10, <2>0, <2>2, <3>1, <3>2, FinishType
              DEF SystemdRun, TypeOK, kernel, files
  <2>3. QED BY <2>1, <2>2
<1>11. ASSUME NEW p \in Procs, UnloadRm(p)
       PROVE  TypeOK'
  <2>1. CASE Fail(p) /\ UNCHANGED <<kernel, arm>>
    BY <1>11, <2>1, FailType DEF UnloadRm, TypeOK, kernel, files
  <2>2. CASE Detach /\ Goto(p, "disarm") /\ UNCHANGED job
    <3>1. "disarm" \in Labels
      BY DEF Labels
    <3>2. QED BY <1>11, <2>2, <3>1, GotoType DEF UnloadRm, Detach, EmptyMaps, TypeOK, files
  <2>3. QED BY <1>11, <2>1, <2>2 DEF UnloadRm
<1>12. ASSUME NEW p \in Procs, Disarm(p)
       PROVE  TypeOK'
  <2>1. pc' \in [Procs -> Labels] /\ job' \in [Procs -> JobType]
    BY <1>12 DEF Disarm, TypeOK, Goto, Labels
  <2>2. ArgumentsOK'
    BY <1>12, DeadmanAssumption DEF Disarm, TypeOK, ArgumentsOK, Goto, Procs
  <2>3. timer' \in TimerType
    BY <1>12 DEF Disarm, TypeOK
  <2>4. QED BY <1>12, <2>1, <2>2, <2>3 DEF Disarm, TypeOK, kernel, files, ghosts
<1>13. ASSUME NEW p \in Procs, RemoveState(p)
       PROVE  TypeOK'
    BY <1>13, FinishType DEF RemoveState, TypeOK, kernel, ghosts
<1>14. CASE Fire
  <2>1. pc' \in [Procs -> Labels]
    BY <1>14 DEF Fire, TypeOK, Goto, Labels
  <2>2. ArgumentsOK'
    BY <1>14, DeadmanAssumption DEF Fire, TypeOK, ArgumentsOK, Goto, Procs
  <2>3. QED BY <1>14, <2>1, <2>2 DEF Fire, TypeOK, kernel, files, ghosts
<1>15. ASSUME NEW p \in Procs, Kill(p)
       PROVE  TypeOK'
    BY <1>15, FailType DEF Kill, TypeOK, kernel, files
<1>16. CASE Reboot
  <2>1. pc' \in [Procs -> Labels] /\ job' \in [Procs -> JobType]
    BY <1>16 DEF Reboot, Labels
  <2>2. ArgumentsOK'
    BY <1>16, DeadmanAssumption DEF Reboot, ArgumentsOK, Procs
  <2>3. QED BY <1>16, <2>1, <2>2 DEF Reboot, Detach, EmptyMaps, TypeOK, files
<1>17. CASE Logout
  <2>1. pc' \in [Procs -> Labels] /\ job' \in [Procs -> JobType]
    BY <1>17 DEF Logout, TypeOK, Labels
  <2>2. ArgumentsOK'
    BY <1>17, DeadmanAssumption DEF Logout, TypeOK, ArgumentsOK, Procs
  <2>3. QED BY <1>17, <2>1, <2>2 DEF Logout, TypeOK, kernel, files, ghosts
<1>18. CASE Tick
    BY <1>18, PassTypes DEF Tick, TypeOK, ArgumentsOK, kernel
<1>19. CASE UNCHANGED vars
    BY <1>19 DEF vars, TypeOK, ArgumentsOK
<1>20. QED
    BY <1>1, <1>2, <1>3, <1>4, <1>5, <1>6, <1>7, <1>8, <1>9, <1>10, <1>11, <1>12,
       <1>13, <1>14, <1>15, <1>16, <1>17, <1>18, <1>19
       DEF Next, Start, ClientStep, UnloadStep, Procs

\* Type correctness: whatever fails and however the shells interleave, every
\* variable keeps a value of its type, and each process is where its command
\* can bring it.
THEOREM TypeCorrect == Spec => []TypeOK
BY InitType, NextType, PTL DEF Spec

-----------------------------------------------------------------------------
(* The deadman keeps its promise *)

\* What keeps the deadman away while something is left of the promise: it is
\* not running an unload, and no timer that is pending ends sooner.
Promise ==
    arm.left > 0 => /\ attached
                    /\ pc[Deadman] \notin {"check", "rm"}
                    /\ timer.set => timer.left >= arm.left

\* A step that changes neither the promise nor the timer, and brings the
\* deadman no closer, keeps the promise.
LEMMA PromiseUntouched ==
    ASSUME Promise, UNCHANGED <<attached, arm, timer>>,
           pc'[Deadman] \in {"check", "rm"} => pc[Deadman] \in {"check", "rm"}
    PROVE  Promise'
BY DEF Promise

\* A step that moves one process leaves the others where they are.
LEMMA OthersStay ==
    ASSUME TypeOK, NEW p \in Procs, NEW q \in Procs, q # p,
           Finish(p) \/ Fail(p) \/ \E label \in Labels : Goto(p, label)
    PROVE  pc'[q] = pc[q]
BY DEF TypeOK, Finish, Fail, Goto

\* A process that returns from its command is idle.
LEMMA BackToIdle ==
    ASSUME TypeOK, NEW p \in Procs, Finish(p) \/ Fail(p)
    PROVE  pc'[p] = "idle"
BY DEF TypeOK, Finish, Fail

\* Every action keeps the promise.
LEMMA PromiseStep == TypeOK /\ Promise /\ [Next]_vars => Promise'
<1> SUFFICES ASSUME TypeOK, Promise, [Next]_vars PROVE Promise'
    OBVIOUS
<1>0. Deadman \in Procs /\ \A c \in Clients : c \in Procs /\ c # Deadman
    BY DeadmanAssumption DEF Procs
<1>l. Labels = {"idle", "load_prog", "populate", "write_tmp", "rename", "stop",
                "run", "check", "rm", "disarm", "remove"}
    BY DEF Labels
<1>1. ASSUME NEW c \in Clients, NEW profile \in Profiles, NEW audit \in BOOLEAN,
             NEW yes \in BOOLEAN, NEW tty \in BOOLEAN, NEW ttl \in TTLs,
             LoadBegin(c, profile, audit, yes, tty, ttl)
      PROVE  Promise'
  <2>1. UNCHANGED <<attached, arm, timer>>
    BY <1>1 DEF LoadBegin, kernel
  <2>2. pc'[Deadman] = pc[Deadman]
    BY <1>0, <1>1, <1>l, OthersStay DEF LoadBegin
  <2>3. QED BY <2>1, <2>2, PromiseUntouched
<1>2. ASSUME NEW c \in Clients, NEW asked \in RenewTTLs, Renew(c, asked)
      PROVE  Promise'
  <2>1. UNCHANGED <<attached, arm, timer>>
    BY <1>2 DEF Renew, kernel
  <2>2. pc'[Deadman] = pc[Deadman]
    BY <1>0, <1>2, <1>l, OthersStay DEF Renew
  <2>3. QED BY <2>1, <2>2, PromiseUntouched
<1>3. ASSUME NEW p \in Procs, UnloadCheck(p)
      PROVE  Promise'
  <2>1. UNCHANGED <<attached, arm, timer>>
    BY <1>3 DEF UnloadCheck, ghosts, kernel
  <2>2. CASE p = Deadman
    BY <1>3, <2>1, <2>2, PromiseUntouched DEF UnloadCheck
  <2>3. CASE p # Deadman
    <3>1. pc'[Deadman] = pc[Deadman]
      BY <1>0, <1>3, <1>l, <2>3, OthersStay DEF UnloadCheck
    <3>2. QED BY <2>1, <3>1, PromiseUntouched
  <2>4. QED BY <2>2, <2>3
<1>4. ASSUME NEW c \in Clients, LoadProg(c)
      PROVE  Promise'
  <2>1. CASE UNCHANGED <<kernel, arm>> /\ Fail(c)
    <3>1. pc'[Deadman] = pc[Deadman]
      BY <1>0, <2>1, OthersStay
    <3>2. QED BY <1>4, <2>1, <3>1, PromiseUntouched DEF LoadProg, kernel
  <2>2. CASE ~(UNCHANGED <<kernel, arm>> /\ Fail(c))
    <3>1. arm' = [profile |-> job[c].profile, audit |-> job[c].audit,
                  ttl |-> job[c].ttl, left |-> 0]
      BY <1>4, <2>2 DEF LoadProg
    <3>2. QED BY <3>1 DEF Promise
  <2>3. QED BY <2>1, <2>2
<1>5. ASSUME NEW c \in Clients, AllowlistAdd(c) \/ WriteMode(c) \/ WriteTmp(c) \/ Rename(c)
      PROVE  Promise'
  <2>1. UNCHANGED <<attached, arm, timer>>
    BY <1>5 DEF AllowlistAdd, WriteMode, WriteTmp, Rename, ghosts, kernel
  <2>2. pc'[Deadman] = pc[Deadman]
    BY <1>0, <1>5, <1>l, OthersStay DEF AllowlistAdd, WriteMode, WriteTmp, Rename
  <2>3. QED BY <2>1, <2>2, PromiseUntouched
<1>6. ASSUME NEW c \in Clients, ArmStop(c)
      PROVE  Promise'
  <2>1. pc'[Deadman] \in {"idle", pc[Deadman]} /\ UNCHANGED <<attached, arm>>
    BY <1>0, <1>6 DEF ArmStop, Goto, TypeOK, ghosts, kernel
  <2>2. timer' = timer
    BY <1>6 DEF ArmStop
  <2>3. QED BY <2>1, <2>2 DEF Promise, NoTimer
<1>7. ASSUME NEW c \in Clients, SystemdRun(c)
      PROVE  Promise'
  <2>1. CASE Fail(c) /\ UNCHANGED <<timer, arm>>
    <3>1. pc'[Deadman] = pc[Deadman]
      BY <1>0, <2>1, OthersStay
    <3>2. QED BY <1>7, <2>1, <3>1, PromiseUntouched DEF SystemdRun, kernel
  <2>2. CASE ~(Fail(c) /\ UNCHANGED <<timer, arm>>)
    <3>1. /\ UnitFree
          /\ timer' = [set |-> TRUE, left |-> job[c].ttl]
          /\ arm' = IF attached THEN [arm EXCEPT !.ttl = job[c].ttl, !.left = job[c].ttl]
                    ELSE arm
          /\ Finish(c)
          /\ attached' = attached
      BY <1>7, <2>2 DEF SystemdRun, kernel
    <3>2. pc'[Deadman] = "idle"
      BY <1>0, <3>1, OthersStay DEF UnitFree, Idle
    <3>3. CASE attached
      <4>1. arm'.left = job[c].ttl /\ timer'.left = job[c].ttl
        BY <3>1, <3>3 DEF TypeOK, ArmType
      <4>2. QED BY <1>0, <3>1, <3>2, <3>3, <4>1, JobFields DEF Promise
    <3>4. CASE ~attached
      BY <3>1, <3>4 DEF Promise
    <3>5. QED BY <3>3, <3>4
  <2>3. QED BY <2>1, <2>2
<1>8. ASSUME NEW p \in Procs, UnloadRm(p)
      PROVE  Promise'
  <2>1. CASE Fail(p) /\ UNCHANGED <<kernel, arm>>
    <3>1. pc'[Deadman] = pc[Deadman] \/ pc'[Deadman] = "idle"
      BY <1>0, <2>1, OthersStay, BackToIdle
    <3>2. QED BY <1>8, <2>1, <3>1, PromiseUntouched DEF UnloadRm, kernel
  <2>2. CASE Detach
    BY <2>2 DEF Detach, NoArm, Promise
  <2>3. QED BY <1>8, <2>1, <2>2 DEF UnloadRm
<1>9. ASSUME NEW p \in Procs, Disarm(p)
      PROVE  Promise'
  <2>1. pc'[Deadman] \in {"idle", "remove", pc[Deadman]} /\ UNCHANGED <<attached, arm>>
    BY <1>0, <1>9 DEF Disarm, Goto, TypeOK, ghosts, kernel
  <2>2. timer' = timer
    BY <1>9 DEF Disarm
  <2>3. QED BY <2>1, <2>2 DEF Promise, NoTimer
<1>10. ASSUME NEW p \in Procs, RemoveState(p) \/ Kill(p)
       PROVE  Promise'
  <2>1. UNCHANGED <<attached, arm, timer>>
    BY <1>10 DEF RemoveState, Kill, ghosts, kernel
  <2>2. pc'[Deadman] = pc[Deadman] \/ pc'[Deadman] = "idle"
    BY <1>0, <1>10, OthersStay, BackToIdle DEF RemoveState, Kill
  <2>3. QED BY <2>1, <2>2, PromiseUntouched
<1>11. CASE Fire
  <2>1. arm.left = 0
    BY <1>11 DEF Fire, Promise, TypeOK, TimerType, ArmType
  <2>2. QED BY <1>11, <2>1 DEF Fire, Promise, ghosts
<1>12. CASE Reboot
    BY <1>12 DEF Reboot, Detach, NoArm, Promise
<1>13. CASE Logout
    BY <1>0, <1>13 DEF Logout, Promise, TypeOK, NoTimer, ghosts, kernel
<1>14. CASE Tick
  <2>1. /\ timer'.set = timer.set
        /\ timer'.left = IF timer.left > 0 THEN timer.left - 1 ELSE 0
        /\ arm'.left = IF arm.left > 0 THEN arm.left - 1 ELSE 0
    BY <1>14 DEF Tick, Pass, TypeOK, TimerType, ArmType
  <2>2. timer.left \in Nat /\ arm.left \in Nat
    BY DEF TypeOK, TimerType, ArmType
  <2>3. QED BY <1>14, <2>1, <2>2 DEF Tick, Promise, kernel
<1>15. CASE UNCHANGED vars
    BY <1>15 DEF vars, Promise
<1>16. QED
    BY <1>0, <1>1, <1>2, <1>3, <1>4, <1>5, <1>6, <1>7, <1>8, <1>9, <1>10, <1>11, <1>12,
       <1>13, <1>14, <1>15
       DEF Next, Start, ClientStep, UnloadStep

\* The deadman never unloads the program while something is left of what the
\* last acknowledged load or renew promised.  No assumption on faults or on the
\* number of shells.
THEOREM PromiseHolds == Spec => []DeadmanKeepsPromise
<1>1. Init => Promise
    BY DEF Init, Promise, NoArm
<1>2. TypeOK /\ Promise => DeadmanKeepsPromise
    BY DEF TypeOK, ArmType, Promise, DeadmanKeepsPromise
<1>3. QED BY <1>1, <1>2, PromiseStep, TypeCorrect, PTL DEF Spec

-----------------------------------------------------------------------------
(* The moves of the processes *)

\* One shell.
Serial == \E c \in Clients : Clients = {c}

\* Where the processes are after one of them has moved.
LEMMA GotoMoves ==
    ASSUME TypeOK, NEW p \in Procs, NEW label, Goto(p, label)
    PROVE  pc'[p] = label /\ \A q \in Procs : q # p => pc'[q] = pc[q]
BY DEF TypeOK, Goto

\* Where they are, and with which jobs, after one of them has returned.
LEMMA FinishMoves ==
    ASSUME TypeOK, NEW p \in Procs, Finish(p) \/ Fail(p)
    PROVE  /\ pc'[p] = "idle" /\ job'[p] = NoJob
           /\ \A q \in Procs : q # p => pc'[q] = pc[q] /\ job'[q] = job[q]
BY DEF TypeOK, Finish, Fail

-----------------------------------------------------------------------------
(* What a load leaves in the kernel *)

\* Who is filling the maps goes on with the same job, or is gone and the
\* operator has seen an error; and nobody starts on them.
SameLoaders ==
    \A c \in Clients :
        /\ pc'[c] = "populate" => pc[c] = "populate" /\ job'[c] = job[c]
        /\ pc[c] = "populate" => \/ pc'[c] = "populate" /\ job'[c] = job[c]
                                 \/ trouble' = attached'
        /\ pc'[c] = "load_prog" => \/ pc[c] = "load_prog" /\ job'[c] = job[c]
                                   \/ job'[c].i = 1

\* The steps, by what they do to the maps.
MapsStay ==
    /\ UNCHANGED <<attached, mode, allowlist>>
    /\ arm'.profile = arm.profile /\ arm'.audit = arm.audit
    /\ trouble' = trouble \/ trouble' = attached
    /\ SameLoaders

MapsGo == ~attached' /\ SameLoaders

\* One client moves on in its load.
Alone(c) == \A d \in Clients \ {c} : pc'[d] = pc[d] /\ job'[d] = job[d]

MapsCome(c) ==
    /\ pc[c] = "load_prog" /\ pc'[c] = "populate" /\ job' = job /\ Alone(c)
    /\ attached' /\ allowlist' = {} /\ mode' = "enforce"
    /\ arm'.profile = job[c].profile /\ arm'.audit = job[c].audit

PrefixComes(c) ==
    /\ Populating(c) /\ pc' = pc /\ UNCHANGED <<attached, mode, arm, trouble>>
    /\ allowlist' = allowlist \cup {Allow[job[c].profile][job[c].i]}
    /\ job'[c] = [job[c] EXCEPT !.i = @ + 1] /\ Alone(c)

ModeComes(c) ==
    /\ pc[c] = "populate" /\ ~Populating(c) /\ pc'[c] = "write_tmp" /\ job' = job /\ Alone(c)
    /\ UNCHANGED <<attached, allowlist, arm, trouble>>
    /\ \/ attached /\ mode' = RequestedMode(c)
       \/ (~attached \/ May("sudo")) /\ mode' = mode

LEMMA Kinds ==
    ASSUME TypeOK, [Next]_vars
    PROVE  \/ MapsStay \/ MapsGo
           \/ \E c \in Clients : MapsCome(c) \/ PrefixComes(c) \/ ModeComes(c)
<1> DEFINE Goal == \/ MapsStay \/ MapsGo
                   \/ \E c \in Clients : MapsCome(c) \/ PrefixComes(c) \/ ModeComes(c)
<1>0. Deadman \in Procs /\ \A c \in Clients : c \in Procs /\ c # Deadman
  BY DeadmanAssumption DEF Procs
\* A process that is not filling the maps, nor about to, moves.
<1>m. ASSUME NEW p \in Procs, pc[p] # "populate", pc'[p] \notin {"load_prog", "populate"},
             \A q \in Clients \ {p} : pc'[q] = pc[q] /\ job'[q] = job[q]
      PROVE  SameLoaders
  BY <1>m DEF SameLoaders
\* A process fails.
<1>f. ASSUME NEW p \in Procs, Fail(p), attached' = attached
      PROVE  SameLoaders /\ trouble' = attached
  <2>1. pc'[p] = "idle" /\ \A q \in Clients \ {p} : pc'[q] = pc[q] /\ job'[q] = job[q]
    BY <1>0, <1>f, FinishMoves
  <2> QED BY <1>f, <2>1 DEF SameLoaders, Fail
<1>1. ASSUME NEW c \in Clients, NEW profile \in Profiles, NEW audit \in BOOLEAN,
             NEW yes \in BOOLEAN, NEW tty \in BOOLEAN, NEW ttl \in TTLs,
             LoadBegin(c, profile, audit, yes, tty, ttl)
      PROVE  Goal
  <2>1. UNCHANGED <<kernel, arm>>
    BY <1>1 DEF LoadBegin
  <2>2. CASE Fail(c)
    BY <1>0, <1>f, <2>1, <2>2 DEF MapsStay, kernel
  <2>3. CASE UNCHANGED <<pc, job, trouble>>
    BY <2>1, <2>3 DEF MapsStay, SameLoaders, kernel
  <2>4. CASE ~Fail(c) /\ ~UNCHANGED <<pc, job, trouble>>
    <3>1. /\ Goto(c, "load_prog") /\ trouble' = trouble
          /\ job' = [job EXCEPT ![c] = [op |-> "load", profile |-> profile,
                                        audit |-> audit, ttl |-> ttl, i |-> 1]]
      BY <1>1, <2>4 DEF LoadBegin
    <3>2. /\ pc'[c] = "load_prog" /\ job'[c].i = 1
          /\ \A d \in Clients \ {c} : pc'[d] = pc[d] /\ job'[d] = job[d]
      BY <1>0, <3>1, GotoMoves DEF TypeOK
    <3>3. pc[c] = "idle"
      BY <1>1 DEF LoadBegin, Idle
    <3> QED BY <2>1, <3>1, <3>2, <3>3 DEF MapsStay, SameLoaders, kernel
  <2> QED BY <2>2, <2>3, <2>4
<1>2. ASSUME NEW c \in Clients, NEW asked \in RenewTTLs, Renew(c, asked)
      PROVE  Goal
  <2>1. UNCHANGED <<kernel, arm>> /\ pc[c] = "idle"
    BY <1>2 DEF Renew, Idle
  <2>2. CASE Fail(c)
    BY <1>0, <1>f, <2>1, <2>2 DEF MapsStay, kernel
  <2>3. CASE Goto(c, "write_tmp") /\ trouble' = trouble
             /\ job' = [job EXCEPT ![c] = [NoJob EXCEPT !.op = "renew", !.ttl = RenewedTtl(asked)]]
    <3>1. /\ pc'[c] = "write_tmp"
          /\ \A d \in Clients \ {c} : pc'[d] = pc[d] /\ job'[d] = job[d]
      BY <1>0, <2>3, GotoMoves DEF TypeOK
    <3> QED BY <1>0, <1>m, <2>1, <2>3, <3>1 DEF MapsStay, kernel
  <2> QED BY <1>2, <2>2, <2>3 DEF Renew
<1>3. ASSUME NEW p \in Procs, UnloadCheck(p) \/ UnloadRm(p)
      PROVE  Goal
  <2>1. pc[p] \in {"idle", "check", "rm"}
    BY <1>3 DEF UnloadCheck, UnloadRm, Idle
  <2>2. /\ pc'[p] \in {"idle", "rm", "disarm"}
        /\ \A q \in Clients \ {p} : pc'[q] = pc[q] /\ job'[q] = job[q]
    BY <1>0, <1>3, GotoMoves, FinishMoves DEF UnloadCheck, UnloadRm, TypeOK
  <2>3. SameLoaders
    BY <1>m, <2>1, <2>2
  <2>4. CASE ~attached'
    BY <2>3, <2>4 DEF MapsGo
  <2>5. CASE attached'
    <3>1. UNCHANGED <<kernel, arm>> /\ (trouble' = trouble \/ trouble' = attached)
      BY <1>3, <2>5 DEF UnloadCheck, UnloadRm, Detach, Fail, ghosts
    <3> QED BY <2>3, <3>1 DEF MapsStay, kernel
  <2> QED BY <2>4, <2>5
<1>4. ASSUME NEW c \in Clients, LoadProg(c)
      PROVE  Goal
  <2>1. CASE Fail(c) /\ UNCHANGED <<kernel, arm>>
    BY <1>0, <1>f, <2>1 DEF MapsStay, kernel
  <2>2. CASE ~(Fail(c) /\ UNCHANGED <<kernel, arm>>)
    <3>1. /\ attached' = TRUE /\ allowlist' = {} /\ mode' = "enforce" /\ job' = job
          /\ arm' = [profile |-> job[c].profile, audit |-> job[c].audit,
                     ttl |-> job[c].ttl, left |-> 0]
          /\ Goto(c, "populate") /\ pc[c] = "load_prog"
      BY <1>4, <2>2 DEF LoadProg, EmptyMaps
    <3>2. pc'[c] = "populate" /\ \A d \in Clients \ {c} : pc'[d] = pc[d]
      BY <1>0, <3>1, GotoMoves
    <3> QED BY <3>1, <3>2 DEF MapsCome, Alone
  <2> QED BY <2>1, <2>2
<1>5. ASSUME NEW c \in Clients, AllowlistAdd(c)
      PROVE  Goal
  <2>1. CASE Fail(c) /\ UNCHANGED allowlist
    BY <1>0, <1>5, <1>f, <2>1 DEF MapsStay, AllowlistAdd
  <2>2. CASE /\ job' = [job EXCEPT ![c].i = @ + 1] /\ UNCHANGED <<pc, trouble>>
             /\ allowlist' = allowlist \cup {Allow[job[c].profile][job[c].i]}
    <3>1. job'[c] = [job[c] EXCEPT !.i = @ + 1] /\ \A d \in Clients \ {c} : job'[d] = job[d]
      BY <1>0, <2>2 DEF TypeOK
    <3> QED BY <1>5, <2>2, <3>1 DEF AllowlistAdd, PrefixComes, Alone
  <2> QED BY <1>5, <2>1, <2>2 DEF AllowlistAdd
<1>6. ASSUME NEW c \in Clients, WriteMode(c)
      PROVE  Goal
  <2>1. pc'[c] = "write_tmp" /\ \A d \in Clients \ {c} : pc'[d] = pc[d]
    BY <1>0, <1>6, GotoMoves DEF WriteMode
  <2> QED BY <1>6, <2>1 DEF WriteMode, ModeComes, Alone, ghosts
<1>7. ASSUME NEW c \in Clients, WriteTmp(c) \/ Rename(c)
      PROVE  Goal
  <2>1. UNCHANGED <<kernel, arm>> /\ pc[c] # "populate"
    BY <1>7 DEF WriteTmp, Rename
  <2>2. CASE Fail(c)
    BY <1>0, <1>f, <2>1, <2>2 DEF MapsStay, kernel
  <2>3. CASE ~Fail(c)
    <3>1. trouble' = trouble /\ pc'[c] \in {"rename", "stop", "idle"}
          /\ \A d \in Clients \ {c} : pc'[d] = pc[d] /\ job'[d] = job[d]
      BY <1>0, <1>7, <2>3, GotoMoves, FinishMoves DEF WriteTmp, Rename
    <3> QED BY <1>0, <1>m, <2>1, <3>1 DEF MapsStay, kernel
  <2> QED BY <2>2, <2>3
<1>8. ASSUME NEW p \in Procs, ArmStop(p) \/ Disarm(p)
      PROVE  Goal
  <2>1. UNCHANGED <<kernel, ghosts>> /\ pc[p] \in {"stop", "disarm"}
    BY <1>8 DEF ArmStop, Disarm
  <2>2. /\ pc'[p] \in {"run", "remove", "idle"}
        /\ \A d \in Clients \ {p} : pc'[d] = pc[d] /\ job'[d] = job[d]
    BY <1>0, <1>8, GotoMoves DEF ArmStop, Disarm, TypeOK
  <2> QED BY <1>0, <1>m, <2>1, <2>2 DEF MapsStay, kernel, ghosts
<1>9. ASSUME NEW c \in Clients, SystemdRun(c)
      PROVE  Goal
  <2>1. UNCHANGED <<attached, mode, allowlist>> /\ pc[c] = "run"
        /\ arm'.profile = arm.profile /\ arm'.audit = arm.audit
    BY <1>9 DEF SystemdRun, kernel, TypeOK, ArmType
  <2>2. CASE Fail(c)
    BY <1>0, <1>f, <2>1, <2>2 DEF MapsStay
  <2>3. CASE Finish(c) /\ trouble' = trouble
    <3>1. pc'[c] = "idle" /\ \A d \in Clients \ {c} : pc'[d] = pc[d] /\ job'[d] = job[d]
      BY <1>0, <2>3, FinishMoves
    <3>2. SameLoaders
      BY <1>0, <1>m, <2>1, <3>1
    <3> QED BY <2>1, <2>3, <3>2 DEF MapsStay
  <2> QED BY <1>9, <2>2, <2>3 DEF SystemdRun
<1>10. ASSUME NEW p \in Procs, RemoveState(p)
       PROVE  Goal
  <2>1. pc'[p] = "idle" /\ \A d \in Clients \ {p} : pc'[d] = pc[d] /\ job'[d] = job[d]
    BY <1>0, <1>10, FinishMoves DEF RemoveState
  <2>2. SameLoaders
    BY <1>10, <1>m, <2>1 DEF RemoveState
  <2> QED BY <1>10, <2>2 DEF RemoveState, MapsStay, kernel, ghosts
<1>11. ASSUME NEW p \in Procs, Kill(p)
       PROVE  Goal
  BY <1>11, <1>f DEF Kill, MapsStay, kernel
<1>12. CASE Fire \/ Logout
  <2>1. \A c \in Clients : pc'[c] = pc[c] /\ job'[c] = job[c]
    BY <1>0, <1>12 DEF Fire, Logout, Goto, TypeOK
  <2> QED BY <1>12, <2>1 DEF Fire, Logout, MapsStay, SameLoaders, kernel, ghosts
<1>13. CASE Reboot
  <2>1. attached' = FALSE /\ trouble' = FALSE /\ \A c \in Clients : pc'[c] = "idle"
    BY <1>0, <1>13 DEF Reboot, Detach
  <2> QED BY <2>1 DEF MapsGo, SameLoaders
<1>14. CASE Tick \/ UNCHANGED vars
  <2>1. /\ UNCHANGED <<pc, job, attached, mode, allowlist, trouble>>
        /\ arm'.profile = arm.profile /\ arm'.audit = arm.audit
    BY <1>14 DEF Tick, Pass, vars, kernel, TypeOK, ArmType
  <2> QED BY <2>1 DEF MapsStay, SameLoaders
<1> QED
    BY <1>0, <1>1, <1>2, <1>3, <1>4, <1>5, <1>6, <1>7, <1>8, <1>9, <1>10, <1>11, <1>12,
       <1>13, <1>14 DEF Next, Start, ClientStep, UnloadStep

\* A load that is filling the maps of the attached program with its own profile.
Filling(c) ==
    /\ pc[c] = "populate"
    /\ job[c].profile = arm.profile
    /\ \A n \in 1..(job[c].i - 1) : Allow[arm.profile][n] \in allowlist

Populated ==
    /\ \A c \in Clients : pc[c] = "load_prog" => job[c].i = 1
    /\ attached /\ ~trouble =>
           Prefixes(arm.profile) \subseteq allowlist \/ \E c \in Clients : Filling(c)

\* Every step keeps Populated.
LEMMA PopulatedStep == TypeOK /\ Populated /\ [Next]_vars => Populated'
<1> SUFFICES ASSUME TypeOK, Populated, [Next]_vars PROVE Populated'
  OBVIOUS
<1>1. CASE MapsStay
  <2>1. \A c \in Clients : pc'[c] = "load_prog" => job'[c].i = 1
    BY <1>1 DEF MapsStay, SameLoaders, Populated
  <2>2. CASE attached' /\ ~trouble'
    <3>1. trouble' # attached'
      BY <2>2, NextType DEF TypeOK
    <3>2. attached' = attached /\ trouble' = trouble
      BY <1>1, <3>1 DEF MapsStay
    <3>3. \A c \in Clients : Filling(c) => Filling(c)'
      BY <1>1, <3>1 DEF MapsStay, SameLoaders, Filling
    <3> QED BY <1>1, <2>1, <2>2, <3>2, <3>3 DEF MapsStay, Populated
  <2> QED BY <2>1, <2>2 DEF Populated
<1>2. CASE MapsGo
  BY <1>2 DEF MapsGo, SameLoaders, Populated
<1>3. ASSUME NEW c \in Clients, MapsCome(c) PROVE Populated'
  <2>1. job'[c].i - 1 = 0
    BY <1>3 DEF MapsCome, Populated
  <2>2. Filling(c)'
    BY <1>3, <2>1 DEF MapsCome, Filling
  <2> QED BY <1>3, <2>2 DEF MapsCome, Alone, Populated
<1>4. ASSUME NEW c \in Clients, PrefixComes(c) PROVE Populated'
  <2>1. job[c] \in JobType /\ job[c].i \in Nat
    BY DEF TypeOK, Procs, JobType
  <2>2. /\ pc[c] = "populate" /\ job'[c].i = job[c].i + 1
        /\ job'[c].profile = job[c].profile
    BY <1>4, <2>1 DEF PrefixComes, Populating, JobType
  <2>3. ASSUME NEW d \in Clients, Filling(d) PROVE Filling(d)'
    <3>1. CASE d = c
      <4>1. job'[c].i - 1 = job[c].i
        BY <2>1, <2>2
      <4>2. \A n \in 1..job[c].i : n \in 1..(job[c].i - 1) \/ n = job[c].i
        BY <2>1
      <4> QED BY <1>4, <2>2, <2>3, <3>1, <4>1, <4>2 DEF PrefixComes, Filling
    <3>2. CASE d # c
      BY <1>4, <2>3, <3>2 DEF PrefixComes, Alone, Filling
    <3> QED BY <3>1, <3>2
  <2>4. \A d \in Clients : pc'[d] = "load_prog" => job'[d].i = 1
    BY <1>4, <2>2 DEF PrefixComes, Alone, Populated
  <2> QED BY <1>4, <2>3, <2>4 DEF PrefixComes, Populated
<1>5. ASSUME NEW c \in Clients, ModeComes(c) PROVE Populated'
  <2>1. \A d \in Clients : pc'[d] = "load_prog" => job'[d].i = 1
    BY <1>5 DEF ModeComes, Alone, Populated
  <2>2. ASSUME Filling(c) PROVE Prefixes(arm.profile) \subseteq allowlist
    <3>1. job[c].i \in Nat /\ job[c].profile \in Profiles
      BY <1>5 DEF ModeComes, TypeOK, ArgumentsOK, JobType, Procs
    <3>2. Len(Allow[arm.profile]) \in Nat
      BY <2>2, <3>1, ProfilesAssumption DEF Filling
    <3>3. Len(Allow[arm.profile]) < job[c].i
      BY <1>5, <2>2, <3>1, <3>2 DEF ModeComes, Populating, Filling
    <3>4. 1..Len(Allow[arm.profile]) \subseteq 1..(job[c].i - 1)
      BY <3>1, <3>2, <3>3
    <3> QED BY <2>2, <3>4 DEF Filling, Prefixes
  <2>3. \A d \in Clients \ {c} : Filling(d) => Filling(d)'
    BY <1>5 DEF ModeComes, Alone, Filling
  <2> QED BY <1>5, <2>1, <2>2, <2>3 DEF ModeComes, Populated
<1> QED BY <1>1, <1>2, <1>3, <1>4, <1>5, Kinds

\* cmd_load: for any number of shells and with any faults, a program that is
\* attached with no command under way has the whole profile of its load in its
\* map, unless a command has reported an error since it was attached.
THEOREM PopulatedHolds == Spec => []LoadedMeansPopulated
<1>1. Init => Populated
  BY DEF Init, Populated, Procs
<1>2. Populated => LoadedMeansPopulated
  BY DEF Populated, Filling, LoadedMeansPopulated, AtRest, Idle
<1> QED BY <1>1, <1>2, PopulatedStep, TypeCorrect, PTL DEF Spec

\* The mode is still to be written, by the load of the attached program.
Audited ==
    /\ attached => \A c \in Clients : pc[c] = "populate" => job[c].audit = arm.audit
    /\ attached /\ ~trouble /\ arm.audit =>
           mode = "audit" \/ \E c \in Clients : pc[c] = "populate"

\* With one shell, and if sudo does not fail, every step keeps Audited.
LEMMA AuditedStep ==
    ASSUME Serial, ~May("sudo"), TypeOK, Audited, [Next]_vars
    PROVE  Audited'
<1>1. PICK c \in Clients : Clients = {c}
  BY DEF Serial
<1>2. CASE MapsStay
  BY <1>1, <1>2 DEF MapsStay, SameLoaders, Audited
<1>3. CASE MapsGo
  BY <1>3 DEF MapsGo, Audited
<1>4. CASE MapsCome(c)
  BY <1>1, <1>4 DEF MapsCome, Audited
<1>5. CASE PrefixComes(c)
  <2>1. job'[c].audit = job[c].audit
    BY <1>5 DEF PrefixComes, TypeOK, Procs, JobType
  <2> QED BY <1>1, <1>5, <2>1 DEF PrefixComes, Audited
<1>6. CASE ModeComes(c)
  BY <1>1, <1>6 DEF ModeComes, RequestedMode, Audited
<1> QED BY <1>1, <1>2, <1>3, <1>4, <1>5, <1>6, Kinds

\* cmd_load --audit: for an operator in one shell whose sudo works, an enforcer
\* loaded with --audit audits once the commands have returned without an error.
THEOREM AuditKept ==
    ASSUME Serial, ~May("sudo") PROVE Spec => []AuditNeverBlocks
<1>1. Init => Audited
  BY DEF Init, Audited
<1>2. TypeOK /\ Audited /\ [Next]_vars => Audited'
  BY AuditedStep
<1>3. Audited => AuditNeverBlocks
  BY DEF Audited, AuditNeverBlocks, AtRest, Idle
<1> QED BY <1>1, <1>2, <1>3, TypeCorrect, PTL DEF Spec

-----------------------------------------------------------------------------
(* Who is stranded has seen an error *)

\* A shell that unloads has no other shell beside it.
NoRival == "unload" \in Ops => Serial

\* sudo answers, and the session of the operator lasts.
SudoAnswers == ~May("sudo") /\ ~May("logout")

\* A command that will replace the timer.
Arming(c) ==
    pc[c] \in {"populate", "write_tmp", "rename", "stop", "run"} /\ job[c].ttl > 0

StrandInv ==
    /\ timer.set => Idle(Deadman)
    /\ \A c \in Clients : /\ pc[c] \in {"rm", "disarm", "remove"} => Serial
                          /\ pc[c] = "disarm" => ~attached
    /\ attached /\ arm.ttl # 0 /\ ~trouble =>
           DeadmanComing \/ \E c \in Clients : Arming(c)

LEMMA StrandStep ==
    ASSUME NoRival, SudoAnswers, TypeOK, StrandInv, [Next]_vars
    PROVE  StrandInv'
<1>0. Deadman \in Procs /\ \A c \in Clients : c \in Procs /\ c # Deadman
  BY DeadmanAssumption DEF Procs
<1>a. ~May("sudo") /\ ~May("logout")
  BY DEF SudoAnswers
<1>t. NoTimer.set = FALSE
  BY DEF NoTimer
<1>b. attached \in BOOLEAN /\ trouble \in BOOLEAN /\ timer.set \in BOOLEAN
  BY DEF TypeOK, TimerType
\* A process fails, and says so.
<1>f. ASSUME NEW p \in Procs, Fail(p), UNCHANGED <<attached, timer>>
      PROVE  StrandInv'
  <2>1. pc'[p] = "idle" /\ \A q \in Procs \ {p} : pc'[q] = pc[q]
    BY <1>f, FinishMoves
  <2>2. trouble' = attached'
    BY <1>f DEF Fail
  <2> QED BY <1>0, <1>b, <1>f, <2>1, <2>2 DEF StrandInv, Idle
\* A shell goes on, and the arm with it.
<1>c. ASSUME NEW c \in Clients, UNCHANGED <<attached, timer, arm, trouble>>,
             \A q \in Procs \ {c} : pc'[q] = pc[q] /\ job'[q] = job[q],
             Arming(c) => Arming(c)',
             pc'[c] \in {"rm", "disarm", "remove"} => Serial, pc'[c] # "disarm"
      PROVE  StrandInv'
  <2>1. \A d \in Clients : Arming(d) => Arming(d)'
    BY <1>0, <1>c DEF Arming
  <2>2. pc'[Deadman] = pc[Deadman]
    BY <1>0, <1>c
  <2>3. DeadmanComing => DeadmanComing'
    BY <1>c, <2>2 DEF DeadmanComing
  <2>4. \A d \in Clients : /\ pc'[d] \in {"rm", "disarm", "remove"} => Serial
                           /\ pc'[d] = "disarm" => ~attached'
    BY <1>0, <1>c DEF StrandInv
  <2> QED BY <1>c, <2>1, <2>2, <2>3, <2>4 DEF StrandInv, Idle
<1>1. ASSUME NEW c \in Clients, NEW profile \in Profiles, NEW audit \in BOOLEAN,
             NEW yes \in BOOLEAN, NEW tty \in BOOLEAN, NEW ttl \in TTLs,
             LoadBegin(c, profile, audit, yes, tty, ttl)
      PROVE  StrandInv'
  <2>1. UNCHANGED <<attached, timer, arm>> /\ pc[c] = "idle"
    BY <1>1 DEF LoadBegin, kernel, Idle
  <2>2. CASE Fail(c)
    BY <1>0, <1>f, <2>1, <2>2
  <2>3. CASE UNCHANGED <<pc, job, trouble>>
    BY <2>1, <2>3 DEF StrandInv, Idle, Arming, DeadmanComing
  <2>4. CASE ~Fail(c) /\ ~UNCHANGED <<pc, job, trouble>>
    <3>1. /\ Goto(c, "load_prog") /\ trouble' = trouble
          /\ job' = [job EXCEPT ![c] = [op |-> "load", profile |-> profile,
                                        audit |-> audit, ttl |-> ttl, i |-> 1]]
      BY <1>1, <2>4 DEF LoadBegin
    <3>2. pc'[c] = "load_prog" /\ \A q \in Procs \ {c} : pc'[q] = pc[q] /\ job'[q] = job[q]
      BY <1>0, <3>1, GotoMoves DEF TypeOK
    <3> QED BY <1>c, <2>1, <3>1, <3>2 DEF Arming
  <2> QED BY <2>2, <2>3, <2>4
<1>2. ASSUME NEW c \in Clients, NEW asked \in RenewTTLs, Renew(c, asked)
      PROVE  StrandInv'
  <2>1. UNCHANGED <<attached, timer, arm>> /\ pc[c] = "idle"
    BY <1>2 DEF Renew, kernel, Idle
  <2>2. CASE Fail(c)
    BY <1>0, <1>f, <2>1, <2>2
  <2>3. CASE Goto(c, "write_tmp") /\ trouble' = trouble
             /\ job' = [job EXCEPT ![c] = [NoJob EXCEPT !.op = "renew", !.ttl = RenewedTtl(asked)]]
    <3>1. pc'[c] = "write_tmp" /\ \A q \in Procs \ {c} : pc'[q] = pc[q] /\ job'[q] = job[q]
      BY <1>0, <2>3, GotoMoves DEF TypeOK
    <3> QED BY <1>c, <2>1, <2>3, <3>1 DEF Arming
  <2> QED BY <1>2, <2>2, <2>3 DEF Renew
<1>3. ASSUME NEW p \in Procs, UnloadCheck(p)
      PROVE  StrandInv'
  <2>1. UNCHANGED <<attached, timer, arm, trouble>> /\ pc'[p] \in {"idle", "rm"}
        /\ \A q \in Procs \ {p} : pc'[q] = pc[q] /\ job'[q] = job[q]
    BY <1>0, <1>3, GotoMoves, FinishMoves DEF UnloadCheck, kernel, ghosts, TypeOK
  <2>2. CASE p = Deadman
    <3>1. pc[p] = "check" /\ ~timer.set
      BY <1>3, <2>2 DEF UnloadCheck, StrandInv, Idle
    <3>2. pc'[p] = "idle" => ~attached
      BY <1>0, <1>3, <1>a, GotoMoves DEF UnloadCheck, SaysLoaded
    <3>3. \A d \in Clients : pc'[d] = pc[d]
      BY <1>0, <2>1, <2>2
    <3> QED BY <2>1, <2>2, <3>1, <3>2, <3>3 DEF StrandInv, DeadmanComing
  <2>3. CASE p # Deadman
    <3>1. p \in Clients /\ pc[p] = "idle" /\ Serial
      BY <1>3, <2>3 DEF UnloadCheck, Procs, Idle, NoRival
    <3> QED BY <1>c, <2>1, <3>1 DEF Arming
  <2> QED BY <2>2, <2>3
<1>4. ASSUME NEW c \in Clients, LoadProg(c)
      PROVE  StrandInv'
  <2>1. CASE Fail(c) /\ UNCHANGED <<kernel, arm>>
    BY <1>0, <1>4, <1>f, <2>1 DEF LoadProg, kernel
  <2>2. CASE ~(Fail(c) /\ UNCHANGED <<kernel, arm>>)
    <3>1. /\ timer' = timer /\ job' = job /\ Goto(c, "populate") /\ pc[c] = "load_prog"
          /\ arm' = [profile |-> job[c].profile, audit |-> job[c].audit,
                     ttl |-> job[c].ttl, left |-> 0]
      BY <1>4, <2>2 DEF LoadProg
    <3>2. pc'[c] = "populate" /\ \A q \in Procs \ {c} : pc'[q] = pc[q]
      BY <1>0, <3>1, GotoMoves
    <3>3. arm'.ttl # 0 => Arming(c)'
      BY <1>0, <3>1, <3>2, JobFields DEF Arming
    <3>4. \A d \in Clients : /\ pc'[d] \in {"rm", "disarm", "remove"} => Serial
                             /\ pc'[d] # "disarm"
      BY <1>0, <3>1, <3>2 DEF StrandInv, Serial
    <3>5. timer'.set => Idle(Deadman)'
      BY <1>0, <3>1, <3>2 DEF StrandInv, Idle
    <3> QED BY <3>3, <3>4, <3>5 DEF StrandInv
  <2> QED BY <2>1, <2>2
<1>5. ASSUME NEW c \in Clients, AllowlistAdd(c)
      PROVE  StrandInv'
  <2>1. CASE Fail(c)
    BY <1>0, <1>5, <1>f, <2>1 DEF AllowlistAdd
  <2>2. CASE job' = [job EXCEPT ![c].i = @ + 1] /\ UNCHANGED <<pc, trouble>>
    <3>1. job'[c].ttl = job[c].ttl /\ \A q \in Procs \ {c} : job'[q] = job[q]
      BY <1>0, <2>2 DEF TypeOK, JobType
    <3> QED BY <1>5, <1>c, <2>2, <3>1 DEF AllowlistAdd, Populating, Arming
  <2> QED BY <1>5, <2>1, <2>2 DEF AllowlistAdd
<1>6. ASSUME NEW c \in Clients, WriteMode(c)
      PROVE  StrandInv'
  <2>1. pc'[c] = "write_tmp" /\ \A q \in Procs \ {c} : pc'[q] = pc[q]
    BY <1>0, <1>6, GotoMoves DEF WriteMode
  <2> QED BY <1>6, <1>c, <2>1 DEF WriteMode, ghosts, Arming
<1>7. ASSUME NEW c \in Clients, WriteTmp(c) \/ Rename(c)
      PROVE  StrandInv'
  <2>1. UNCHANGED <<attached, timer, arm>>
    BY <1>7 DEF WriteTmp, Rename, kernel
  <2>2. CASE Fail(c)
    BY <1>0, <1>f, <2>1, <2>2
  <2>3. CASE ~Fail(c)
    <3>1. /\ trouble' = trouble
          /\ \/ pc'[c] \in {"rename", "stop"} /\ job' = job
             \/ pc'[c] = "idle" /\ ~NeedsWatchdog(c)
          /\ \A q \in Procs \ {c} : pc'[q] = pc[q] /\ job'[q] = job[q]
      BY <1>0, <1>7, <2>3, GotoMoves, FinishMoves DEF WriteTmp, Rename
    <3>2. pc[c] \in {"write_tmp", "rename"}
      BY <1>7 DEF WriteTmp, Rename
    <3>3. Arming(c) => Arming(c)'
      BY <3>1, <3>2 DEF Arming, NeedsWatchdog
    <3> QED BY <1>c, <2>1, <3>1, <3>3
  <2> QED BY <2>2, <2>3
<1>8. ASSUME NEW c \in Clients, ArmStop(c)
      PROVE  StrandInv'
  <2>1. /\ UNCHANGED <<attached, arm, trouble>> /\ pc[c] = "stop" /\ pc'[c] = "run"
        /\ job'[c] = job[c] /\ pc'[Deadman] \in {"idle", pc[Deadman]}
        /\ timer' \in {timer, NoTimer}
        /\ \A d \in Clients \ {c} : pc'[d] = pc[d]
    BY <1>0, <1>8, GotoMoves DEF ArmStop, kernel, ghosts, TypeOK
  <2>2. Arming(c)'
    BY <2>1 DEF Arming, TypeOK, ArgumentsOK
  <2>3. \A d \in Clients : /\ pc'[d] \in {"rm", "disarm", "remove"} => Serial
                           /\ pc'[d] = "disarm" => ~attached'
    BY <2>1 DEF StrandInv
  <2> QED BY <1>t, <2>1, <2>2, <2>3 DEF StrandInv, Idle
<1>9. ASSUME NEW c \in Clients, SystemdRun(c)
      PROVE  StrandInv'
  <2>1. CASE Fail(c) /\ UNCHANGED <<timer, arm>>
    BY <1>0, <1>9, <1>f, <2>1 DEF SystemdRun, kernel
  <2>2. CASE ~(Fail(c) /\ UNCHANGED <<timer, arm>>)
    <3>1. UnitFree /\ timer'.set = TRUE /\ attached' = attached /\ Finish(c)
      BY <1>9, <2>2 DEF SystemdRun, kernel
    <3>2. pc'[c] = "idle" /\ \A q \in Procs \ {c} : pc'[q] = pc[q]
      BY <1>0, <3>1, FinishMoves
    <3>3. pc'[Deadman] = "idle"
      BY <1>0, <3>1, <3>2 DEF UnitFree, Idle
    <3>4. \A d \in Clients : /\ pc'[d] \in {"rm", "disarm", "remove"} => Serial
                             /\ pc'[d] = "disarm" => ~attached'
      BY <1>0, <3>1, <3>2 DEF StrandInv
    <3> QED BY <3>1, <3>3, <3>4 DEF StrandInv, Idle, DeadmanComing
  <2> QED BY <2>1, <2>2
<1>10. ASSUME NEW p \in Procs, UnloadRm(p)
       PROVE  StrandInv'
  <2>1. Detach /\ Goto(p, "disarm") /\ timer' = timer /\ pc[p] = "rm"
    BY <1>10, <1>a DEF UnloadRm
  <2>2. pc'[p] = "disarm" /\ \A q \in Procs \ {p} : pc'[q] = pc[q]
    BY <2>1, GotoMoves
  <2>3. ~attached'
    BY <2>1 DEF Detach
  <2>4. timer'.set => Idle(Deadman)'
    BY <1>0, <2>1, <2>2 DEF StrandInv, Idle
  <2>5. \A d \in Clients : pc'[d] \in {"rm", "disarm", "remove"} => Serial
    BY <1>0, <2>1, <2>2 DEF StrandInv
  <2> QED BY <2>3, <2>4, <2>5 DEF StrandInv
<1>11. ASSUME NEW p \in Procs, Disarm(p)
       PROVE  StrandInv'
  <2>1. /\ UNCHANGED <<attached, arm, trouble>> /\ pc[p] = "disarm"
        /\ pc'[Deadman] \in {"idle", "remove", pc[Deadman]}
        /\ pc'[Deadman] # pc[Deadman] => pc'[Deadman] = "idle" \/ p = Deadman
        /\ timer' \in {timer, NoTimer}
        /\ p \in Clients => pc'[p] = "remove"
        /\ \A d \in Clients \ {p} : pc'[d] = pc[d] /\ job'[d] = job[d]
    BY <1>0, <1>11, GotoMoves DEF Disarm, kernel, ghosts, TypeOK
  <2>2. \A d \in Clients : /\ pc'[d] \in {"rm", "disarm", "remove"} => Serial
                           /\ pc'[d] = "disarm" => ~attached'
    BY <2>1 DEF StrandInv
  <2>3. timer'.set => Idle(Deadman)'
    BY <1>t, <2>1 DEF StrandInv, Idle
  <2>4. CASE p = Deadman
    <3>1. ~DeadmanComing
      BY <2>1, <2>4 DEF StrandInv, DeadmanComing, Idle
    <3>2. \A d \in Clients : Arming(d) => Arming(d)'
      BY <1>0, <2>1, <2>4 DEF Arming
    <3> QED BY <2>1, <2>2, <2>3, <3>1, <3>2 DEF StrandInv
  <2>5. CASE p # Deadman
    <3>1. ~attached'
      BY <2>1, <2>5 DEF StrandInv, Procs
    <3> QED BY <2>2, <2>3, <3>1 DEF StrandInv
  <2> QED BY <2>4, <2>5
<1>12. ASSUME NEW p \in Procs, RemoveState(p)
       PROVE  StrandInv'
  <2>1. /\ UNCHANGED <<attached, timer, arm, trouble>> /\ pc[p] = "remove" /\ pc'[p] = "idle"
        /\ \A q \in Procs \ {p} : pc'[q] = pc[q] /\ job'[q] = job[q]
    BY <1>12, FinishMoves DEF RemoveState, kernel, ghosts
  <2>2. CASE p = Deadman
    <3>1. ~DeadmanComing
      BY <2>1, <2>2 DEF StrandInv, DeadmanComing, Idle
    <3>2. \A d \in Clients : Arming(d) => Arming(d)'
      BY <1>0, <2>1, <2>2 DEF Arming
    <3> QED BY <1>0, <2>1, <2>2, <3>1, <3>2 DEF StrandInv, Idle
  <2>3. CASE p # Deadman
    BY <1>c, <2>1, <2>3 DEF Arming, Procs
  <2> QED BY <2>2, <2>3
<1>13. ASSUME NEW p \in Procs, Kill(p)
       PROVE  StrandInv'
  BY <1>13, <1>f DEF Kill, kernel
<1>14. CASE Fire
  <2>1. /\ UNCHANGED <<attached, arm, trouble>> /\ pc'[Deadman] = "check" /\ ~timer'.set
        /\ \A c \in Clients : pc'[c] = pc[c]
    BY <1>0, <1>14, <1>t, GotoMoves DEF Fire, kernel, ghosts
  <2> QED BY <2>1 DEF StrandInv, DeadmanComing
<1>15. CASE Reboot
  <2>1. ~attached' /\ ~timer'.set /\ \A c \in Clients : pc'[c] = "idle"
    BY <1>0, <1>15, <1>t DEF Reboot, Detach
  <2> QED BY <2>1 DEF StrandInv
<1>16. CASE Tick \/ UNCHANGED vars
  <2>1. /\ UNCHANGED <<pc, job, attached, trouble>>
        /\ arm'.ttl = arm.ttl /\ timer'.set = timer.set
    BY <1>16 DEF Tick, Pass, vars, kernel, TypeOK, ArmType, TimerType
  <2> QED BY <2>1 DEF StrandInv, Idle, DeadmanComing, Arming
<1> QED
    BY <1>0, <1>a, <1>1, <1>2, <1>3, <1>4, <1>5, <1>6, <1>7, <1>8, <1>9, <1>10, <1>11, <1>12,
       <1>13, <1>14, <1>15, <1>16 DEF Next, Start, ClientStep, UnloadStep, Logout

\* arm_to and cmd_unload: if sudo answers and the session lasts, an arm with a
\* TTL that nothing will take down was preceded by an error, for any number of
\* shells that load and renew, and for one that also unloads, whatever fails
\* or is killed.
THEOREM StrandedWasTold ==
    ASSUME NoRival, SudoAnswers PROVE Spec => []StrandIsReported
<1>1. Init => StrandInv
  BY DEF Init, StrandInv, NoTimer, Procs
<1>2. TypeOK /\ StrandInv /\ [Next]_vars => StrandInv'
  BY StrandStep
<1>3. StrandInv => StrandIsReported
  BY DEF StrandInv, Arming, StrandIsReported, AtRest, Idle
<1> QED BY <1>1, <1>2, <1>3, TypeCorrect, PTL DEF Spec
-----------------------------------------------------------------------------
(* A permanent arm stays *)

\* No load attaches a permanent arm while a deadman is still on its way: it may
\* be, for a program that is gone.  See Finding_permanent_unloaded.
PermanentWaits == ~attached /\ attached' /\ arm'.ttl = 0 => ~DeadmanComing

\* Nobody is after a permanent arm.
Spared == attached /\ arm.ttl = 0 => ~DeadmanComing

\* A step that brings no deadman, and makes no arm permanent.
LEMMA SparedUntouched ==
    ASSUME Spared, DeadmanComing' => DeadmanComing,
           attached' /\ arm'.ttl = 0 => attached /\ arm.ttl = 0
    PROVE  Spared'
BY DEF Spared

\* A step of a shell that starts no timer.
LEMMA SparedByShell ==
    ASSUME Spared, UNCHANGED <<timer, attached, arm>>,
           pc'[Deadman] \in {pc[Deadman], "idle", "remove"}
    PROVE  Spared'
<1>1. DeadmanComing' => DeadmanComing
  BY DEF DeadmanComing
<1> QED BY <1>1, SparedUntouched

LEMMA SparedStep ==
    ASSUME TypeOK, Spared, [Next]_vars, [PermanentWaits]_vars
    PROVE  Spared'
<1>0. Deadman \in Procs /\ \A c \in Clients : c \in Procs /\ c # Deadman
  BY DeadmanAssumption DEF Procs
<1>1. ASSUME NEW c \in Clients, NEW profile \in Profiles, NEW audit \in BOOLEAN,
             NEW yes \in BOOLEAN, NEW tty \in BOOLEAN, NEW ttl \in TTLs,
             LoadBegin(c, profile, audit, yes, tty, ttl)
      PROVE  Spared'
  <2>1. UNCHANGED <<attached, timer, arm>> /\ pc'[Deadman] = pc[Deadman]
    BY <1>0, <1>1, GotoMoves, FinishMoves DEF LoadBegin, kernel
  <2> QED BY <2>1, SparedByShell
<1>2. ASSUME NEW c \in Clients, NEW asked \in RenewTTLs, Renew(c, asked)
      PROVE  Spared'
  <2>1. UNCHANGED <<attached, timer, arm>> /\ pc'[Deadman] = pc[Deadman]
    BY <1>0, <1>2, GotoMoves, FinishMoves DEF Renew, kernel
  <2> QED BY <2>1, SparedByShell
<1>3. ASSUME NEW p \in Procs, UnloadCheck(p)
      PROVE  Spared'
  <2>1. UNCHANGED <<attached, timer, arm>>
    BY <1>3 DEF UnloadCheck, kernel, ghosts
  <2>2. pc'[Deadman] = pc[Deadman] \/ (pc[Deadman] = "check" /\ pc'[Deadman] \in {"idle", "rm"})
    BY <1>0, <1>3, GotoMoves, FinishMoves DEF UnloadCheck
  <2>3. DeadmanComing' => DeadmanComing
    BY <2>1, <2>2 DEF DeadmanComing
  <2> QED BY <2>1, <2>3, SparedUntouched
<1>4. ASSUME NEW c \in Clients, LoadProg(c)
      PROVE  Spared'
  <2>1. UNCHANGED timer /\ pc'[Deadman] = pc[Deadman]
    BY <1>0, <1>4, GotoMoves, FinishMoves DEF LoadProg
  <2>2. CASE UNCHANGED <<kernel, arm>>
    BY <2>1, <2>2, SparedByShell DEF kernel
  <2>3. CASE ~attached /\ attached'
    <3>1. arm'.ttl = 0 => ~DeadmanComing
      BY <2>3 DEF PermanentWaits, vars
    <3> QED BY <2>1, <3>1 DEF Spared, DeadmanComing
  <2> QED BY <1>4, <2>2, <2>3 DEF LoadProg
<1>5. ASSUME NEW c \in Clients,
             AllowlistAdd(c) \/ WriteMode(c) \/ WriteTmp(c) \/ Rename(c) \/ ArmStop(c)
      PROVE  Spared'
  <2>1. UNCHANGED <<attached, timer, arm>>
    BY <1>5 DEF AllowlistAdd, WriteMode, WriteTmp, Rename, ArmStop, kernel, ghosts
  <2>2. pc'[Deadman] \in {pc[Deadman], "idle"}
    BY <1>0, <1>5, GotoMoves, FinishMoves
       DEF AllowlistAdd, WriteMode, WriteTmp, Rename, ArmStop, TypeOK
  <2> QED BY <2>1, <2>2, SparedByShell
<1>6. ASSUME NEW c \in Clients, SystemdRun(c)
      PROVE  Spared'
  <2>1. CASE Fail(c) /\ UNCHANGED <<timer, arm>>
    <3>1. pc'[Deadman] = pc[Deadman] /\ attached' = attached
      BY <1>0, <1>6, <2>1, FinishMoves DEF SystemdRun, kernel
    <3> QED BY <2>1, <3>1, SparedByShell
  <2>2. CASE /\ attached' = attached
             /\ arm' = IF attached THEN [arm EXCEPT !.ttl = job[c].ttl, !.left = job[c].ttl]
                                   ELSE arm
    <3>1. attached => arm'.ttl = job[c].ttl
      BY <2>2 DEF TypeOK, ArmType
    <3>2. job[c].ttl \in Nat /\ job[c].ttl > 0
      BY <1>0, <1>6, JobFields DEF SystemdRun, TypeOK, ArgumentsOK
    <3> QED BY <2>2, <3>1, <3>2 DEF Spared
  <2> QED BY <1>6, <2>1, <2>2 DEF SystemdRun, kernel
<1>7. ASSUME NEW p \in Procs, UnloadRm(p)
      PROVE  Spared'
  <2>1. CASE Detach
    BY <2>1 DEF Detach, Spared
  <2>2. CASE Fail(p) /\ UNCHANGED <<kernel, arm>>
    <3>1. pc'[Deadman] \in {pc[Deadman], "idle"}
      BY <1>0, <2>2, FinishMoves
    <3> QED BY <1>7, <2>2, <3>1, SparedByShell DEF UnloadRm, kernel
  <2> QED BY <1>7, <2>1, <2>2 DEF UnloadRm
<1>8. ASSUME NEW p \in Procs, Disarm(p) \/ RemoveState(p) \/ Kill(p)
      PROVE  Spared'
  <2>1. UNCHANGED <<attached, timer, arm>>
    BY <1>8 DEF Disarm, RemoveState, Kill, kernel, ghosts
  <2>2. pc'[Deadman] \in {pc[Deadman], "idle", "remove"}
    BY <1>0, <1>8, GotoMoves, FinishMoves DEF Disarm, RemoveState, Kill, TypeOK
  <2> QED BY <2>1, <2>2, SparedByShell
<1>9. CASE Fire
  <2>1. DeadmanComing /\ UNCHANGED <<attached, arm>>
    BY <1>9 DEF Fire, DeadmanComing, kernel, ghosts
  <2> QED BY <2>1, SparedUntouched
<1>10. CASE Reboot
  BY <1>10 DEF Reboot, Detach, Spared
<1>11. CASE Logout
  <2>1. ~DeadmanComing'
    BY <1>0, <1>11 DEF Logout, DeadmanComing, NoTimer, TypeOK
  <2> QED BY <2>1 DEF Spared
<1>12. CASE Tick
  <2>1. UNCHANGED <<pc, attached>> /\ timer'.set = timer.set /\ arm'.ttl = arm.ttl
    BY <1>12 DEF Tick, Pass, kernel, TypeOK, TimerType, ArmType
  <2> QED BY <2>1, SparedUntouched DEF DeadmanComing
<1>13. CASE UNCHANGED vars
  BY <1>13 DEF vars, Spared, DeadmanComing
<1> QED
  BY <1>0, <1>1, <1>2, <1>3, <1>4, <1>5, <1>6, <1>7, <1>8, <1>9, <1>10, <1>11, <1>12,
     <1>13 DEF Next, Start, ClientStep, UnloadStep

\* arm_to, of a permanent arm (--ttl 0): the deadman never detaches one, for any
\* number of shells and with any faults, unless the deadman of a program that
\* is gone was still on its way when the load attached.
THEOREM PermanentHolds == Spec /\ [][PermanentWaits]_vars => PermanentStays
<1>1. Init => Spared
  BY DEF Init, Spared
<1>2. TypeOK /\ Spared /\ [Next]_vars /\ [PermanentWaits]_vars => Spared'
  BY SparedStep
<1>3. Spared =>
        [attached /\ ~attached' /\ arm.ttl = 0 /\ AtRest => pc[Deadman] # "rm"]_vars
  BY DEF Spared, DeadmanComing
<1> QED BY <1>1, <1>2, <1>3, TypeCorrect, PTL DEF Spec, PermanentStays

=============================================================================
