---------------------- MODULE ControlPlaneSerialProofs ----------------------
(***************************************************************************)
(* Theorems about an operator who works in one shell: what is in the       *)
(* allow-list, who guards an arm, that the commands implement Lease, and   *)
(* that the seconds of a status are kept.  The deadman still interleaves   *)
(* with every command.                                                     *)
(***************************************************************************)
EXTENDS StatusTtl, ControlPlaneProofs, FiniteSetTheorems

\* Nothing fails but the machine as a whole.
Calm == Faults \subseteq {"reboot"}

\* Every profile that a load accepts fits the allow-list map.
Roomy == \A f \in Profiles \ Rejected :
             /\ Prefixes(f) \cap TooLong = {}
             /\ Cardinality(Prefixes(f)) <= AllowCap

\* The only shell, and the processes there are.
LEMMA OneShell ==
    ASSUME Serial, NEW c \in Clients
    PROVE  Clients = {c} /\ c # Deadman /\ c \in Procs /\ Deadman \in Procs
BY DeadmanAssumption DEF Serial, Procs

-----------------------------------------------------------------------------
(* The allow-list of one profile *)

\* While a load fills the allow-list of an attached program, that program is
\* its own.
OneProfile ==
    attached => /\ allowlist \subseteq Prefixes(arm.profile)
                /\ \A c \in Clients : pc[c] = "populate" => job[c].profile = arm.profile

\* A step that leaves the kernel alone and starts no load keeps OneProfile.
LEMMA OneProfileUntouched ==
    ASSUME OneProfile, UNCHANGED <<attached, allowlist>>, arm'.profile = arm.profile,
           \A c \in Clients : pc'[c] = "populate" =>
               pc[c] = "populate" /\ job'[c].profile = job[c].profile
    PROVE  OneProfile'
BY DEF OneProfile

\* Every action keeps OneProfile.
LEMMA OneProfileStep ==
    ASSUME Serial, TypeOK, OneProfile, [Next]_vars
    PROVE  OneProfile'
<1>0. PICK c \in Clients : Clients = {c}
    BY DEF Serial
<1>1. c # Deadman /\ c \in Procs /\ Deadman \in Procs /\ Procs = {c, Deadman}
    BY <1>0, DeadmanAssumption DEF Procs
<1>2. ASSUME NEW profile \in Profiles, NEW audit \in BOOLEAN,
             NEW yes \in BOOLEAN, NEW tty \in BOOLEAN, NEW ttl \in TTLs,
             LoadBegin(c, profile, audit, yes, tty, ttl)
      PROVE  OneProfile'
  <2>1. UNCHANGED <<attached, allowlist, arm>>
    BY <1>2 DEF LoadBegin, kernel
  <2>2. pc'[c] = "populate" => pc[c] = "populate" /\ job'[c].profile = job[c].profile
    BY <1>1, <1>2, GotoMoves, FinishMoves DEF LoadBegin
  <2>3. QED BY <1>0, <2>1, <2>2, OneProfileUntouched
<1>3. ASSUME NEW asked \in RenewTTLs, Renew(c, asked)
      PROVE  OneProfile'
  <2>1. UNCHANGED <<attached, allowlist, arm>>
    BY <1>3 DEF Renew, kernel
  <2>2. pc'[c] # "populate"
    BY <1>1, <1>3, GotoMoves, FinishMoves DEF Renew
  <2>3. QED BY <1>0, <2>1, <2>2, OneProfileUntouched
<1>4. ASSUME NEW p \in Procs, UnloadCheck(p)
      PROVE  OneProfile'
  <2>1. UNCHANGED <<attached, allowlist, arm>>
    BY <1>4 DEF UnloadCheck, kernel, ghosts
  <2>2. pc'[c] = "populate" => pc[c] = "populate" /\ job'[c].profile = job[c].profile
    BY <1>1, <1>4, GotoMoves, FinishMoves DEF UnloadCheck, TypeOK
  <2>3. QED BY <1>0, <2>1, <2>2, OneProfileUntouched
<1>5. CASE LoadProg(c)
  <2>1. CASE Fail(c) /\ UNCHANGED <<kernel, arm>>
    BY <1>0, <1>1, <2>1, FinishMoves, OneProfileUntouched DEF kernel
  <2>2. CASE ~(Fail(c) /\ UNCHANGED <<kernel, arm>>)
    <3>1. /\ allowlist' = {} /\ job' = job
          /\ arm' = [profile |-> job[c].profile, audit |-> job[c].audit,
                     ttl |-> job[c].ttl, left |-> 0]
      BY <1>5, <2>2 DEF LoadProg, EmptyMaps
    <3>2. QED BY <1>0, <3>1 DEF OneProfile
  <2>3. QED BY <2>1, <2>2
<1>6. CASE AllowlistAdd(c)
  <2> DEFINE f == job[c].profile
  <2>1. CASE Fail(c) /\ UNCHANGED allowlist
    BY <1>0, <1>1, <1>6, <2>1, FinishMoves, OneProfileUntouched DEF AllowlistAdd
  <2>2. CASE job' = [job EXCEPT ![c].i = @ + 1] /\ UNCHANGED <<pc, trouble>>
             /\ allowlist' = allowlist \cup {Allow[f][job[c].i]}
    <3>1. f \in Profiles /\ job[c].i \in 1..Len(Allow[f]) /\ pc[c] = "populate"
      <4>1. f \in Profiles /\ job[c].i > 0 /\ job[c].i <= Len(Allow[f]) /\ pc[c] = "populate"
        BY <1>6 DEF AllowlistAdd, Populating, TypeOK, ArgumentsOK
      <4>2. QED BY <1>1, <4>1, JobFields, ProfilesAssumption
    <3>2. Allow[f][job[c].i] \in Prefixes(f)
      BY <3>1, PrefixAt
    <3>3. job'[c].profile = f
      BY <1>1, <2>2 DEF TypeOK, JobType
    <3>4. QED BY <1>0, <1>6, <2>2, <3>1, <3>2, <3>3 DEF AllowlistAdd, OneProfile
  <2>3. QED BY <1>6, <2>1, <2>2 DEF AllowlistAdd
<1>7. CASE WriteMode(c) \/ WriteTmp(c) \/ Rename(c)
  <2>1. UNCHANGED <<attached, allowlist, arm>>
    BY <1>7 DEF WriteMode, WriteTmp, Rename, kernel, ghosts
  <2>2. pc'[c] # "populate"
    BY <1>1, <1>7, GotoMoves, FinishMoves DEF WriteMode, WriteTmp, Rename
  <2>3. QED BY <1>0, <2>1, <2>2, OneProfileUntouched
<1>8. CASE ArmStop(c)
  <2>1. UNCHANGED <<attached, allowlist, arm>>
    BY <1>8 DEF ArmStop, kernel, ghosts
  <2>2. pc'[c] # "populate"
    BY <1>1, <1>8 DEF ArmStop, Goto, TypeOK
  <2>3. QED BY <1>0, <2>1, <2>2, OneProfileUntouched
<1>9. CASE SystemdRun(c)
  <2>1. UNCHANGED <<attached, allowlist>> /\ arm'.profile = arm.profile
    BY <1>9 DEF SystemdRun, kernel, TypeOK, ArmType
  <2>2. pc'[c] # "populate"
    BY <1>1, <1>9, FinishMoves DEF SystemdRun
  <2>3. QED BY <1>0, <2>1, <2>2, OneProfileUntouched
<1>10. ASSUME NEW p \in Procs, UnloadRm(p)
       PROVE  OneProfile'
  <2>1. CASE Fail(p) /\ UNCHANGED <<kernel, arm>>
    <3>1. pc'[c] = "populate" => pc[c] = "populate" /\ job'[c].profile = job[c].profile
      BY <1>1, <2>1, FinishMoves
    <3>2. QED BY <1>0, <2>1, <3>1, OneProfileUntouched DEF kernel
  <2>2. CASE Detach
    BY <2>2 DEF Detach, OneProfile
  <2>3. QED BY <1>10, <2>1, <2>2 DEF UnloadRm
<1>11. ASSUME NEW p \in Procs, Disarm(p)
       PROVE  OneProfile'
  <2>1. UNCHANGED <<attached, allowlist, arm>>
    BY <1>11 DEF Disarm, kernel, ghosts
  <2>2. pc'[c] = "populate" => pc[c] = "populate" /\ job'[c] = job[c]
    BY <1>1, <1>11 DEF Disarm, Goto, TypeOK
  <2>3. QED BY <1>0, <2>1, <2>2, OneProfileUntouched
<1>12. ASSUME NEW p \in Procs, RemoveState(p) \/ Kill(p)
       PROVE  OneProfile'
  <2>1. UNCHANGED <<attached, allowlist, arm>>
    BY <1>12 DEF RemoveState, Kill, kernel, ghosts
  <2>2. pc'[c] = "populate" => pc[c] = "populate" /\ job'[c].profile = job[c].profile
    BY <1>1, <1>12, FinishMoves DEF RemoveState, Kill
  <2>3. QED BY <1>0, <2>1, <2>2, OneProfileUntouched
<1>13. CASE Fire \/ Logout
  <2>1. UNCHANGED <<attached, allowlist, arm>>
    BY <1>13 DEF Fire, Logout, kernel, ghosts
  <2>2. pc'[c] = pc[c] /\ job'[c] = job[c]
    BY <1>1, <1>13 DEF Fire, Logout, Goto, TypeOK
  <2>3. QED BY <1>0, <2>1, <2>2, OneProfileUntouched
<1>14. CASE Reboot
    BY <1>14 DEF Reboot, Detach, OneProfile
<1>15. CASE Tick
  <2>1. UNCHANGED <<attached, allowlist, pc, job>> /\ arm'.profile = arm.profile
    BY <1>15 DEF Tick, Pass, kernel, TypeOK, ArmType
  <2>2. QED BY <2>1, OneProfileUntouched
<1>16. CASE UNCHANGED vars
    BY <1>16 DEF vars, OneProfile
<1>17. QED
    BY <1>0, <1>1, <1>2, <1>3, <1>4, <1>5, <1>6, <1>7, <1>8, <1>9, <1>10, <1>11, <1>12,
       <1>13, <1>14, <1>15, <1>16 DEF Next, Start, ClientStep, UnloadStep

\* For an operator in one shell the allow-list of the attached program never
\* holds a prefix of another load's profile, whatever fails: a failed or killed
\* load never leaks its prefixes into the next one.
THEOREM OneProfileHolds ==
    ASSUME Serial PROVE Spec => []AllowlistFromOneProfile
<1>1. Init => OneProfile
    BY DEF Init, OneProfile
<1>2. TypeOK /\ OneProfile /\ [Next]_vars => OneProfile'
    BY OneProfileStep
<1>3. OneProfile => AllowlistFromOneProfile
    BY DEF OneProfile, AllowlistFromOneProfile
<1>4. QED BY <1>1, <1>2, <1>3, TypeCorrect, PTL DEF Spec

-----------------------------------------------------------------------------
(* An arm with a TTL is guarded *)

\* What a load or a renew relies on at each of its steps.
Guarded(c) ==
    /\ pc[c] \in {"load_prog", "disarm", "remove"} => ~attached
    /\ pc[c] \in {"load_prog", "populate"} =>
           job[c].op = "load" /\ job[c].profile \notin Rejected
    /\ pc[c] \in {"write_tmp", "rename", "stop", "run"} =>
           job[c].op = "load" \/ (job[c].op = "renew" /\ job[c].ttl > 0)
    /\ pc[c] \in {"populate", "write_tmp", "rename"} /\ job[c].op = "load" /\ attached =>
           arm.ttl = job[c].ttl
    /\ pc[c] = "rename" => tmp.here
    \* Between commands, and in a renew until it cancels, the deadman is coming.
    /\ attached /\ arm.ttl # 0 =>
           /\ pc[c] = "idle" => DeadmanComing
           /\ pc[c] \in {"write_tmp", "rename", "stop"} /\ job[c].op = "renew" =>
                  DeadmanComing
    \* Once it has cancelled, a deadman that runs has not yet detached.
    /\ pc[c] = "run" /\ attached => pc[Deadman] \in {"idle", "check", "rm"}

\* With the timer that started it gone until it has ended.
GuardInv == /\ \A c \in Clients : Guarded(c)
            /\ pc[Deadman] # "idle" => ~timer.set

\* A profile that was not rejected fits, prefix by prefix.
LEMMA RoomForPrefix ==
    ASSUME Roomy, NEW f \in Profiles \ Rejected, NEW n \in 1..Len(Allow[f]),
           allowlist \subseteq Prefixes(f)
    PROVE  Fits(Allow[f][n])
<1> DEFINE prefix == Allow[f][n]
<1>1. prefix \in Prefixes(f) /\ prefix \notin TooLong
    BY PrefixAt DEF Roomy
<1>2. IsFiniteSet(Prefixes(f))
  <2>1. Allow[f] \in Seq(Prefixes(f))
    BY ProfilesAssumption
  <2>2. Allow[f] \in Surjection(1..Len(Allow[f]), Prefixes(f))
    BY <2>1 DEF Surjection, Prefixes
  <2>3. IsFiniteSet(1..Len(Allow[f]))
    BY <2>1, FS_Interval
  <2>4. QED BY <2>2, <2>3, FS_Surjection
<1>3. CASE prefix \in allowlist
    BY <1>1, <1>3 DEF Fits
<1>4. CASE prefix \notin allowlist
  <2>1. /\ Cardinality(allowlist) <= Cardinality(Prefixes(f))
        /\ Cardinality(allowlist) # Cardinality(Prefixes(f))
        /\ IsFiniteSet(allowlist)
    BY <1>1, <1>2, <1>4, FS_Subset
  <2>2. Cardinality(allowlist) \in Nat /\ Cardinality(Prefixes(f)) \in Nat
    BY <1>2, <2>1, FS_CardinalityType
  <2>3. Cardinality(Prefixes(f)) <= AllowCap
    BY DEF Roomy
  <2>4. QED BY <1>1, <2>1, <2>2, <2>3, NumbersAssumption DEF Fits
<1>5. QED BY <1>3, <1>4

\* Every action keeps GuardInv.
LEMMA GuardStep ==
    ASSUME Serial, Calm, Roomy, TypeOK, OneProfile, GuardInv, [Next]_vars
    PROVE  GuardInv'
<1>0. PICK c \in Clients : Clients = {c}
    BY DEF Serial
<1>1. c # Deadman /\ c \in Procs /\ Deadman \in Procs /\ Procs = {c, Deadman}
    BY <1>0, DeadmanAssumption DEF Procs
<1>2. Guarded(c) /\ (pc[Deadman] # "idle" => ~timer.set)
    BY DEF GuardInv
<1>3. ~May("sudo") /\ ~May("io") /\ ~May("systemd") /\ ~May("kill") /\ ~May("logout")
    BY DEF Calm, May
<1>4. SUFFICES Guarded(c)' /\ (pc'[Deadman] # "idle" => ~timer'.set)
    BY <1>0 DEF GuardInv
<1> USE DEF Guarded, DeadmanComing
<1>5. ASSUME NEW profile \in Profiles, NEW audit \in BOOLEAN,
             NEW yes \in BOOLEAN, NEW tty \in BOOLEAN, NEW ttl \in TTLs,
             LoadBegin(c, profile, audit, yes, tty, ttl)
      PROVE  Guarded(c)' /\ (pc'[Deadman] # "idle" => ~timer'.set)
  <2>1. UNCHANGED <<attached, arm, timer, tmp>> /\ pc[c] = "idle"
    BY <1>5 DEF LoadBegin, kernel, files, Idle
  <2>2. CASE UNCHANGED <<pc, job>>
    BY <1>2, <2>1, <2>2
  <2>3. CASE Fail(c)
    BY <1>1, <1>2, <2>1, <2>3, FinishMoves
  <2>4. CASE /\ Goto(c, "load_prog") /\ SaysLoaded(FALSE) /\ profile \notin Rejected
             /\ job' = [job EXCEPT ![c] = [op |-> "load", profile |-> profile,
                                           audit |-> audit, ttl |-> ttl, i |-> 1]]
    <3>1. pc'[c] = "load_prog" /\ pc'[Deadman] = pc[Deadman] /\ ~attached
      BY <1>1, <1>3, <2>4, GotoMoves DEF SaysLoaded
    <3>2. job'[c].op = "load" /\ job'[c].profile = profile
      BY <1>1, <2>4 DEF TypeOK
    <3>3. QED BY <1>2, <2>1, <2>4, <3>1, <3>2
  <2>5. QED BY <1>5, <2>2, <2>3, <2>4 DEF LoadBegin
<1>6. ASSUME NEW asked \in RenewTTLs, Renew(c, asked)
      PROVE  Guarded(c)' /\ (pc'[Deadman] # "idle" => ~timer'.set)
  <2>1. UNCHANGED <<attached, arm, timer, tmp>> /\ pc[c] = "idle"
    BY <1>6 DEF Renew, kernel, files, Idle
  <2>2. CASE Fail(c)
    BY <1>1, <1>2, <2>1, <2>2, FinishMoves
  <2>3. CASE Goto(c, "write_tmp") /\ job' = [job EXCEPT ![c] =
                 [NoJob EXCEPT !.op = "renew", !.ttl = RenewedTtl(asked)]]
    <3>1. pc'[c] = "write_tmp" /\ pc'[Deadman] = pc[Deadman]
      BY <1>1, <2>3, GotoMoves
    <3>2. RenewedTtl(asked) > 0
      BY NumbersAssumption DEF RenewedTtl, TypeOK, FileType
    <3>3. job'[c].op = "renew" /\ job'[c].ttl = RenewedTtl(asked)
      BY <1>1, <2>3 DEF TypeOK, NoJob
    <3>4. QED BY <1>2, <2>1, <3>1, <3>2, <3>3
  <2>4. QED BY <1>6, <2>2, <2>3 DEF Renew
<1>7. ASSUME NEW p \in Procs, UnloadCheck(p)
      PROVE  Guarded(c)' /\ (pc'[Deadman] # "idle" => ~timer'.set)
  <2>1. UNCHANGED <<attached, arm, timer, tmp>>
    BY <1>7 DEF UnloadCheck, kernel, files, ghosts
  <2>2. (pc'[p] = "idle" /\ ~attached) \/ (pc'[p] = "rm" /\ attached)
    BY <1>3, <1>7, FinishMoves, GotoMoves DEF UnloadCheck, SaysLoaded
  <2>3. CASE p = c
    <3>1. pc'[Deadman] = pc[Deadman]
      BY <1>1, <1>7, <2>3, FinishMoves, GotoMoves DEF UnloadCheck
    <3>2. QED BY <1>2, <2>1, <2>2, <2>3, <3>1
  <2>4. CASE p = Deadman
    <3>1. pc'[c] = pc[c] /\ job'[c] = job[c] /\ pc[Deadman] = "check"
      BY <1>1, <1>7, <2>4, FinishMoves, GotoMoves DEF UnloadCheck, TypeOK
    <3>2. QED BY <1>2, <2>1, <2>2, <2>4, <3>1
  <2>5. QED BY <1>1, <2>3, <2>4
<1>8. CASE LoadProg(c)
  <2>1. ~attached /\ pc[c] = "load_prog"
    BY <1>2, <1>8 DEF LoadProg
  <2>2. /\ attached' = TRUE /\ pc'[c] = "populate" /\ pc'[Deadman] = pc[Deadman]
        /\ job' = job /\ timer' = timer
        /\ arm' = [profile |-> job[c].profile, audit |-> job[c].audit,
                   ttl |-> job[c].ttl, left |-> 0]
    BY <1>1, <1>3, <1>8, <2>1, GotoMoves DEF LoadProg
  <2>3. QED BY <1>2, <2>1, <2>2
<1>9. CASE AllowlistAdd(c)
  <2> DEFINE f == job[c].profile
  <2>1. UNCHANGED <<attached, arm, timer, tmp>> /\ pc[c] = "populate"
    BY <1>9 DEF AllowlistAdd, Populating, files
  <2>2. CASE Fail(c) /\ UNCHANGED allowlist /\ (~attached \/ ~Fits(Allow[f][job[c].i]))
    <3>1. ~attached
      <4>1. SUFFICES ASSUME attached PROVE FALSE
        OBVIOUS
      <4>2. f \in Profiles \ Rejected /\ f = arm.profile
        BY <1>2, <2>1, <4>1 DEF TypeOK, ArgumentsOK, OneProfile
      <4>3. job[c].i > 0 /\ job[c].i <= Len(Allow[f])
        BY <1>9, <2>1 DEF AllowlistAdd, Populating, TypeOK, ArgumentsOK
      <4>4. job[c].i \in 1..Len(Allow[f])
        BY <1>1, <4>2, <4>3, JobFields, ProfilesAssumption
      <4>5. allowlist \subseteq Prefixes(f)
        BY <4>1, <4>2 DEF OneProfile
      <4>6. Fits(Allow[f][job[c].i])
        BY <4>2, <4>4, <4>5, RoomForPrefix
      <4>7. QED BY <2>2, <4>1, <4>6
    <3>2. QED BY <1>1, <1>2, <2>1, <2>2, <3>1, FinishMoves
  <2>3. CASE job' = [job EXCEPT ![c].i = @ + 1] /\ UNCHANGED pc
    <3>1. /\ job'[c].op = job[c].op /\ job'[c].profile = job[c].profile
          /\ job'[c].ttl = job[c].ttl
      BY <1>1, <2>3 DEF TypeOK, JobType
    <3>2. QED BY <1>2, <2>1, <2>3, <3>1
  <2>4. QED BY <1>3, <1>9, <2>2, <2>3 DEF AllowlistAdd
<1>10. CASE WriteMode(c)
  <2>1. /\ UNCHANGED <<attached, arm, timer, tmp, job>> /\ pc[c] = "populate"
        /\ pc'[c] = "write_tmp" /\ pc'[Deadman] = pc[Deadman]
    BY <1>1, <1>10, GotoMoves DEF WriteMode, files, ghosts
  <2>2. job'[c].op = "load" /\ (attached' => arm'.ttl = job'[c].ttl)
    BY <1>2, <2>1
  <2>3. Guarded(c)'
    BY <2>1, <2>2
  <2>4. QED BY <1>2, <2>1, <2>3
<1>11. CASE WriteTmp(c)
  <2>1. /\ UNCHANGED <<attached, arm, timer, job>> /\ pc[c] = "write_tmp"
        /\ pc'[c] = "rename" /\ pc'[Deadman] = pc[Deadman] /\ tmp'.here
    BY <1>1, <1>3, <1>11, GotoMoves DEF WriteTmp, kernel
  <2>2. QED BY <1>2, <2>1
<1>12. CASE Rename(c)
  <2>1. UNCHANGED <<attached, arm, timer>> /\ pc[c] = "rename" /\ tmp.here
    BY <1>2, <1>12 DEF Rename, kernel
  <2>2. CASE Finish(c) /\ ~NeedsWatchdog(c)
    <3>1. pc'[c] = "idle" /\ pc'[Deadman] = pc[Deadman]
      BY <1>1, <2>2, FinishMoves
    <3>2. job[c].ttl = 0
      BY <1>1, <2>2, JobFields DEF NeedsWatchdog
    <3>3. attached => arm.ttl = 0
      BY <1>2, <2>1, <3>2
    <3>4. QED BY <1>2, <2>1, <3>1, <3>3
  <2>3. CASE Goto(c, "stop") /\ UNCHANGED job
    <3>1. pc'[c] = "stop" /\ pc'[Deadman] = pc[Deadman]
      BY <1>1, <2>3, GotoMoves
    <3>2. QED BY <1>2, <2>1, <2>3, <3>1
  <2>4. QED BY <1>3, <1>12, <2>1, <2>2, <2>3 DEF Rename
<1>13. CASE ArmStop(c)
  <2>1. /\ UNCHANGED <<attached, arm>> /\ pc[c] = "stop"
        /\ pc'[c] = "run" /\ pc'[Deadman] = "idle" /\ job'[c] = job[c]
    BY <1>1, <1>3, <1>13 DEF ArmStop, kernel, ghosts, TypeOK
  <2>2. QED BY <1>2, <2>1
<1>14. CASE SystemdRun(c)
  <2>1. UNCHANGED <<attached>> /\ pc[c] = "run" /\ pc'[c] = "idle"
        /\ pc'[Deadman] = pc[Deadman]
    BY <1>1, <1>14, FinishMoves DEF SystemdRun, kernel
  <2>2. CASE UnitFree /\ timer' = [set |-> TRUE, left |-> job[c].ttl]
    BY <2>1, <2>2 DEF UnitFree, Idle
  <2>3. CASE ~UnitFree /\ UNCHANGED <<timer, arm>>
    BY <1>2, <2>1, <2>3 DEF UnitFree, Idle
  <2>4. QED BY <1>3, <1>14, <2>2, <2>3 DEF SystemdRun
<1>15. ASSUME NEW p \in Procs, UnloadRm(p)
       PROVE  Guarded(c)' /\ (pc'[Deadman] # "idle" => ~timer'.set)
  <2>1. /\ attached' = FALSE /\ pc[p] = "rm" /\ pc'[p] = "disarm"
        /\ UNCHANGED <<timer, tmp, job>> /\ \A q \in Procs : q # p => pc'[q] = pc[q]
    BY <1>3, <1>15, GotoMoves DEF UnloadRm, Detach, files
  <2>2. QED BY <1>1, <1>2, <2>1
<1>16. ASSUME NEW p \in Procs, Disarm(p)
       PROVE  Guarded(c)' /\ (pc'[Deadman] # "idle" => ~timer'.set)
  <2>1. /\ UNCHANGED <<attached, arm, tmp>> /\ pc[p] = "disarm" /\ pc'[Deadman] = "idle"
        /\ job'[c] = job[c] /\ timer' \in {NoTimer, timer}
        /\ pc'[c] = IF p = c THEN "remove" ELSE pc[c]
    BY <1>1, <1>3, <1>16 DEF Disarm, kernel, files, ghosts, TypeOK
  <2>2. CASE p = c
    BY <1>2, <2>1, <2>2
  <2>3. CASE p = Deadman
    BY <1>1, <1>2, <2>1, <2>3
  <2>4. QED BY <1>1, <2>2, <2>3
<1>17. ASSUME NEW p \in Procs, RemoveState(p)
       PROVE  Guarded(c)' /\ (pc'[Deadman] # "idle" => ~timer'.set)
  <2>1. UNCHANGED <<attached, arm, tmp, timer>> /\ pc[p] = "remove" /\ pc'[p] = "idle"
        /\ \A q \in Procs : q # p => pc'[q] = pc[q] /\ job'[q] = job[q]
    BY <1>17, FinishMoves DEF RemoveState, kernel, ghosts
  <2>2. CASE p = c
    BY <1>1, <1>2, <2>1, <2>2
  <2>3. CASE p = Deadman
    BY <1>1, <1>2, <2>1, <2>3
  <2>4. QED BY <1>1, <2>2, <2>3
<1>18. CASE Fire
  <2>1. /\ UNCHANGED <<attached, arm, tmp, job>> /\ pc'[Deadman] = "check"
        /\ pc'[c] = pc[c] /\ timer' = NoTimer
    BY <1>1, <1>18, GotoMoves DEF Fire, kernel, files, ghosts
  <2>2. QED BY <1>2, <2>1 DEF NoTimer
<1>19. CASE Reboot
    BY <1>1, <1>19 DEF Reboot, Detach, NoTimer
<1>20. CASE Tick
  <2>1. UNCHANGED <<attached, pc, job>> /\ arm'.ttl = arm.ttl /\ timer'.set = timer.set
        /\ tmp'.here = tmp.here
    BY <1>20 DEF Tick, Pass, kernel, TypeOK, ArmType, TimerType, FileType
  <2>2. QED BY <1>2, <2>1
<1>21. CASE UNCHANGED vars
    BY <1>2, <1>21 DEF vars
<1>22. QED
    BY <1>0, <1>1, <1>3, <1>5, <1>6, <1>7, <1>8, <1>9, <1>10, <1>11, <1>12, <1>13,
       <1>14, <1>15, <1>16, <1>17, <1>18, <1>19, <1>20, <1>21
       DEF Next, Start, ClientStep, UnloadStep, Kill, Logout

\* For an operator in one shell, on a machine that may lose power at any
\* moment, an arm with a TTL is never left without its deadman, for any set of
\* profiles that fit the map.
THEOREM ArmIsGuarded ==
    ASSUME Serial, Calm, Roomy PROVE Spec => []DeadmanGuardsArm
<1>1. Init => OneProfile /\ GuardInv
    BY DeadmanAssumption DEF Init, OneProfile, GuardInv, Guarded, Procs
<1>2. TypeOK /\ OneProfile /\ GuardInv /\ [Next]_vars => OneProfile' /\ GuardInv'
    BY OneProfileStep, GuardStep
<1>3. GuardInv => DeadmanGuardsArm
    BY DEF GuardInv, Guarded, DeadmanGuardsArm, AtRest, Idle, Serial
<1>4. QED BY <1>1, <1>2, <1>3, TypeCorrect, PTL DEF Spec

-----------------------------------------------------------------------------
(* The commands implement the lease *)

\* A removal that has begun goes through: sudo does not fail, no command is
\* cut short.
RemovalsGoThrough == ~May("sudo") /\ ~May("kill")

Terms == (TTLs \cup RenewTTLs \cup {DefaultTtl}) \ {0}

\* Every TTL that is on its way to the watchdog was configured as one.
TermsOnly ==
    /\ \A c \in Clients : job[c].ttl \in Terms \cup {0}
    /\ state.ttl \in Terms \cup {0}
    /\ tmp.ttl \in Terms \cup {0}

\* Every action keeps TermsOnly.
LEMMA TermsStep ==
    ASSUME TypeOK, TermsOnly, [Next]_vars
    PROVE  TermsOnly'
<1>0. Deadman \in Procs /\ \A c \in Clients : c \in Procs /\ c # Deadman
    BY DeadmanAssumption DEF Procs
<1>j. NoJob.ttl = 0 /\ NoFile.ttl = 0
    BY DEF NoJob, NoFile
<1>k. ASSUME NEW p \in Procs, Finish(p) \/ Fail(p)
      PROVE  \A c \in Clients : job'[c].ttl \in Terms \cup {0}
    BY <1>0, <1>j, <1>k, FinishMoves DEF TermsOnly
<1>1. ASSUME NEW c \in Clients, NEW profile \in Profiles, NEW audit \in BOOLEAN,
             NEW yes \in BOOLEAN, NEW tty \in BOOLEAN, NEW ttl \in TTLs,
             LoadBegin(c, profile, audit, yes, tty, ttl)
      PROVE  TermsOnly'
  <2>1. CASE Fail(c) \/ job' = job
    BY <1>0, <1>1, <1>k, <2>1 DEF LoadBegin, TermsOnly, files
  <2>2. CASE job' = [job EXCEPT ![c] = [op |-> "load", profile |-> profile,
                                        audit |-> audit, ttl |-> ttl, i |-> 1]]
    BY <1>0, <1>1, <2>2, NumbersAssumption DEF LoadBegin, TermsOnly, Terms, files, TypeOK
  <2>3. QED BY <1>1, <2>1, <2>2 DEF LoadBegin
<1>2. ASSUME NEW c \in Clients, NEW asked \in RenewTTLs, Renew(c, asked)
      PROVE  TermsOnly'
  <2>1. CASE Fail(c)
    BY <1>0, <1>2, <1>k, <2>1 DEF Renew, TermsOnly, files
  <2>2. CASE job' = [job EXCEPT ![c] = [NoJob EXCEPT !.op = "renew",
                                                     !.ttl = RenewedTtl(asked)]]
    <3>1. RenewedTtl(asked) \in Terms
      BY NumbersAssumption DEF RenewedTtl, Terms, TermsOnly, TypeOK, FileType
    <3>2. job'[c].ttl = RenewedTtl(asked) /\ \A d \in Clients \ {c} : job'[d] = job[d]
      BY <1>0, <2>2 DEF TypeOK, NoJob
    <3>3. QED BY <1>2, <3>1, <3>2 DEF Renew, TermsOnly, files
  <2>3. QED BY <1>2, <2>1, <2>2 DEF Renew
<1>3. ASSUME NEW p \in Procs, UnloadCheck(p)
      PROVE  TermsOnly'
  <2>1. CASE Finish(p)
    BY <1>3, <1>k, <2>1 DEF UnloadCheck, TermsOnly, files
  <2>2. CASE job' = [job EXCEPT ![p] = [NoJob EXCEPT !.op = "unload"]]
    <3>1. job'[p].ttl = 0 /\ \A d \in Procs \ {p} : job'[d] = job[d]
      BY <2>2 DEF TypeOK, NoJob
    <3>2. QED BY <1>0, <1>3, <3>1 DEF UnloadCheck, TermsOnly, files
  <2>3. QED BY <1>3, <2>1, <2>2 DEF UnloadCheck
<1>4. ASSUME NEW c \in Clients, LoadProg(c) \/ WriteMode(c) \/ SystemdRun(c)
      PROVE  TermsOnly'
    BY <1>0, <1>4, <1>k DEF LoadProg, WriteMode, SystemdRun, TermsOnly, files
<1>5. ASSUME NEW c \in Clients, AllowlistAdd(c)
      PROVE  TermsOnly'
  <2>1. CASE Fail(c)
    BY <1>0, <1>5, <1>k, <2>1 DEF AllowlistAdd, TermsOnly, files
  <2>2. CASE job' = [job EXCEPT ![c].i = @ + 1]
    <3>1. \A d \in Clients : job'[d].ttl = job[d].ttl
      BY <1>0, <2>2 DEF TypeOK, JobType
    <3>2. QED BY <1>5, <3>1 DEF AllowlistAdd, TermsOnly, files
  <2>3. QED BY <1>5, <2>1, <2>2 DEF AllowlistAdd
<1>6. ASSUME NEW c \in Clients, WriteTmp(c)
      PROVE  TermsOnly'
    BY <1>0, <1>6, <1>k DEF WriteTmp, TermsOnly
<1>7. ASSUME NEW c \in Clients, Rename(c)
      PROVE  TermsOnly'
    BY <1>0, <1>7, <1>j, <1>k DEF Rename, TermsOnly, files
<1>8. ASSUME NEW p \in Procs, ArmStop(p) \/ Disarm(p)
      PROVE  TermsOnly'
    BY <1>0, <1>8 DEF ArmStop, Disarm, TermsOnly, TypeOK, files
<1>9. ASSUME NEW p \in Procs, UnloadRm(p) \/ RemoveState(p) \/ Kill(p)
      PROVE  TermsOnly'
    BY <1>9, <1>j, <1>k DEF UnloadRm, RemoveState, Kill, TermsOnly, files
<1>10. CASE Fire \/ Logout
    BY <1>0, <1>10 DEF Fire, Logout, TermsOnly, files, TypeOK
<1>11. CASE Reboot
    BY <1>0, <1>11, <1>j DEF Reboot, TermsOnly, files
<1>12. CASE Tick
  <2>1. job' = job /\ state'.ttl = state.ttl /\ tmp'.ttl = tmp.ttl
    BY <1>12 DEF Tick, Pass, TypeOK, FileType
  <2>2. QED BY <2>1 DEF TermsOnly
<1>13. CASE UNCHANGED vars
    BY <1>13 DEF vars, TermsOnly
<1>14. QED
    BY <1>0, <1>1, <1>2, <1>3, <1>4, <1>5, <1>6, <1>7, <1>8, <1>9, <1>10, <1>11, <1>12,
       <1>13 DEF Next, Start, ClientStep, UnloadStep

\* Every step of the commands and of their environment is a step of the lease
\* or changes nothing that the lease sees.
LEMMA LeaseStep ==
    ASSUME Serial, RemovalsGoThrough, TypeOK, Promise, TermsOnly, [Next]_vars
    PROVE  [L!Next]_L!vars
<1>0. PICK c \in Clients : Clients = {c}
    BY DEF Serial
<1>1. c # Deadman /\ c \in Procs /\ Deadman \in Procs /\ Procs = {c, Deadman}
    BY <1>0, DeadmanAssumption DEF Procs
<1>2. /\ (\E d \in Clients : pc[d] = "rm") <=> pc[c] = "rm"
      /\ (\E d \in Clients : pc'[d] = "rm") <=> pc'[c] = "rm"
    BY <1>0
<1>3. ~May("sudo") /\ ~May("kill")
    BY DEF RemovalsGoThrough
<1>n. arm.left \in Nat /\ attached \in BOOLEAN
    BY DEF TypeOK, ArmType
<1> DEFINE asked == \E d \in Clients : pc[d] = "rm"
           phase == IF attached THEN "on"
                    ELSE IF \E p \in Procs : pc[p] = "disarm" THEN "removed" ELSE "off"
<1>p. /\ (phase = "on") <=> attached
      /\ (phase' = "on") <=> attached'
      /\ phase \in {"on", "removed", "off"} /\ phase' \in {"on", "removed", "off"}
    OBVIOUS
\* What the lease does not see.
<1>s. ASSUME UNCHANGED <<attached, arm>>, pc[c] = "rm" <=> pc'[c] = "rm"
      PROVE  [L!Next]_L!vars
  <2>1. asked' = asked
    BY <1>2, <1>s
  <2>2. CASE attached
    BY <1>s, <2>1, <2>2 DEF L!vars
  <2>3. CASE ~attached
    <3>1. L!Settle
      BY <1>p, <1>s, <2>1, <2>3 DEF L!Settle, L!On, L!Down
    <3>2. QED BY <3>1 DEF L!Next
  <2>4. QED BY <2>2, <2>3, <1>n
<1>4. ASSUME NEW profile \in Profiles, NEW audit \in BOOLEAN,
             NEW yes \in BOOLEAN, NEW tty \in BOOLEAN, NEW ttl \in TTLs,
             LoadBegin(c, profile, audit, yes, tty, ttl)
      PROVE  [L!Next]_L!vars
  <2>1. UNCHANGED <<attached, arm>> /\ pc[c] = "idle" /\ pc'[c] \in {"idle", "load_prog"}
    BY <1>1, <1>4, GotoMoves, FinishMoves DEF LoadBegin, kernel, Idle
  <2>2. QED BY <1>s, <2>1
<1>5. ASSUME NEW term \in RenewTTLs, Renew(c, term)
      PROVE  [L!Next]_L!vars
  <2>1. UNCHANGED <<attached, arm>> /\ pc[c] = "idle" /\ pc'[c] \in {"idle", "write_tmp"}
    BY <1>1, <1>5, GotoMoves, FinishMoves DEF Renew, kernel, Idle
  <2>2. QED BY <1>s, <2>1
<1>6. CASE UnloadCheck(c)
  <2>1. UNCHANGED <<attached, arm>> /\ pc[c] = "idle"
    BY <1>1, <1>6 DEF UnloadCheck, kernel, ghosts, Idle
  <2>2. CASE pc'[c] = "rm" /\ attached
    <3>1. L!Ask
      BY <1>2, <1>p, <2>1, <2>2 DEF L!Ask, L!On
    <3>2. QED BY <3>1 DEF L!Next
  <2>3. CASE pc'[c] = "idle"
    BY <1>s, <2>1, <2>3
  <2>4. QED BY <1>1, <1>3, <1>6, <2>2, <2>3, GotoMoves, FinishMoves
            DEF UnloadCheck, SaysLoaded
<1>7. CASE UnloadCheck(Deadman)
  <2>1. UNCHANGED <<attached, arm>> /\ pc'[c] = pc[c]
    BY <1>1, <1>7, GotoMoves, FinishMoves DEF UnloadCheck, kernel, ghosts
  <2>2. QED BY <1>s, <2>1
<1>8. CASE LoadProg(c)
  <2>1. pc[c] = "load_prog" /\ pc'[c] \in {"idle", "populate"}
    BY <1>1, <1>8, GotoMoves, FinishMoves DEF LoadProg
  <2>2. CASE UNCHANGED <<kernel, arm>>
    BY <1>s, <2>1, <2>2 DEF kernel
  <2>3. CASE ~attached /\ attached' = TRUE /\ arm'.left = 0
    <3>1. arm.left = 0
      BY <1>n, <2>3 DEF Promise
    <3>2. L!Grant
      BY <1>2, <1>p, <2>1, <2>3, <3>1 DEF L!Grant, L!On
    <3>3. QED BY <3>2 DEF L!Next
  <2>4. QED
    <3>1. CASE Fail(c) /\ UNCHANGED <<kernel, arm>>
      BY <2>2, <3>1
    <3>2. CASE ~(Fail(c) /\ UNCHANGED <<kernel, arm>>)
      <4>1. /\ ~attached /\ attached' = TRUE
            /\ arm' = [profile |-> job[c].profile, audit |-> job[c].audit,
                       ttl |-> job[c].ttl, left |-> 0]
        BY <1>8, <3>2 DEF LoadProg
      <4>2. QED BY <2>3, <4>1
    <3>3. QED BY <3>1, <3>2
<1>9. CASE AllowlistAdd(c) \/ WriteMode(c) \/ WriteTmp(c) \/ Rename(c)
  <2>1. UNCHANGED <<attached, arm>> /\ pc[c] \in {"populate", "write_tmp", "rename"}
    BY <1>9 DEF AllowlistAdd, WriteMode, WriteTmp, Rename, Populating, kernel, ghosts
  <2>2. pc'[c] # "rm"
    BY <1>1, <1>9, <2>1, GotoMoves, FinishMoves
       DEF AllowlistAdd, WriteMode, WriteTmp, Rename
  <2>3. QED BY <1>s, <2>1, <2>2
<1>10. CASE ArmStop(c)
  <2>1. UNCHANGED <<attached, arm>> /\ pc[c] = "stop" /\ pc'[c] = "run"
    BY <1>1, <1>10 DEF ArmStop, Goto, TypeOK, kernel, ghosts
  <2>2. QED BY <1>s, <2>1
<1>11. CASE SystemdRun(c)
  <2>1. attached' = attached /\ pc[c] = "run" /\ pc'[c] = "idle"
    BY <1>1, <1>11, FinishMoves DEF SystemdRun, kernel
  <2>2. CASE arm' = arm
    BY <1>s, <2>1, <2>2
  <2>3. CASE attached /\ arm' = [arm EXCEPT !.ttl = job[c].ttl, !.left = job[c].ttl]
    <3>1. arm'.left = job[c].ttl
      BY <2>3 DEF TypeOK, ArmType
    <3>2. job[c].ttl \in Terms
      BY <2>1 DEF TermsOnly, TypeOK, ArgumentsOK
    <3>3. L!Promise(job[c].ttl)
      BY <1>2, <1>p, <2>1, <2>3, <3>1 DEF L!Promise, L!On
    <3>4. QED BY <3>2, <3>3 DEF L!Next, Terms
  <2>4. QED BY <1>11, <2>2, <2>3 DEF SystemdRun
<1>12. CASE UnloadRm(c)
  <2>1. pc[c] = "rm" /\ pc'[c] = "disarm" /\ attached' = FALSE /\ arm'.left = 0
    BY <1>1, <1>3, <1>12, GotoMoves DEF UnloadRm, Detach, NoArm
  <2>2. asked /\ ~asked' /\ phase' = "removed"
    BY <1>1, <1>2, <2>1
  <2>3. CASE attached
    <3>1. L!TurnOff
      BY <1>p, <2>1, <2>2, <2>3 DEF L!TurnOff, L!On
    <3>2. QED BY <3>1 DEF L!Next
  <2>4. CASE ~attached
    <3>1. arm.left = 0
      BY <1>n, <2>4 DEF Promise
    <3>2. L!Answer
      BY <1>n, <1>p, <2>1, <2>2, <2>4, <3>1 DEF L!Answer, L!On
    <3>3. QED BY <3>2 DEF L!Next
  <2>5. QED BY <2>3, <2>4
<1>13. CASE UnloadRm(Deadman)
  <2>1. /\ pc[Deadman] = "rm" /\ pc'[c] = pc[c] /\ pc'[Deadman] = "disarm"
        /\ attached' = FALSE /\ arm'.left = 0
    BY <1>1, <1>3, <1>13, GotoMoves DEF UnloadRm, Detach, NoArm
  <2>2. arm.left = 0
    BY <1>n, <2>1 DEF Promise
  <2>3. asked' = asked /\ phase' = "removed"
    BY <1>1, <1>2, <2>1
  <2>4. CASE attached
    <3>1. L!TurnOff
      BY <1>p, <2>1, <2>2, <2>3, <2>4 DEF L!TurnOff, L!On
    <3>2. QED BY <3>1 DEF L!Next
  <2>5. CASE ~attached
    <3>1. L!Settle
      BY <1>n, <1>p, <2>1, <2>2, <2>3, <2>5 DEF L!Settle, L!On, L!Down
    <3>2. QED BY <3>1 DEF L!Next
  <2>6. QED BY <2>4, <2>5
<1>14. ASSUME NEW p \in Procs, Disarm(p)
       PROVE  [L!Next]_L!vars
  <2>1. UNCHANGED <<attached, arm>> /\ pc[p] = "disarm"
        /\ pc'[c] = IF p = c THEN "remove" ELSE pc[c]
    BY <1>1, <1>14 DEF Disarm, Goto, TypeOK, kernel, ghosts
  <2>2. QED BY <1>s, <2>1
<1>15. ASSUME NEW p \in Procs, RemoveState(p)
       PROVE  [L!Next]_L!vars
  <2>1. UNCHANGED <<attached, arm>> /\ pc[p] = "remove"
        /\ pc'[c] = IF p = c THEN "idle" ELSE pc[c]
    BY <1>1, <1>15, FinishMoves DEF RemoveState, kernel, ghosts
  <2>2. QED BY <1>s, <2>1
<1>16. CASE Fire \/ Logout
  <2>1. UNCHANGED <<attached, arm>> /\ pc'[c] = pc[c]
    BY <1>1, <1>16 DEF Fire, Logout, Goto, TypeOK, kernel, ghosts
  <2>2. QED BY <1>s, <2>1
<1>17. CASE Reboot
  <2>1. /\ attached' = FALSE /\ arm'.left = 0
        /\ \A p \in Procs : pc'[p] = "idle"
    BY <1>17 DEF Reboot, Detach, NoArm
  <2>2. L!PowerLoss
    BY <1>1, <1>2, <2>1 DEF L!PowerLoss
  <2>3. QED BY <2>2 DEF L!Next
<1>18. CASE Tick
  <2>1. /\ UNCHANGED <<attached, pc>>
        /\ arm'.left = IF arm.left > 0 THEN arm.left - 1 ELSE 0
    BY <1>18 DEF Tick, Pass, kernel, TypeOK, ArmType
  <2>2. asked' = asked /\ phase' = phase
    BY <2>1
  <2>3. CASE arm.left > 0
    <3>1. L!Tick
      BY <2>1, <2>2, <2>3 DEF L!Tick
    <3>2. QED BY <3>1 DEF L!Next
  <2>4. CASE ~(arm.left > 0)
    BY <1>n, <2>1, <2>2, <2>4 DEF L!vars
  <2>5. QED BY <2>3, <2>4
<1>19. CASE UNCHANGED vars
  <2>1. UNCHANGED <<attached, arm, pc>>
    BY <1>19 DEF vars
  <2>2. QED BY <1>s, <2>1
<1>20. QED
    BY <1>0, <1>1, <1>3, <1>4, <1>5, <1>6, <1>7, <1>8, <1>9, <1>10, <1>11, <1>12, <1>13,
       <1>14, <1>15, <1>16, <1>17, <1>18, <1>19
       DEF Next, Start, ClientStep, UnloadStep, Kill

\* The safety half of HeldOnLease: for an operator in one shell the commands,
\* the files, the unit and the deadman implement the lease, whatever happens to
\* the files, to systemd and to the session.
THEOREM ImplementsLease ==
    ASSUME Serial, RemovalsGoThrough PROVE Spec => L!SafeSpec
<1>1. Init => Promise /\ TermsOnly /\ L!Init
  <2> SUFFICES ASSUME Init PROVE Promise /\ TermsOnly /\ L!Init
    OBVIOUS
  <2>1. Promise
    BY DEF Init, Promise, NoArm
  <2>2. TermsOnly
    BY DEF Init, TermsOnly, NoJob, NoFile, Procs
  <2>3. /\ ~ \E c \in Clients : pc[c] = "rm"
        /\ ~ \E p \in Procs : pc[p] = "disarm"
    BY DEF Init, Procs
  <2>4. L!Init
    BY <2>3 DEF Init, NoArm, L!Init
  <2>5. QED BY <2>1, <2>2, <2>4
<1>2. TypeOK /\ Promise /\ TermsOnly /\ [Next]_vars => Promise' /\ TermsOnly'
    BY PromiseStep, TermsStep
<1>3. TypeOK /\ Promise /\ TermsOnly /\ [Next]_vars => [L!Next]_L!vars
    BY LeaseStep
<1>4. QED BY <1>1, <1>2, <1>3, TypeCorrect, PTL DEF Spec, L!SafeSpec

-----------------------------------------------------------------------------
(* The seconds of a status *)

AtWork == pc[Deadman] \in {"check", "rm"}

\* The numbers that a record is compared by.
LEMMA LeftNumbers ==
    ASSUME TypeOK, NEW p \in Procs
    PROVE  /\ timer.left \in Nat /\ timer.set \in BOOLEAN /\ job[p].ttl \in Nat
           /\ state.left \in Nat /\ state.ttl \in Nat /\ state.here \in BOOLEAN
           /\ tmp.left \in Nat /\ tmp.ttl \in Nat /\ arm.left \in Nat
BY JobFields DEF TypeOK, TimerType, FileType, ArmType

\* So many seconds are covered: neither a deadman at work, nor the timer, nor
\* what is left of the promise falls short of them.
Covers(seconds) ==
    /\ AtWork => seconds = 0
    /\ timer.set => seconds <= timer.left
    /\ arm.left > 0 => seconds <= arm.left

\* The record on its way to the new timer, and the end of an unload.
Carried(c) ==
    /\ pc[c] = "rename" => tmp.left <= job[c].ttl /\ tmp.ttl = job[c].ttl
    /\ pc[c] \in {"stop", "run"} => state.left <= job[c].ttl
    /\ pc[c] \in {"disarm", "remove"} => ~attached

\* Between commands that have all succeeded the record is one of this program.
Honest(c) ==
    attached /\ ~trouble /\ Idle(c) /\ state.here /\ state.ttl # 0 => Covers(state.left)

RecordInv == \A c \in Clients : Carried(c) /\ Honest(c)

\* What a status has said and can be relied on is covered.
Told ==
    said.sound => attached /\ Covers(said.left) /\ (said.at = "asked" => AtRest)

SaidType == [at : {"idle", "asked", "printed"}, left : Nat, sound : BOOLEAN]

SecondsInv == RecordInv /\ said \in SaidType /\ Told

Works ==
    \/ \E c \in Clients : Start(c) \/ ClientStep(c) \/ UnloadStep(c)
    \/ UnloadCheck(Deadman) \/ UnloadStep(Deadman)
    \/ \E p \in Procs : Kill(p)
    \/ Fire \/ Reboot \/ Logout

\* A step that brings no deadman nearer and makes no promise.
Eased ==
    /\ timer' \in {timer, NoTimer}
    /\ AtWork' => AtWork
    /\ arm'.left \in {arm.left, 0}

Fired == timer.set /\ timer.left = 0 /\ timer' = NoTimer /\ arm' = arm

\* A new timer, whose TTL is promised if there is a program.
Rearmed(ttl) ==
    /\ timer' = [set |-> TRUE, left |-> ttl]
    /\ ~AtWork'
    /\ attached' = attached
    /\ attached => arm'.left = ttl

\* Covers, after a step.
StillCovers(seconds) ==
    /\ AtWork' => seconds = 0
    /\ timer'.set => seconds <= timer'.left
    /\ arm'.left > 0 => seconds <= arm'.left

\* Every step but a second is of one of these kinds, for any number of shells.
LEMMA TimerMoves ==
    ASSUME TypeOK, Works \/ UNCHANGED vars
    PROVE  \/ Eased \/ Fired
           \/ \E c \in Clients : SystemdRun(c) /\ Rearmed(job[c].ttl)
<1> DEFINE Goal == \/ Eased \/ Fired
                   \/ \E c \in Clients : SystemdRun(c) /\ Rearmed(job[c].ttl)
<1>0. Deadman \in Procs /\ \A c \in Clients : c \in Procs /\ c # Deadman
  BY DeadmanAssumption DEF Procs
<1>1. NoArm.left = 0
  BY DEF NoArm
<1>s. ASSUME UNCHANGED <<timer, arm>>, pc'[Deadman] \in {pc[Deadman], "idle", "remove"}
      PROVE  Goal
  BY <1>s DEF Eased, AtWork
<1>2. ASSUME NEW c \in Clients, NEW profile \in Profiles, NEW audit \in BOOLEAN,
             NEW yes \in BOOLEAN, NEW tty \in BOOLEAN, NEW ttl \in TTLs,
             LoadBegin(c, profile, audit, yes, tty, ttl)
      PROVE  Goal
  BY <1>0, <1>2, <1>s, GotoMoves, FinishMoves DEF LoadBegin
<1>3. ASSUME NEW c \in Clients, NEW asked \in RenewTTLs, Renew(c, asked)
      PROVE  Goal
  BY <1>0, <1>3, <1>s, GotoMoves, FinishMoves DEF Renew
<1>4. ASSUME NEW p \in Procs, UnloadCheck(p) \/ UnloadRm(p)
      PROVE  Goal
  <2>1. UNCHANGED timer /\ arm'.left \in {arm.left, 0}
    BY <1>1, <1>4 DEF UnloadCheck, UnloadRm, ghosts, Detach
  <2>2. AtWork' => AtWork
    BY <1>0, <1>4, GotoMoves, FinishMoves DEF UnloadCheck, UnloadRm, AtWork
  <2> QED BY <2>1, <2>2 DEF Eased
<1>5. ASSUME NEW c \in Clients, LoadProg(c)
      PROVE  Goal
  <2>1. UNCHANGED timer /\ arm'.left \in {arm.left, 0}
    BY <1>5 DEF LoadProg
  <2>2. pc'[Deadman] = pc[Deadman]
    BY <1>0, <1>5, GotoMoves, FinishMoves DEF LoadProg
  <2> QED BY <2>1, <2>2 DEF Eased, AtWork
<1>6. ASSUME NEW c \in Clients,
             AllowlistAdd(c) \/ WriteMode(c) \/ WriteTmp(c) \/ Rename(c) \/ ArmStop(c)
      PROVE  Goal
  <2>1. UNCHANGED <<timer, arm>>
    BY <1>6 DEF AllowlistAdd, WriteMode, WriteTmp, Rename, ArmStop, ghosts
  <2>2. pc'[Deadman] \in {pc[Deadman], "idle"}
    BY <1>0, <1>6, GotoMoves, FinishMoves
       DEF AllowlistAdd, WriteMode, WriteTmp, Rename, ArmStop, TypeOK
  <2> QED BY <1>s, <2>1, <2>2
<1>7. ASSUME NEW c \in Clients, SystemdRun(c)
      PROVE  Goal
  <2>1. pc'[Deadman] = pc[Deadman] /\ attached' = attached
    BY <1>0, <1>7, FinishMoves DEF SystemdRun, kernel
  <2>2. CASE UNCHANGED <<timer, arm>>
    BY <1>s, <2>1, <2>2
  <2>3. CASE /\ UnitFree
             /\ timer' = [set |-> TRUE, left |-> job[c].ttl]
             /\ arm' = IF attached THEN [arm EXCEPT !.ttl = job[c].ttl, !.left = job[c].ttl]
                                   ELSE arm
    <3>1. attached => arm'.left = job[c].ttl
      BY <2>3 DEF TypeOK, ArmType
    <3>2. Rearmed(job[c].ttl)
      BY <2>1, <2>3, <3>1 DEF Rearmed, UnitFree, Idle, AtWork
    <3> QED BY <1>7, <3>2
  <2> QED BY <1>7, <2>2, <2>3 DEF SystemdRun
<1>8. ASSUME NEW p \in Procs, Disarm(p) \/ RemoveState(p) \/ Kill(p)
      PROVE  Goal
  <2>1. UNCHANGED <<timer, arm>>
    BY <1>8 DEF Disarm, RemoveState, Kill, ghosts
  <2>2. pc'[Deadman] \in {pc[Deadman], "idle", "remove"}
    BY <1>0, <1>8, GotoMoves, FinishMoves DEF Disarm, RemoveState, Kill, TypeOK
  <2> QED BY <1>s, <2>1, <2>2
<1>9. CASE Fire
  BY <1>9 DEF Fire, Fired, ghosts
<1>10. CASE Reboot \/ Logout
  <2>1. timer' = NoTimer /\ pc'[Deadman] = "idle" /\ arm'.left \in {arm.left, 0}
    BY <1>0, <1>1, <1>10 DEF Reboot, Logout, Detach, ghosts, TypeOK
  <2> QED BY <2>1 DEF Eased, AtWork
<1>11. CASE UNCHANGED vars
  BY <1>11, <1>s DEF vars
<1> QED
  BY <1>0, <1>2, <1>3, <1>4, <1>5, <1>6, <1>7, <1>8, <1>9, <1>10, <1>11
     DEF Works, Start, ClientStep, UnloadStep

\* What is covered stays so when no timer is started.
LEMMA CoveredOn ==
    ASSUME TypeOK, Eased \/ Fired, NEW n \in Nat, Covers(n)
    PROVE  StillCovers(n)
<1>1. timer.left \in Nat /\ arm.left \in Nat
  BY DEF TypeOK, TimerType, ArmType
<1> QED BY <1>1 DEF Eased, Fired, Covers, StillCovers, NoTimer

\* Under a new timer whatever is no longer than its TTL is covered.
LEMMA CoveredAnew ==
    ASSUME NEW ttl \in Nat, Rearmed(ttl), attached, NEW n \in Nat, n <= ttl
    PROVE  StillCovers(n)
BY DEF Rearmed, StillCovers

\* A second takes one from all of it.
LEMMA CoveredByTick ==
    ASSUME TypeOK, Tick, NEW n \in Nat, Covers(n)
    PROVE  StillCovers(IF n > 0 THEN n - 1 ELSE 0)
<1>1. /\ timer'.set = timer.set /\ pc' = pc
      /\ timer'.left = IF timer.left > 0 THEN timer.left - 1 ELSE 0
      /\ arm'.left = IF arm.left > 0 THEN arm.left - 1 ELSE 0
  BY DEF Tick, Pass, TypeOK, TimerType, ArmType
<1>2. timer.left \in Nat /\ arm.left \in Nat
  BY DEF TypeOK, TimerType, ArmType
<1> QED BY <1>1, <1>2 DEF Covers, StillCovers, AtWork

\* A step that leaves the record, or removes it, and does not end a command.
LEMMA RecordKept ==
    ASSUME TypeOK, NEW c \in Clients, Carried(c), Honest(c), Eased \/ Fired,
           state' \in {state, NoFile}, attached' => attached \/ ~Idle(c)',
           attached' /\ ~trouble' /\ Idle(c)' => ~trouble /\ Idle(c)
    PROVE  Honest(c)'
<1>1. state.left \in Nat /\ NoFile.here = FALSE
  BY DEF TypeOK, FileType, NoFile
<1>2. Covers(state.left) => StillCovers(state.left)
  BY <1>1, CoveredOn
<1> QED BY <1>1, <1>2 DEF Honest, Covers, StillCovers, AtWork, Idle

\* Every step of a command, the deadman or the machine keeps the record.
LEMMA RecordStep ==
    ASSUME Serial, TypeOK, RecordInv, [Next]_vars
    PROVE  RecordInv'
<1>0. SUFFICES ASSUME NEW c \in Clients PROVE Carried(c)' /\ Honest(c)'
  BY DEF RecordInv
<1>1. /\ Clients = {c} /\ c # Deadman /\ c \in Procs /\ Deadman \in Procs
      /\ Procs = {c, Deadman}
  BY OneShell DEF Procs
<1>2. Carried(c) /\ Honest(c)
  BY DEF RecordInv
<1>3. NoFile.left = 0 /\ NoFile.ttl = 0
  BY DEF NoFile
<1>n. /\ job[c].ttl \in Nat /\ state.left \in Nat /\ state.ttl \in Nat
      /\ tmp.left \in Nat /\ tmp.ttl \in Nat
  BY <1>1, LeftNumbers
<1> USE DEF Idle
\* The command ends in an error, or is killed.
<1>f. ASSUME Fail(c), attached' = attached
      PROVE  Carried(c)' /\ Honest(c)'
  <2>1. pc'[c] = "idle" /\ trouble' = attached
    BY <1>1, <1>f, FinishMoves DEF Fail
  <2> QED BY <1>f, <2>1 DEF Carried, Honest
\* It goes on with a step that asks nothing of the files.
<1>g. ASSUME pc'[c] \notin {"idle", "rename", "stop", "run", "disarm", "remove"}
      PROVE  Carried(c)' /\ Honest(c)'
  BY <1>g DEF Carried, Honest
\* The shell rests, or does nothing, while another step leaves the timer.
<1>o. ASSUME Eased \/ Fired, state' \in {state, NoFile}, tmp' = tmp, pc'[c] = pc[c],
             job'[c] = job[c], attached' => attached, attached' /\ ~trouble' => ~trouble
      PROVE  Carried(c)' /\ Honest(c)'
  <2>1. Carried(c)'
    BY <1>2, <1>3, <1>n, <1>o DEF Carried
  <2>2. Honest(c)'
    BY <1>2, <1>o, RecordKept
  <2> QED BY <2>1, <2>2
<1>5. ASSUME NEW profile \in Profiles, NEW audit \in BOOLEAN,
             NEW yes \in BOOLEAN, NEW tty \in BOOLEAN, NEW ttl \in TTLs,
             LoadBegin(c, profile, audit, yes, tty, ttl)
      PROVE  Carried(c)' /\ Honest(c)'
  <2>1. UNCHANGED <<attached, state, tmp, timer, arm>>
    BY <1>5 DEF LoadBegin, kernel, files
  <2>2. CASE UNCHANGED <<pc, job, trouble>>
    <3>1. Eased
      BY <2>1, <2>2 DEF Eased, AtWork
    <3> QED BY <1>o, <2>1, <2>2, <3>1
  <2>3. CASE Goto(c, "load_prog")
    BY <1>1, <1>g, <2>3, GotoMoves
  <2> QED BY <1>5, <1>f, <2>1, <2>2, <2>3 DEF LoadBegin
<1>6. ASSUME NEW asked \in RenewTTLs, Renew(c, asked)
      PROVE  Carried(c)' /\ Honest(c)'
  <2>1. attached' = attached
    BY <1>6 DEF Renew, kernel
  <2>2. CASE Goto(c, "write_tmp")
    BY <1>1, <1>g, <2>2, GotoMoves
  <2> QED BY <1>6, <1>f, <2>1, <2>2 DEF Renew
<1>7. CASE UnloadCheck(c)
  <2>1. UNCHANGED <<attached, state, tmp, timer, arm, trouble>> /\ pc[c] = "idle"
    BY <1>1, <1>7 DEF UnloadCheck, kernel, files, ghosts
  <2>2. CASE Goto(c, "rm")
    BY <1>1, <1>g, <2>2, GotoMoves
  <2>3. CASE Finish(c)
    <3>1. pc'[c] = "idle" /\ pc'[Deadman] = pc[Deadman]
      BY <1>1, <2>3, FinishMoves
    <3>2. Eased
      BY <2>1, <3>1 DEF Eased, AtWork
    <3>3. Honest(c)'
      BY <1>2, <2>1, <3>1, <3>2, RecordKept
    <3> QED BY <3>1, <3>3 DEF Carried
  <2> QED BY <1>7, <2>2, <2>3 DEF UnloadCheck
<1>8. CASE UnloadRm(c)
  <2>1. CASE Fail(c) /\ UNCHANGED <<kernel, arm>>
    BY <1>f, <2>1 DEF kernel
  <2>2. CASE Detach /\ Goto(c, "disarm")
    <3>1. pc'[c] = "disarm" /\ ~attached'
      BY <1>1, <2>2, GotoMoves DEF Detach
    <3> QED BY <3>1 DEF Carried, Honest
  <2> QED BY <1>8, <2>1, <2>2 DEF UnloadRm
<1>9. CASE Disarm(c) \/ RemoveState(c)
  <2>1. ~attached' /\ pc'[c] \in {"remove", "idle"}
    BY <1>1, <1>2, <1>9, GotoMoves, FinishMoves
       DEF Disarm, RemoveState, kernel, Carried, TypeOK
  <2> QED BY <2>1 DEF Carried, Honest
<1>10. CASE LoadProg(c)
  <2>1. CASE Fail(c) /\ UNCHANGED <<kernel, arm>>
    BY <1>f, <2>1 DEF kernel
  <2>2. CASE Goto(c, "populate")
    BY <1>1, <1>g, <2>2, GotoMoves
  <2> QED BY <1>10, <2>1, <2>2 DEF LoadProg
<1>11. CASE AllowlistAdd(c)
  <2>1. CASE Fail(c)
    BY <1>11, <1>f, <2>1 DEF AllowlistAdd
  <2>2. CASE UNCHANGED pc
    BY <1>11, <1>g, <2>2 DEF AllowlistAdd, Populating
  <2> QED BY <1>11, <2>1, <2>2 DEF AllowlistAdd
<1>12. CASE WriteMode(c)
  BY <1>1, <1>12, <1>g, GotoMoves DEF WriteMode
<1>13. CASE WriteTmp(c)
  <2>1. CASE Fail(c)
    BY <1>13, <1>f, <2>1 DEF WriteTmp, kernel
  <2>2. CASE /\ tmp' = [here |-> TRUE, ttl |-> job[c].ttl, left |-> job[c].ttl]
             /\ Goto(c, "rename") /\ UNCHANGED job
    <3>1. pc'[c] = "rename"
      BY <1>1, <2>2, GotoMoves
    <3> QED BY <1>n, <2>2, <3>1 DEF Carried, Honest
  <2> QED BY <1>13, <2>1, <2>2 DEF WriteTmp
<1>14. CASE Rename(c)
  <2>1. pc[c] = "rename" /\ attached' = attached
    BY <1>14 DEF Rename, kernel
  <2>2. CASE Fail(c)
    BY <1>f, <2>1, <2>2
  <2>3. CASE Finish(c) /\ ~NeedsWatchdog(c) /\ state' = tmp
    <3>1. pc'[c] = "idle"
      BY <1>1, <2>3, FinishMoves
    <3>2. state'.ttl = 0
      BY <1>2, <1>n, <2>1, <2>3 DEF Carried, NeedsWatchdog
    <3> QED BY <3>1, <3>2 DEF Carried, Honest
  <2>4. CASE Goto(c, "stop") /\ UNCHANGED job /\ state' = tmp
    <3>1. pc'[c] = "stop"
      BY <1>1, <2>4, GotoMoves
    <3> QED BY <1>2, <2>1, <2>4, <3>1 DEF Carried, Honest
  <2> QED BY <1>14, <2>2, <2>3, <2>4 DEF Rename
<1>15. CASE ArmStop(c)
  <2>1. /\ pc[c] = "stop" /\ pc'[c] = "run" /\ job'[c] = job[c] /\ state' = state
    BY <1>1, <1>15 DEF ArmStop, Goto, files, TypeOK
  <2> QED BY <1>2, <2>1 DEF Carried, Honest
<1>16. CASE SystemdRun(c)
  <2>1. pc[c] = "run" /\ state' = state /\ attached' = attached
    BY <1>16 DEF SystemdRun, files, kernel
  <2>2. CASE Fail(c)
    BY <1>f, <2>1, <2>2
  <2>3. CASE ~Fail(c)
    <3>1. /\ UnitFree /\ timer' = [set |-> TRUE, left |-> job[c].ttl] /\ Finish(c)
          /\ arm' = IF attached THEN [arm EXCEPT !.ttl = job[c].ttl, !.left = job[c].ttl]
                                ELSE arm
      BY <1>16, <2>3 DEF SystemdRun
    <3>2. pc'[c] = "idle" /\ pc'[Deadman] = pc[Deadman]
      BY <1>1, <3>1, FinishMoves
    <3>3. attached => arm'.left = job[c].ttl
      BY <3>1 DEF TypeOK, ArmType
    <3>4. Rearmed(job[c].ttl)
      BY <2>1, <3>1, <3>2, <3>3 DEF Rearmed, UnitFree, AtWork
    <3>5. attached => StillCovers(state.left)
      BY <1>2, <1>n, <2>1, <3>4, CoveredAnew DEF Carried
    <3> QED BY <2>1, <3>2, <3>5 DEF Carried, Honest, Covers, StillCovers, AtWork
  <2> QED BY <2>2, <2>3
<1>17. CASE Kill(c)
  BY <1>17, <1>f DEF Kill, kernel
<1>18. CASE UnloadCheck(Deadman) \/ Disarm(Deadman) \/ RemoveState(Deadman) \/ Fire \/ Logout
  <2>1. Eased \/ Fired
    <3>1. CASE Fire
      BY <3>1 DEF Fire, Fired, ghosts
    <3>2. CASE Logout
      BY <1>1, <3>2 DEF Logout, Eased, AtWork, ghosts, TypeOK
    <3>3. CASE UnloadCheck(Deadman) \/ Disarm(Deadman) \/ RemoveState(Deadman)
      <4>1. UNCHANGED <<timer, arm>>
        BY <3>3 DEF UnloadCheck, Disarm, RemoveState, ghosts
      <4>2. UnloadCheck(Deadman) => AtWork
        BY <1>1 DEF UnloadCheck, AtWork
      <4>3. Disarm(Deadman) \/ RemoveState(Deadman) => pc'[Deadman] \in {"idle", "remove"}
        BY <1>1, GotoMoves, FinishMoves DEF Disarm, RemoveState, TypeOK
      <4>4. AtWork' => AtWork
        BY <3>3, <4>2, <4>3 DEF AtWork
      <4> QED BY <4>1, <4>4 DEF Eased
    <3> QED BY <1>18, <3>1, <3>2, <3>3
  <2>2. /\ state' \in {state, NoFile} /\ UNCHANGED <<tmp, attached, trouble>>
    BY <1>18 DEF UnloadCheck, Disarm, RemoveState, Fire, Logout, kernel, files, ghosts
  <2>3. pc'[c] = pc[c] /\ job'[c] = job[c]
    <3>1. CASE UnloadCheck(Deadman)
      BY <1>1, <3>1, GotoMoves, FinishMoves DEF UnloadCheck, TypeOK
    <3>2. CASE Disarm(Deadman) \/ RemoveState(Deadman)
      BY <1>1, <3>2, GotoMoves, FinishMoves DEF Disarm, RemoveState, TypeOK
    <3>3. CASE Fire \/ Logout
      BY <1>1, <3>3, GotoMoves DEF Fire, Logout, TypeOK
    <3> QED BY <1>18, <3>1, <3>2, <3>3
  <2> QED BY <1>o, <2>1, <2>2, <2>3
<1>19. CASE UnloadRm(Deadman) \/ Kill(Deadman)
  <2>1. CASE Detach /\ Goto(Deadman, "disarm") /\ UNCHANGED job
    <3>1. ~attached' /\ pc'[c] = pc[c] /\ job'[c] = job[c]
      BY <1>1, <2>1, GotoMoves DEF Detach
    <3>2. UNCHANGED <<state, tmp>>
      BY <1>19, <1>1, <2>1, GotoMoves, FinishMoves DEF UnloadRm, Kill, files
    <3> QED BY <1>2, <3>1, <3>2 DEF Carried, Honest
  <2>2. CASE Fail(Deadman) /\ UNCHANGED <<kernel, arm>>
    <3>1. /\ pc'[c] = pc[c] /\ job'[c] = job[c] /\ trouble' = attached /\ attached' = attached
      BY <1>1, <2>2, FinishMoves DEF Fail, kernel
    <3>2. UNCHANGED <<state, tmp>>
      BY <1>19 DEF UnloadRm, Kill, files
    <3> QED BY <1>2, <3>1, <3>2 DEF Carried, Honest
  <2> QED BY <1>19, <2>1, <2>2 DEF UnloadRm, Kill
<1>20. CASE Reboot
  <2>1. ~attached' /\ pc'[c] = "idle"
    BY <1>1, <1>20 DEF Reboot, Detach
  <2> QED BY <2>1 DEF Carried, Honest
<1>21. CASE Tick
  <2>1. /\ state'.here = state.here /\ state'.ttl = state.ttl /\ tmp'.ttl = tmp.ttl
        /\ state'.left = IF state.left > 0 THEN state.left - 1 ELSE 0
        /\ tmp'.left = IF tmp.left > 0 THEN tmp.left - 1 ELSE 0
        /\ UNCHANGED <<pc, job, attached, trouble>>
    BY <1>21 DEF Tick, Pass, TypeOK, FileType, kernel
  <2>2. Carried(c)'
    BY <1>2, <1>n, <2>1 DEF Carried
  <2>3. Covers(state.left) => StillCovers(state'.left)
    BY <1>21, <1>n, <2>1, CoveredByTick
  <2>4. Honest(c)'
    BY <1>2, <2>1, <2>3 DEF Honest, Covers, StillCovers, AtWork
  <2> QED BY <2>2, <2>4
<1>22. CASE UNCHANGED vars
  BY <1>2, <1>22 DEF vars, Carried, Honest, Covers, AtWork
<1> QED
  BY <1>1, <1>5, <1>6, <1>7, <1>8, <1>9, <1>10, <1>11, <1>12, <1>13, <1>14, <1>15, <1>16,
     <1>17, <1>18, <1>19, <1>20, <1>21, <1>22 DEF Next, Start, ClientStep, UnloadStep

\* What a status does, and what is left of it while others go on.
LEMMA ToldStep ==
    ASSUME Serial, TypeOK, SecondsInv, [SNext]_svars
    PROVE  said' \in SaidType /\ Told'
<1> USE DEF SaidType
<1>1. PICK c \in Clients : Clients = {c}
  BY DEF Serial
<1>2. Honest(c) /\ Told /\ said \in SaidType
  BY DEF SecondsInv, RecordInv
<1>3. state.left \in Nat /\ state.ttl \in Nat
  BY DEF TypeOK, FileType
<1>4. NoReport.left = 0 /\ NoReport.sound = FALSE /\ NoReport \in SaidType
  BY DEF NoReport
<1>5. CASE Commands
  <2>1. Works
    BY <1>5 DEF Commands, Works
  <2>2. CASE said' = NoReport
    BY <1>4, <2>2 DEF Told
  <2>3. CASE said' # NoReport
    <3>1. /\ attached' /\ arm' = arm
          /\ said' = [said EXCEPT !.sound = @ /\ (said.at = "asked" => AtRest')]
      BY <1>5, <2>3 DEF Commands
    <3>2. /\ said' \in SaidType /\ said'.left = said.left /\ said'.at = said.at
          /\ said'.sound <=> said.sound /\ (said.at = "asked" => AtRest')
      BY <1>2, <3>1
    <3>3. CASE said.sound
      <4>1. attached /\ Covers(said.left)
        BY <1>2, <3>3 DEF Told
      <4>2. StillCovers(said.left)
        <5>1. CASE Eased \/ Fired
          BY <1>2, <4>1, <5>1, CoveredOn
        <5>2. ASSUME NEW d \in Clients, SystemdRun(d), Rearmed(job[d].ttl)
              PROVE  StillCovers(said.left)
          <6>1. d \in Procs
            BY DEF Procs
          <6>2. job[d].ttl \in Nat /\ job[d].ttl > 0
            BY <5>2, <6>1, JobFields DEF SystemdRun, TypeOK, ArgumentsOK
          <6>3. arm.left = job[d].ttl
            BY <3>1, <4>1, <5>2 DEF Rearmed
          <6>4. said.left <= job[d].ttl
            BY <4>1, <6>2, <6>3 DEF Covers
          <6> QED BY <1>2, <4>1, <5>2, <6>2, <6>4, CoveredAnew
        <5> QED BY <2>1, <5>1, <5>2, TimerMoves
      <4> QED BY <3>1, <3>2, <4>2 DEF Told, Covers, StillCovers, AtWork
    <3>4. CASE ~said.sound
      BY <3>2, <3>4 DEF Told
    <3> QED BY <3>3, <3>4
  <2> QED BY <2>2, <2>3
<1>6. CASE Second
  <2>1. /\ said' \in SaidType /\ said'.at = said.at /\ said'.sound = said.sound
        /\ said'.left = IF said.left > 0 THEN said.left - 1 ELSE 0
    BY <1>2, <1>6 DEF Second, Pass
  <2>2. Tick /\ attached' = attached /\ pc' = pc
    BY <1>6 DEF Second, Tick, kernel
  <2>3. Covers(said.left) => StillCovers(said'.left)
    BY <1>2, <2>1, <2>2, CoveredByTick
  <2> QED BY <1>2, <2>1, <2>2, <2>3 DEF Told, Covers, StillCovers, AtWork, AtRest, Idle
<1>7. CASE StatusBegin
  <2>1. said' \in SaidType /\ said'.left = 0 /\ said'.at = "asked" /\ (said'.sound <=> AtRest)
    BY <1>4, <1>7 DEF StatusBegin, NoReport, AtRest
  <2>2. UNCHANGED vars /\ attached
    BY <1>7 DEF StatusBegin, SaysLoaded, TypeOK
  <2>3. timer.left \in Nat /\ arm.left \in Nat
    BY DEF TypeOK, TimerType, ArmType
  <2> QED BY <2>1, <2>2, <2>3 DEF Told, Covers, AtWork, AtRest, Idle, vars
<1>8. CASE ReadRecord
  <2>1. /\ said' = [said EXCEPT !.at = "printed", !.left = ttl_remaining,
                                !.sound = @ /\ ~trouble]
        /\ UNCHANGED vars /\ said.at = "asked"
    BY <1>8 DEF ReadRecord
  <2>2. ttl_remaining \in Nat /\ trouble \in BOOLEAN
    BY <1>3 DEF ttl_remaining, TypeOK
  <2>3. /\ said' \in SaidType /\ said'.left = ttl_remaining /\ said'.at = "printed"
        /\ said'.sound <=> said.sound /\ ~trouble
    BY <1>2, <2>1, <2>2
  <2>4. said.sound /\ ~trouble => attached /\ Covers(ttl_remaining)
    <3>1. timer.left \in Nat /\ arm.left \in Nat
      BY DEF TypeOK, TimerType, ArmType
    <3> QED BY <1>2, <2>1, <3>1 DEF Told, Honest, AtRest, ttl_remaining, Covers
  <2> QED BY <2>1, <2>3, <2>4 DEF Told, Covers, AtWork, vars
<1>9. CASE UNCHANGED svars
  BY <1>2, <1>9 DEF svars, vars, Told, Covers, AtWork, AtRest, Idle
<1> QED BY <1>5, <1>6, <1>7, <1>8, <1>9 DEF SNext

\* What a status looks at is the control plane's own behaviour.
LEMMA ReportOnlyLooks == SSpec => Spec
<1>1. SInit => Init
  BY DEF SInit
<1>2. [SNext]_svars => [Next]_vars
  <2>1. Logout => \E fault \in Faults \cap {"logout"} : Logout
    BY DEF Logout, May
  <2> QED BY <2>1 DEF SNext, Commands, Second, Next, StatusBegin, ReadRecord, svars
<1> QED BY <1>1, <1>2, PTL DEF SSpec, Spec

\* cmd_status: for an operator in one shell, and whatever fails, is killed or
\* ends, the seconds are kept that a status reports which ran beside no command
\* and after none that failed since the attach: the deadman does not take the
\* program away before they are over.
THEOREM SecondsHold ==
    ASSUME Serial PROVE SSpec => []SecondsAreKept
<1>1. SInit => SecondsInv
  <2> SUFFICES ASSUME SInit PROVE SecondsInv
    OBVIOUS
  <2>1. Init /\ said = NoReport
    BY DEF SInit
  <2>2. said.sound = FALSE /\ said \in SaidType
    BY <2>1 DEF NoReport, SaidType
  <2>3. ~attached /\ \A c \in Clients : pc[c] = "idle"
    BY <2>1 DEF Init, Procs
  <2> QED BY <2>2, <2>3 DEF SecondsInv, RecordInv, Carried, Honest, Told
<1>2. TypeOK /\ SecondsInv /\ [Next]_vars /\ [SNext]_svars => SecondsInv'
  BY RecordStep, ToldStep DEF SecondsInv
<1>3. SecondsInv => SecondsAreKept
  BY DEF SecondsInv, Told, Covers, SecondsAreKept, AtWork
<1> QED BY <1>1, <1>2, <1>3, ReportOnlyLooks, TypeCorrect, PTL DEF Spec, SSpec
=============================================================================
