--------------------------- MODULE OpenHookProofs ---------------------------
(***************************************************************************)
(* Theorems about the write-open hook, for any number of tasks and CPUs,   *)
(* any paths and profiles: its types, its counters, that what it decides   *)
(* beside a load that is still adding prefixes is what policy.rs says, and *)
(* that a status loses no open between its counters.                       *)
(***************************************************************************)
EXTENDS StatusRead, PrefixMatchProofs, FiniteSetTheorems, SequenceTheorems

-----------------------------------------------------------------------------
(* Types *)

Labels == {"idle", "resolve", "walk", "copy", "lookup", "done", "denied"}
Rets   == {"none", "ok", "EPERM"}

HookType == [pc : Labels, path : Paths \cup {<<>>}, i : 0..MaxPrefix + 1, ret : Rets,
             saw : SUBSET Seq(Chars), then : {"audit", "enforce"}]
KeyType == {k \in [len : 0..MaxPrefix, data : Seq(Chars)] : Len(k.data) <= MaxPrefix}
StatsType == [checked : Nat, allowed : Nat, denied : Nat]

Walking(t) == hook[t].pc \in {"walk", "copy", "lookup"}

\* Where the walk of a task stands on its path.
OnPath(t) ==
    /\ hook[t].pc # "idle" => Path(t) \in Paths
    /\ Walking(t) => DPathFits(Path(t)) /\ hook[t].i >= 1
    /\ hook[t].pc \in {"copy", "lookup"} =>
           hook[t].i \in 1..WalkEnd(Path(t)) /\ Boundary(Path(t), hook[t].i)

Shape ==
    /\ loaded \in BOOLEAN
    /\ request \in [profile : Profiles \cup {{}}, audit : BOOLEAN]
    /\ mode \in {"audit", "enforce"}
    /\ allowlist \subseteq request.profile
    /\ stats \in StatsType
    /\ scratch \in [Cpus -> KeyType]
    /\ hook \in [Tasks -> HookType]
    /\ \A t \in Tasks : OnPath(t)

\* A step of another task leaves a task where it stands.
LEMMA OthersStay ==
    ASSUME NEW t \in Tasks, OnPath(t), hook'[t] = hook[t]
    PROVE  OnPath(t)'
BY DEF OnPath, Walking, Path

\* Task t's record becomes h.
Goes(t, h) == hook' = [hook EXCEPT ![t] = h]

LEMMA HookGoes ==
    ASSUME hook \in [Tasks -> HookType], NEW t \in Tasks, NEW h \in HookType, Goes(t, h)
    PROVE  /\ hook'[t] = h
           /\ hook' \in [Tasks -> HookType]
           /\ \A s \in Tasks \ {t} : hook'[s] = hook[s]
BY DEF Goes

\* The records that the hook's assignments make of a record.
Moved(h, pc, i)     == [h EXCEPT !.pc = pc, !.i = i]
Returned(h, pc, ret) == [h EXCEPT !.pc = pc, !.ret = ret]

LEMMA RecordGoes ==
    ASSUME NEW h \in HookType, NEW pc \in Labels, NEW i \in 0..MaxPrefix + 1, NEW ret \in Rets
    PROVE  /\ Moved(h, pc, i) \in HookType
           /\ Moved(h, pc, i).pc = pc /\ Moved(h, pc, i).i = i
           /\ Moved(h, pc, i).path = h.path /\ Moved(h, pc, i).ret = h.ret
           /\ Moved(h, pc, i).saw = h.saw /\ Moved(h, pc, i).then = h.then
           /\ Returned(h, pc, ret) \in HookType
           /\ Returned(h, pc, ret).pc = pc /\ Returned(h, pc, ret).i = h.i
           /\ Returned(h, pc, ret).path = h.path /\ Returned(h, pc, ret).ret = ret
           /\ Returned(h, pc, ret).saw = h.saw /\ Returned(h, pc, ret).then = h.then
BY DEF HookType, Moved, Returned

\* The record of an open that begins.
Opened(h, path) == [h EXCEPT !.pc = "resolve", !.path = path,
                             !.saw = allowlist, !.then = mode]

LEMMA OpenedGoes ==
    ASSUME NEW h \in HookType, NEW path \in Paths,
           allowlist \in SUBSET Seq(Chars), mode \in {"audit", "enforce"}
    PROVE  /\ Opened(h, path) \in HookType
           /\ Opened(h, path).pc = "resolve" /\ Opened(h, path).path = path
           /\ Opened(h, path).saw = allowlist /\ Opened(h, path).then = mode
           /\ Opened(h, path).ret = h.ret /\ Opened(h, path).i = h.i
<1>1. "resolve" \in Labels
  BY DEF Labels
<1> QED  BY <1>1 DEF HookType, Opened

\* The walk ends where a key does.
LEMMA WalkEndBound ==
    ASSUME NEW path \in Paths
    PROVE  WalkEnd(path) \in 1..MaxPrefix
BY PathsAssumption, MaxPrefixAssumption DEF WalkEnd, PathLen

\* A candidate key fits into its slot.
LEMMA CandidateFits ==
    ASSUME NEW path \in Paths, DPathFits(path), NEW i \in 1..WalkEnd(path)
    PROVE  Candidate(path, i) \in KeyType
<1>1. path \in Seq(Chars) /\ Len(path) \in Nat /\ Len(path) <= MaxPrefix
  BY PathsAssumption, MaxPrefixAssumption DEF DPathFits
<1>2. i \in 1..MaxPrefix
  BY WalkEndBound, MaxPrefixAssumption
<1>3. CASE i <= Len(path)
  <2>1. SubSeq(path, 1, i) \in Seq(Chars) /\ Len(SubSeq(path, 1, i)) = i
    BY <1>1, <1>2, <1>3
  <2> QED  BY <1>2, <1>3, <2>1, MaxPrefixAssumption DEF Candidate, KeyType
<1>4. CASE ~(i <= Len(path))
  BY <1>1, <1>2, <1>4, MaxPrefixAssumption DEF Candidate, KeyType
<1> QED  BY <1>3, <1>4

\* What a load, an unload and an open put down is well typed.
LEMMA Blanks ==
    /\ NoHook \in HookType /\ NoHook.pc = "idle"
    /\ NoKey \in KeyType
    /\ NoCounts \in StatsType
<1>1. NoHook \in HookType /\ NoHook.pc = "idle"
  BY MaxPrefixAssumption DEF NoHook, HookType, Labels, Rets
<1>2. NoKey \in KeyType
  BY MaxPrefixAssumption DEF NoKey, KeyType
<1>3. NoCounts \in StatsType
  BY DEF NoCounts, StatsType
<1> QED  BY <1>1, <1>2, <1>3

LEMMA ShapeInit ==
    ASSUME Init PROVE Shape
BY Blanks DEF Init, Shape, OnPath, NoRequest, Walking

\* Every action keeps the types, and every walk on its path.
LEMMA ShapeStep ==
    ASSUME Shape, [Next]_vars
    PROVE  Shape'
<1>1. ASSUME NEW profile \in Profiles, NEW audit \in BOOLEAN, Load(profile, audit)
      PROVE  Shape'
  BY <1>1, Blanks DEF Load, Shape, OnPath, Walking
<1>2. ASSUME NEW prefix \in request.profile, AllowlistAdd(prefix)
      PROVE  Shape'
  BY <1>2, OthersStay DEF AllowlistAdd, Shape, control
<1>3. CASE WriteMode
  BY <1>3, OthersStay DEF WriteMode, Shape, control
<1>4. CASE Unload
  BY <1>4, Blanks DEF Unload, Shape, OnPath, Walking, NoRequest
<1>5. ASSUME NEW t \in Tasks, NEW path \in Paths, Open(t, path)
      PROVE  Shape'
  <2>1. allowlist \in SUBSET Seq(Chars)
    BY PathsAssumption DEF Shape
  <2> DEFINE h == Opened(NoHook, path)
  <2>2. h \in HookType /\ h.pc = "resolve" /\ h.path \in Paths
    BY <2>1, Blanks, OpenedGoes DEF Shape
  <2>4. Goes(t, h)
    BY <1>5 DEF Open, Goes, Opened
  <2>5. /\ hook'[t] = h /\ hook' \in [Tasks -> HookType]
        /\ \A s \in Tasks \ {t} : hook'[s] = hook[s]
    <3> HIDE DEF h
    <3> QED  BY <2>2, <2>4, HookGoes DEF Shape
  <2>3. stats' \in StatsType
    BY <1>5 DEF Open, Bump, Shape, StatsType
  <2>a. OnPath(t)'
    <3> HIDE DEF h
    <3> QED  BY <2>2, <2>5 DEF OnPath, Walking, Path
  <2>6. \A s \in Tasks : OnPath(s)'
    <3> HIDE DEF h
    <3> QED  BY <2>5, <2>a, OthersStay DEF Shape
  <2> QED  BY <1>5, <2>3, <2>5, <2>6 DEF Open, Shape, control
<1>h. ASSUME NEW t \in Tasks  PROVE  hook[t] \in HookType /\ OnPath(t)
  BY DEF Shape
<1>b. ASSUME NEW counter \in {"allowed", "denied"}, Bump(counter)  PROVE  stats' \in StatsType
  BY <1>b DEF Bump, Shape, StatsType
<1>g. ASSUME NEW t \in Tasks, NEW h \in HookType, Goes(t, h), OnPath(t)'
      PROVE  hook' \in [Tasks -> HookType] /\ \A s \in Tasks : OnPath(s)'
  BY <1>g, HookGoes, OthersStay DEF Shape
\* A run of the hook that is over stays on its path.
<1>e. ASSUME NEW t \in Tasks, hook[t].pc # "idle",
             NEW pc \in {"done", "denied"}, NEW ret \in Rets,
             Goes(t, Returned(hook[t], pc, ret))
      PROVE  hook' \in [Tasks -> HookType] /\ \A s \in Tasks : OnPath(s)'
  <2>1. hook[t] \in HookType /\ pc \in Labels /\ hook[t].i \in 0..MaxPrefix + 1
    BY <1>h DEF Labels, HookType
  <2>2. hook'[t].pc = pc /\ hook'[t].path = hook[t].path
    BY <1>e, <2>1, RecordGoes, HookGoes DEF Shape
  <2>3. OnPath(t)'
    BY <1>e, <1>h, <2>2 DEF OnPath, Walking, Path
  <2>4. Returned(hook[t], pc, ret) \in HookType
    BY <2>1, RecordGoes
  <2> QED  BY <1>e, <1>g, <2>3, <2>4
<1>6. ASSUME NEW t \in Tasks, Resolve(t)
      PROVE  Shape'
  <2>1. CASE Bump("allowed") /\ Return(t, "ok") /\ UNCHANGED scratch
    <3>1. Goes(t, Returned(hook[t], "done", "ok"))
      BY <2>1 DEF Return, Goes, Returned, Shape
    <3>2. hook' \in [Tasks -> HookType] /\ \A s \in Tasks : OnPath(s)'
      BY <1>e, <1>6, <3>1 DEF Resolve, Rets
    <3> QED  BY <1>6, <1>b, <2>1, <3>2 DEF Resolve, Shape, control
  <2>2. CASE /\ DPathFits(Path(t))
             /\ scratch' = [scratch EXCEPT ![CpuOf[t]] = NoKey]
             /\ hook' = [hook EXCEPT ![t].pc = "walk", ![t].i = 1]
             /\ UNCHANGED stats
    <3>1. Goes(t, Moved(hook[t], "walk", 1))
      BY <2>2 DEF Goes, Moved, Shape
    <3>2. 1 \in 0..MaxPrefix + 1 /\ "walk" \in Labels
      BY MaxPrefixAssumption DEF Labels
    <3>3. /\ Moved(hook[t], "walk", 1) \in HookType
          /\ hook'[t].pc = "walk" /\ hook'[t].path = hook[t].path /\ hook'[t].i = 1
      BY <1>h, <3>1, <3>2, RecordGoes, HookGoes DEF Shape, Rets
    <3>4. OnPath(t)'
      BY <1>6, <1>h, <2>2, <3>3 DEF Resolve, OnPath, Walking, Path
    <3>5. hook' \in [Tasks -> HookType] /\ \A s \in Tasks : OnPath(s)'
      BY <1>g, <3>1, <3>3, <3>4
    <3>6. scratch' \in [Cpus -> KeyType]
      BY <2>2, Blanks DEF Shape
    <3> QED  BY <1>6, <2>2, <3>5, <3>6 DEF Resolve, Shape, control
  <2> QED  BY <1>6, <2>1, <2>2 DEF Resolve
<1>7. ASSUME NEW t \in Tasks, NextCandidate(t)
      PROVE  Shape'
  <2>1. PICK i \in Ahead(t) :
            /\ scratch' = [scratch EXCEPT ![CpuOf[t]].len = i]
            /\ hook' = [hook EXCEPT ![t].pc = "copy", ![t].i = i]
    BY <1>7 DEF NextCandidate
  <2>2. Path(t) \in Paths /\ hook[t].i >= 1 /\ hook[t].i \in Nat /\ DPathFits(Path(t))
    BY <1>7, <1>h, MaxPrefixAssumption DEF NextCandidate, OnPath, Walking, HookType
  <2>3. i \in 1..WalkEnd(Path(t)) /\ Boundary(Path(t), i)
    BY <2>1, <2>2, WalkEndBound, MaxPrefixAssumption DEF Ahead
  <2>4. i \in 1..MaxPrefix /\ i \in 0..MaxPrefix + 1 /\ "copy" \in Labels
    BY <2>2, <2>3, WalkEndBound, MaxPrefixAssumption DEF Labels
  <2>5. Goes(t, Moved(hook[t], "copy", i))
    BY <2>1 DEF Goes, Moved, Shape
  <2>6. /\ Moved(hook[t], "copy", i) \in HookType
        /\ hook'[t].pc = "copy" /\ hook'[t].path = hook[t].path /\ hook'[t].i = i
    BY <1>h, <2>4, <2>5, RecordGoes, HookGoes DEF Shape, Rets
  <2>7. OnPath(t)'
    BY <2>2, <2>3, <2>4, <2>6 DEF OnPath, Walking, Path
  <2>8. hook' \in [Tasks -> HookType] /\ \A s \in Tasks : OnPath(s)'
    BY <1>g, <2>5, <2>6, <2>7
  <2>9. scratch' \in [Cpus -> KeyType]
    <3>1. scratch[CpuOf[t]] \in KeyType
      BY TasksAssumption DEF Shape
    <3>2. [scratch[CpuOf[t]] EXCEPT !.len = i] \in KeyType
      BY <3>1, <2>4, MaxPrefixAssumption DEF KeyType
    <3>3. scratch' = [scratch EXCEPT ![CpuOf[t]] = [scratch[CpuOf[t]] EXCEPT !.len = i]]
      BY <2>1
    <3> QED  BY <3>2, <3>3 DEF Shape
  <2> QED  BY <1>7, <2>8, <2>9 DEF NextCandidate, Shape, control
<1>8. ASSUME NEW t \in Tasks, CopyPath(t)
      PROVE  Shape'
  <2>1. /\ Path(t) \in Paths /\ DPathFits(Path(t))
        /\ hook[t].i \in 1..WalkEnd(Path(t)) /\ Boundary(Path(t), hook[t].i)
        /\ hook[t].i \in 0..MaxPrefix + 1 /\ hook[t].i >= 1
    BY <1>8, <1>h DEF CopyPath, OnPath, Walking, HookType
  <2>2. Candidate(Path(t), hook[t].i) \in KeyType
    BY <2>1, CandidateFits
  <2>3. scratch' \in [Cpus -> KeyType]
    <3>1. scratch[CpuOf[t]] \in KeyType
      BY TasksAssumption DEF Shape
    <3>2. [scratch[CpuOf[t]] EXCEPT !.data = Candidate(Path(t), hook[t].i).data] \in KeyType
      BY <3>1, <2>2 DEF KeyType
    <3> QED  BY <1>8, <3>2 DEF CopyPath, Shape
  <2>4. Goes(t, Moved(hook[t], "lookup", hook[t].i))
    <3>1. [hook[t] EXCEPT !.pc = "lookup"] = [hook[t] EXCEPT !.pc = "lookup", !.i = hook[t].i]
      BY <1>h DEF HookType
    <3> QED  BY <1>8, <3>1 DEF CopyPath, Goes, Moved
  <2>5. /\ Moved(hook[t], "lookup", hook[t].i) \in HookType
        /\ hook'[t].pc = "lookup" /\ hook'[t].path = hook[t].path /\ hook'[t].i = hook[t].i
    BY <1>h, <2>1, <2>4, RecordGoes, HookGoes DEF Shape, Rets, Labels
  <2>6. OnPath(t)'
    BY <2>1, <2>5 DEF OnPath, Walking, Path
  <2>7. hook' \in [Tasks -> HookType] /\ \A s \in Tasks : OnPath(s)'
    BY <1>g, <2>4, <2>5, <2>6
  <2> QED  BY <1>8, <2>3, <2>7 DEF CopyPath, Shape, control
<1>9. ASSUME NEW t \in Tasks, Lookup(t)
      PROVE  Shape'
  <2>1. CASE Bump("allowed") /\ Return(t, "ok")
    <3>1. Goes(t, Returned(hook[t], "done", "ok"))
      BY <2>1 DEF Return, Goes, Returned, Shape
    <3>2. hook' \in [Tasks -> HookType] /\ \A s \in Tasks : OnPath(s)'
      BY <1>e, <1>9, <3>1 DEF Lookup, Rets
    <3> QED  BY <1>9, <1>b, <2>1, <3>2 DEF Lookup, Shape, control
  <2>2. CASE /\ hook' = [hook EXCEPT ![t].pc = "walk", ![t].i = @ + 1]
             /\ UNCHANGED stats
    <3>1. Path(t) \in Paths /\ hook[t].i \in 1..WalkEnd(Path(t)) /\ DPathFits(Path(t))
      BY <1>9, <1>h DEF Lookup, OnPath, Walking
    <3>2. hook[t].i + 1 \in 0..MaxPrefix + 1 /\ hook[t].i + 1 >= 1 /\ "walk" \in Labels
      BY <3>1, WalkEndBound, MaxPrefixAssumption DEF Labels
    <3>3. Goes(t, Moved(hook[t], "walk", hook[t].i + 1))
      BY <2>2, <1>h DEF Goes, Moved, Shape, HookType
    <3>4. /\ Moved(hook[t], "walk", hook[t].i + 1) \in HookType
          /\ hook'[t].pc = "walk" /\ hook'[t].path = hook[t].path
          /\ hook'[t].i = hook[t].i + 1
      BY <1>h, <3>2, <3>3, RecordGoes, HookGoes DEF Shape, Rets
    <3>5. OnPath(t)'
      BY <3>1, <3>2, <3>4 DEF OnPath, Walking, Path
    <3>6. hook' \in [Tasks -> HookType] /\ \A s \in Tasks : OnPath(s)'
      BY <1>g, <3>3, <3>4, <3>5
    <3> QED  BY <1>9, <2>2, <3>6 DEF Lookup, Shape, control
  <2> QED  BY <1>9, <2>1, <2>2 DEF Lookup
<1>10. ASSUME NEW t \in Tasks, Deny(t)
       PROVE  Shape'
  <2>1. Goes(t, Returned(hook[t], "denied", hook[t].ret))
    <3>1. [hook[t] EXCEPT !.pc = "denied"] = [hook[t] EXCEPT !.pc = "denied", !.ret = hook[t].ret]
      BY <1>h DEF HookType
    <3> QED  BY <1>10, <3>1 DEF Deny, Goes, Returned
  <2>2. hook' \in [Tasks -> HookType] /\ \A s \in Tasks : OnPath(s)'
    BY <1>e, <1>h, <1>10, <2>1 DEF Deny, HookType
  <2> QED  BY <1>10, <1>b, <2>2 DEF Deny, CountDenial, Shape, control
<1>11. ASSUME NEW t \in Tasks, ReadMode(t)
       PROVE  Shape'
  <2>1. Goes(t, Returned(hook[t], "done", DenialInThisMode))
    BY <1>11 DEF ReadMode, Return, Goes, Returned, Shape
  <2>2. hook' \in [Tasks -> HookType] /\ \A s \in Tasks : OnPath(s)'
    BY <1>e, <1>11, <2>1 DEF ReadMode, DenialInThisMode, Rets
  <2> QED  BY <1>11, <2>2 DEF ReadMode, Shape, control
<1>12. CASE UNCHANGED vars
  BY <1>12, OthersStay DEF vars, Shape
<1> QED
  BY <1>1, <1>2, <1>3, <1>4, <1>5, <1>6, <1>7, <1>8, <1>9, <1>10, <1>11, <1>12
     DEF Next, HookStep

LEMMA ShapeHolds == Spec => []Shape
<1>1. Shape /\ [Next]_vars => Shape'
  BY ShapeStep
<1> QED  BY ShapeInit, <1>1, PTL DEF Spec

-----------------------------------------------------------------------------
(* What the actions do to the record of their task *)

Kept(t) ==
    /\ hook'[t].path = hook[t].path
    /\ hook'[t].saw = hook[t].saw
    /\ hook'[t].then = hook[t].then
    /\ \A s \in Tasks \ {t} : hook'[s] = hook[s]

LEMMA ReturnDoes ==
    ASSUME Shape, NEW t \in Tasks, NEW ret \in Rets, Return(t, ret)
    PROVE  Kept(t) /\ hook'[t].pc = "done" /\ hook'[t].ret = ret
<1>1. hook[t] \in HookType /\ "done" \in Labels /\ hook[t].i \in 0..MaxPrefix + 1
  BY DEF Shape, Labels, HookType
<1>2. Goes(t, Returned(hook[t], "done", ret))
  BY DEF Return, Goes, Returned, Shape
<1> QED  BY <1>1, <1>2, RecordGoes, HookGoes DEF Shape, Kept

LEMMA MoveDoes ==
    ASSUME Shape, NEW t \in Tasks, NEW pc \in Labels, NEW i \in 0..MaxPrefix + 1,
           hook' = [hook EXCEPT ![t].pc = pc, ![t].i = i]
    PROVE  Kept(t) /\ hook'[t].pc = pc /\ hook'[t].i = i /\ hook'[t].ret = hook[t].ret
<1>1. hook[t] \in HookType /\ hook[t].ret \in Rets
  BY DEF Shape, HookType
<1>2. Goes(t, Moved(hook[t], pc, i))
  BY DEF Goes, Moved, Shape
<1> QED  BY <1>1, <1>2, RecordGoes, HookGoes DEF Shape, Kept

LEMMA LabelDoes ==
    ASSUME Shape, NEW t \in Tasks, NEW pc \in Labels, hook' = [hook EXCEPT ![t].pc = pc]
    PROVE  Kept(t) /\ hook'[t].pc = pc /\ hook'[t].i = hook[t].i /\ hook'[t].ret = hook[t].ret
<1>1. hook[t] \in HookType /\ hook[t].ret \in Rets /\ hook[t].i \in 0..MaxPrefix + 1
  BY DEF Shape, HookType
<1>2. [hook[t] EXCEPT !.pc = pc] = [hook[t] EXCEPT !.pc = pc, !.i = hook[t].i]
  BY <1>1 DEF HookType
<1>3. Goes(t, Moved(hook[t], pc, hook[t].i))
  BY <1>2 DEF Goes, Moved
<1> QED  BY <1>1, <1>3, RecordGoes, HookGoes DEF Shape, Kept

LEMMA OpenDoes ==
    ASSUME Shape, NEW t \in Tasks, NEW path \in Paths, Open(t, path)
    PROVE  /\ hook'[t].pc = "resolve" /\ hook'[t].path = path
           /\ hook'[t].saw = allowlist /\ hook'[t].then = mode /\ hook'[t].ret = "none"
           /\ \A s \in Tasks \ {t} : hook'[s] = hook[s]
<1>1. allowlist \in SUBSET Seq(Chars) /\ mode \in {"audit", "enforce"}
  BY PathsAssumption DEF Shape
<1>2. Goes(t, Opened(NoHook, path))
  BY DEF Open, Goes, Opened
<1>3. NoHook.ret = "none"
  BY DEF NoHook
<1> QED  BY <1>1, <1>2, <1>3, Blanks, OpenedGoes, HookGoes DEF Shape

\* The steps of a run, by what they do to its record.
LEMMA HookDoes ==
    ASSUME Shape, NEW t \in Tasks, HookStep(t)
    PROVE  /\ Kept(t)
           /\ \/ hook'[t].ret = hook[t].ret
              \/ hook'[t].ret = "ok"
              \/ hook'[t].ret = DenialInThisMode
           /\ UNCHANGED <<control, mode, allowlist>>
<1>l. {"walk", "copy", "lookup", "denied"} \subseteq Labels /\ "ok" \in Rets
  BY DEF Labels, Rets
<1>1. CASE Resolve(t)
  <2>1. 1 \in 0..MaxPrefix + 1
    BY MaxPrefixAssumption
  <2> QED  BY <1>1, <1>l, <2>1, ReturnDoes, MoveDoes DEF Resolve
<1>2. CASE NextCandidate(t)
  <2>1. PICK i \in Ahead(t) : hook' = [hook EXCEPT ![t].pc = "copy", ![t].i = i]
    BY <1>2 DEF NextCandidate
  <2>2. Path(t) \in Paths /\ hook[t].i >= 1 /\ hook[t].i \in Nat
    BY <1>2, MaxPrefixAssumption DEF NextCandidate, Shape, OnPath, Walking, HookType
  <2>3. i \in 0..MaxPrefix + 1
    BY <2>1, <2>2, WalkEndBound, MaxPrefixAssumption DEF Ahead
  <2> QED  BY <1>2, <1>l, <2>1, <2>3, MoveDoes DEF NextCandidate
<1>3. CASE CopyPath(t)
  BY <1>3, <1>l, LabelDoes DEF CopyPath
<1>4. CASE Lookup(t)
  <2>1. Path(t) \in Paths /\ hook[t].i \in 1..WalkEnd(Path(t))
    BY <1>4 DEF Lookup, Shape, OnPath
  <2>2. hook[t].i + 1 \in 0..MaxPrefix + 1
    BY <2>1, WalkEndBound, MaxPrefixAssumption
  <2> QED  BY <1>4, <1>l, <2>2, ReturnDoes, MoveDoes DEF Lookup
<1>5. CASE Deny(t)
  BY <1>5, <1>l, LabelDoes DEF Deny
<1>6. CASE ReadMode(t)
  <2>1. DenialInThisMode \in Rets
    BY DEF DenialInThisMode, Rets
  <2> QED  BY <1>6, <2>1, ReturnDoes DEF ReadMode
<1> QED  BY <1>1, <1>2, <1>3, <1>4, <1>5, <1>6 DEF HookStep

-----------------------------------------------------------------------------
(* The mode that opens saw *)

\* Once a load with --audit has written its mode, the mode stays.
AuditInv ==
    /\ mode = "audit" => request.audit
    /\ \A t \in Tasks :
          /\ hook[t].then = "audit" => mode = "audit" /\ hook[t].ret # "EPERM"
          /\ hook[t].then \in {"audit", "enforce"}

LEMMA AuditStep ==
    ASSUME Shape, AuditInv, [Next]_vars
    PROVE  AuditInv'
<1>n. NoHook.then = "enforce" /\ NoHook.ret = "none"
  BY DEF NoHook
<1>1. ASSUME NEW profile \in Profiles, NEW audit \in BOOLEAN, Load(profile, audit)
      PROVE  AuditInv'
  BY <1>1, <1>n DEF Load, AuditInv
<1>2. ASSUME NEW prefix \in request.profile, AllowlistAdd(prefix)
      PROVE  AuditInv'
  BY <1>2 DEF AllowlistAdd, AuditInv, control
<1>3. CASE WriteMode
  BY <1>3 DEF WriteMode, AuditInv, Shape, control
<1>4. CASE Unload
  BY <1>4, <1>n DEF Unload, AuditInv
<1>5. ASSUME NEW t \in Tasks, NEW path \in Paths, Open(t, path)
      PROVE  AuditInv'
  BY <1>5, OpenDoes DEF Open, AuditInv, Shape, control
<1>6. ASSUME NEW t \in Tasks, HookStep(t)
      PROVE  AuditInv'
  <2>1. \A s \in Tasks : hook'[s].then = hook[s].then
    BY <1>6, HookDoes DEF Kept
  <2>2. \A s \in Tasks : hook[s].then = "audit" => hook'[s].ret # "EPERM"
    BY <1>6, HookDoes DEF Kept, AuditInv, DenialInThisMode
  <2> QED  BY <1>6, <2>1, <2>2, HookDoes DEF AuditInv, control
<1>7. CASE UNCHANGED vars
  BY <1>7 DEF vars, AuditInv
<1> QED
  BY <1>1, <1>2, <1>3, <1>4, <1>5, <1>6, <1>7 DEF Next

LEMMA AuditInvHolds == Spec => []AuditInv
<1>1. Init => AuditInv
  BY DEF Init, AuditInv, NoHook
<1>2. Shape /\ AuditInv /\ [Next]_vars => AuditInv'
  BY AuditStep
<1> QED  BY <1>1, <1>2, ShapeHolds, PTL DEF Spec

-----------------------------------------------------------------------------
(* The counters *)

TasksFinite == IsFiniteSet(Tasks)

UnderHook == {t \in Tasks : InFlight(t)}

CountInv ==
    /\ stats.checked = stats.allowed + stats.denied + Cardinality(UnderHook)
    /\ stats.checked <= MaxOpens

LEMMA UnderHookFinite ==
    ASSUME TasksFinite
    PROVE  /\ IsFiniteSet(UnderHook) /\ IsFiniteSet(UnderHook')
           /\ Cardinality(UnderHook) \in Nat /\ Cardinality(UnderHook') \in Nat
<1>1. UnderHook \subseteq Tasks /\ UnderHook' \subseteq Tasks
  BY DEF UnderHook
<1> QED  BY <1>1, FS_Subset, FS_CardinalityType DEF TasksFinite

\* A run that ends takes one open from those under way to a counter.
LEMMA RunEnds ==
    ASSUME TasksFinite, Shape, CountInv, NEW t \in Tasks, InFlight(t), Kept(t),
           hook'[t].pc \in {"done", "denied"},
           NEW counter \in {"allowed", "denied"}, Bump(counter)
    PROVE  CountInv'
<1>1. UnderHook' = UnderHook \ {t} /\ t \in UnderHook
  BY DEF UnderHook, InFlight, Kept
<1>2. Cardinality(UnderHook') = Cardinality(UnderHook) - 1
  BY <1>1, UnderHookFinite, FS_RemoveElement
<1>3. /\ stats'.checked = stats.checked
      /\ stats'.allowed + stats'.denied = stats.allowed + stats.denied + 1
  BY DEF Bump, Shape, StatsType
<1>4. stats.allowed \in Nat /\ stats.denied \in Nat /\ stats.checked \in Nat
  BY DEF Shape, StatsType
<1>5. stats'.allowed \in Nat /\ stats'.denied \in Nat
  BY DEF Bump, Shape, StatsType
<1> QED  BY <1>2, <1>3, <1>4, <1>5, UnderHookFinite DEF CountInv

\* A run that goes on changes no counter.
LEMMA RunGoesOn ==
    ASSUME CountInv, NEW t \in Tasks, Kept(t), UNCHANGED stats,
           InFlight(t) <=> hook'[t].pc \in {"resolve", "walk", "copy", "lookup"}
    PROVE  CountInv'
<1>1. UnderHook' = UnderHook
  BY DEF UnderHook, InFlight, Kept
<1> QED  BY <1>1 DEF CountInv

LEMMA CountStep ==
    ASSUME TasksFinite, Shape, CountInv, [Next]_vars
    PROVE  CountInv'
<1>n. NoHook.pc = "idle"
  BY DEF NoHook
<1>z. ASSUME hook' = [t \in Tasks |-> NoHook], stats' = NoCounts  PROVE CountInv'
  <2>1. UnderHook' = {}
    BY <1>n, <1>z DEF UnderHook, InFlight
  <2>2. Cardinality(UnderHook') = 0
    BY <2>1, FS_EmptySet
  <2> QED  BY <1>z, <2>2, BoundsAssumption DEF CountInv, NoCounts
<1>1. ASSUME NEW profile \in Profiles, NEW audit \in BOOLEAN, Load(profile, audit)
      PROVE  CountInv'
  BY <1>1, <1>z DEF Load
<1>2. CASE Unload
  BY <1>2, <1>z DEF Unload
<1>3. CASE UNCHANGED <<hook, stats>>
  <2>1. UnderHook' = UnderHook
    BY <1>3 DEF UnderHook, InFlight
  <2> QED  BY <1>3, <2>1 DEF CountInv
<1>4. ASSUME NEW t \in Tasks, NEW path \in Paths, Open(t, path)
      PROVE  CountInv'
  <2>1. UnderHook' = UnderHook \cup {t} /\ t \notin UnderHook
    BY <1>4, OpenDoes DEF Open, UnderHook, InFlight
  <2>2. Cardinality(UnderHook') = Cardinality(UnderHook) + 1
    BY <2>1, UnderHookFinite, FS_AddElement
  <2>3. /\ stats.allowed \in Nat /\ stats.denied \in Nat /\ stats.checked \in Nat
        /\ stats'.checked = stats.checked + 1
        /\ stats'.allowed = stats.allowed /\ stats'.denied = stats.denied
    BY <1>4 DEF Open, Bump, Shape, StatsType
  <2> QED  BY <1>4, <2>2, <2>3, UnderHookFinite, BoundsAssumption DEF CountInv, Open
<1>5. ASSUME NEW t \in Tasks, HookStep(t)
      PROVE  CountInv'
  <2>k. Kept(t)
    BY <1>5, HookDoes
  <2>l. {"walk", "copy", "lookup", "denied"} \subseteq Labels /\ "ok" \in Rets
    BY DEF Labels, Rets
  <2>1. CASE Bump("allowed") /\ Return(t, "ok") /\ InFlight(t)
    BY <2>1, <2>k, <2>l, ReturnDoes, RunEnds
  <2>2. CASE Deny(t)
    <3>1. InFlight(t) /\ hook'[t].pc = "denied" /\ Bump("denied")
      BY <2>2, <2>l, LabelDoes DEF Deny, CountDenial, InFlight
    <3> QED  BY <2>k, <3>1, RunEnds
  <2>3. CASE /\ InFlight(t) /\ UNCHANGED stats
             /\ hook'[t].pc \in {"walk", "copy", "lookup"}
    BY <2>3, <2>k, RunGoesOn
  <2>4. CASE ReadMode(t)
    <3>1. DenialInThisMode \in Rets
      BY DEF DenialInThisMode, Rets
    <3>2. hook'[t].pc = "done" /\ ~InFlight(t) /\ UNCHANGED stats
      BY <2>4, <3>1, ReturnDoes DEF ReadMode, InFlight
    <3> QED  BY <2>k, <3>2, RunGoesOn
  <2>5. CASE Resolve(t)
    <3>1. 1 \in 0..MaxPrefix + 1
      BY MaxPrefixAssumption
    <3> QED  BY <2>1, <2>3, <2>5, <2>l, <3>1, MoveDoes DEF Resolve, InFlight
  <2>6. CASE NextCandidate(t)
    <3>1. InFlight(t) /\ UNCHANGED stats
      BY <2>6 DEF NextCandidate, InFlight
    <3>2. hook'[t].pc = "copy"
      BY <2>6 DEF NextCandidate, Shape, HookType
    <3> QED  BY <2>3, <3>1, <3>2
  <2>7. CASE CopyPath(t)
    BY <2>3, <2>7, <2>l, LabelDoes DEF CopyPath, InFlight
  <2>8. CASE Lookup(t)
    <3>1. hook[t].i + 1 \in 0..MaxPrefix + 1
      BY <2>8, WalkEndBound, MaxPrefixAssumption DEF Lookup, Shape, OnPath
    <3> QED  BY <2>1, <2>3, <2>8, <2>l, <3>1, MoveDoes DEF Lookup, InFlight
  <2> QED  BY <1>5, <2>2, <2>4, <2>5, <2>6, <2>7, <2>8 DEF HookStep
<1> QED
  BY <1>1, <1>2, <1>3, <1>4, <1>5 DEF Next, AllowlistAdd, WriteMode, vars

LEMMA CountInvHolds == ASSUME TasksFinite PROVE Spec => []CountInv
<1>1. Init => CountInv
  <2> SUFFICES ASSUME Init PROVE CountInv
    OBVIOUS
  <2>1. UnderHook = {}
    BY DEF Init, UnderHook, InFlight, NoHook
  <2>2. Cardinality(UnderHook) = 0
    BY <2>1, FS_EmptySet
  <2> QED  BY <2>2, BoundsAssumption DEF Init, CountInv, NoCounts
<1>2. Shape /\ CountInv /\ [Next]_vars => CountInv'
  BY CountStep
<1> QED  BY <1>1, <1>2, ShapeHolds, PTL DEF Spec

\* Every checked open is under way, or was counted exactly once as allowed or
\* denied, however many tasks are in the hook.
THEOREM CountsHold == ASSUME TasksFinite PROVE Spec => []CountsAddUp
<1>1. CountInv => CountsAddUp
  BY DEF CountInv, CountsAddUp, UnderHook
<1> QED  BY <1>1, CountInvHolds, PTL

\* The types, with a key that never outgrows its slot.
THEOREM HookTypes == ASSUME TasksFinite PROVE Spec => []TypeOK
<1>1. ASSUME Shape, CountInv  PROVE TypeOK
  <2>1. Cardinality(UnderHook) \in Nat
    BY UnderHookFinite
  <2>2. stats \in [{"checked", "allowed", "denied"} -> 0..MaxOpens]
    <3>1. /\ stats.allowed \in 0..MaxOpens /\ stats.denied \in 0..MaxOpens
          /\ stats.checked \in 0..MaxOpens
      BY <1>1, <2>1, BoundsAssumption DEF Shape, StatsType, CountInv
    <3>2. DOMAIN stats = {"checked", "allowed", "denied"}
      BY <1>1 DEF Shape, StatsType
    <3>3. stats = [k \in {"checked", "allowed", "denied"} |-> stats[k]]
      BY <1>1, <3>2 DEF Shape, StatsType
    <3> QED  BY <3>1, <3>3
  <2>3. \A cpu \in Cpus : scratch[cpu].len \in 0..MaxPrefix
                          /\ Len(scratch[cpu].data) <= MaxPrefix
    BY <1>1 DEF Shape, KeyType
  <2>4. \A t \in Tasks : /\ hook[t].i \in 0..MaxPrefix + 1
                         /\ InFlight(t) => hook[t].path \in Paths
    BY <1>1 DEF Shape, HookType, OnPath, InFlight, Path
  <2> QED  BY <1>1, <2>2, <2>3, <2>4 DEF TypeOK, Shape
<1> QED  BY <1>1, ShapeHolds, CountInvHolds, PTL

-----------------------------------------------------------------------------
(* The hook decides as policy.rs does *)

\* Nobody else writes the slot of a task between its key and its lookup: the task
\* is not preempted there by another run of the hook, on a CPU they share.
SlotsApart ==
    \A t \in Tasks :
        hook[t].pc \in {"copy", "lookup"} /\ hook'[t] = hook[t] =>
            scratch'[CpuOf[t]] = scratch[CpuOf[t]]

\* The instances for which it decides alike; README.md, Divergences, has the others.
FitBuffer    == \A path \in Paths : DPathFits(path)
SameDefaults == \A path \in Paths : path_allowed_defaults(path) <=> is_default_allowed(path)
NoSlashes    == \A f \in Profiles : \A p \in f : ~ends_with_slash(p)

\* No candidate before the one at hand is an entry that was there at the start.
Passed(t) ==
    \A j \in 1..WalkEnd(Path(t)) :
        j < hook[t].i /\ Boundary(Path(t), j) =>
            \A p \in hook[t].saw : Candidate(Path(t), j) # prefix_to_key_bytes(p)

\* A run, at each of its labels; its slot holds what it has put there.
Faithful(t) ==
    /\ hook[t].saw \subseteq allowlist
    /\ Walking(t) => ~path_allowed_defaults(Path(t)) /\ Passed(t)
    /\ hook[t].pc \in {"copy", "lookup"} => scratch[CpuOf[t]].len = hook[t].i
    /\ hook[t].pc = "lookup" => scratch[CpuOf[t]] = Candidate(Path(t), hook[t].i)
    /\ hook[t].pc = "denied" => ~is_allowed(Path(t), hook[t].saw)
    /\ hook[t].pc = "done" /\ hook[t].ret = "ok" /\ mode = "enforce" =>
           is_allowed(Path(t), allowlist)

MirrorInv ==
    /\ \A p \in allowlist : p # <<>>
    /\ \A t \in Tasks : Faithful(t)

\* More prefixes allow more.
LEMMA AllowsMore ==
    ASSUME NEW path \in Seq(Chars), NEW some \in SUBSET Seq(Chars),
           NEW more \in SUBSET Seq(Chars), some \subseteq more, is_allowed(path, some)
    PROVE  is_allowed(path, more)
BY LongestExists DEF is_allowed

\* Entries are what WalkFindsLongest asks for.
LEMMA Entries ==
    ASSUME Shape, MirrorInv, NoSlashes
    PROVE  /\ allowlist \in SUBSET Seq(Chars)
           /\ \A p \in allowlist : p # <<>> /\ ~ends_with_slash(p)
BY PathsAssumption DEF Shape, MirrorInv, NoSlashes

\* The walk and the defaults together are is_allowed.
LEMMA WalkDecides ==
    ASSUME FitBuffer, SameDefaults, NEW path \in Paths,
           NEW prefixes \in SUBSET Seq(Chars),
           \A p \in prefixes : p # <<>> /\ ~ends_with_slash(p)
    PROVE  is_allowed(path, prefixes)
               <=> path_allowed_defaults(path) \/ path_allowed_dynamic(path, prefixes)
<1>1. path \in Seq(Chars) /\ path # <<>>
  BY PathsAssumption
<1> QED  BY <1>1, WalkFindsLongest DEF FitBuffer, SameDefaults, is_allowed

\* What other tasks and commands do leaves a run faithful.
LEMMA StaysFaithful ==
    ASSUME Shape, NEW t \in Tasks, Faithful(t), hook'[t] = hook[t],
           hook[t].pc \in {"copy", "lookup"} => scratch'[CpuOf[t]] = scratch[CpuOf[t]],
           allowlist \subseteq allowlist', allowlist' \in SUBSET Seq(Chars),
           mode' = "enforce" => mode = "enforce"
    PROVE  Faithful(t)'
<1>1. allowlist \in SUBSET Seq(Chars)
  OBVIOUS
<1>2. hook[t].pc # "idle" => Path(t) \in Seq(Chars)
  BY PathsAssumption DEF Shape, OnPath
<1>3. Path(t)' = Path(t)
  BY DEF Path
<1>4. Passed(t) => Passed(t)'
  BY <1>3 DEF Passed
<1>5. hook[t].pc = "done" /\ is_allowed(Path(t), allowlist) => is_allowed(Path(t), allowlist')
  BY <1>1, <1>2, AllowsMore
<1> QED  BY <1>3, <1>4, <1>5 DEF Faithful, Walking

LEMMA MirrorStep ==
    ASSUME FitBuffer, SameDefaults, NoSlashes,
           Shape, AuditInv, MirrorInv, [Next]_vars, SlotsApart
    PROVE  MirrorInv'
<1>n. NoHook.pc = "idle" /\ NoHook.saw = {}
  BY DEF NoHook
<1>a. allowlist \in SUBSET Seq(Chars)
  BY PathsAssumption DEF Shape
<1>z. ASSUME hook' = [t \in Tasks |-> NoHook], allowlist' = {}  PROVE MirrorInv'
  BY <1>n, <1>z DEF MirrorInv, Faithful, Walking
\* A step of t leaves the other runs and the keys they look up alone.
<1>o. ASSUME NEW t \in Tasks, \A s \in Tasks \ {t} : hook'[s] = hook[s],
             allowlist' = allowlist, mode' = mode, Faithful(t)'
      PROVE  MirrorInv'
  <2>1. ASSUME NEW s \in Tasks \ {t}  PROVE Faithful(s)'
    <3>1. hook[s].pc \in {"copy", "lookup"} => scratch'[CpuOf[s]] = scratch[CpuOf[s]]
      BY <1>o DEF SlotsApart
    <3> QED  BY <1>a, <1>o, <3>1, StaysFaithful DEF MirrorInv
  <2> QED  BY <1>o, <2>1 DEF MirrorInv
<1>1. ASSUME NEW profile \in Profiles, NEW audit \in BOOLEAN, Load(profile, audit)
      PROVE  MirrorInv'
  BY <1>1, <1>z DEF Load
<1>2. CASE Unload
  BY <1>2, <1>z DEF Unload
<1>3. ASSUME NEW prefix \in request.profile, AllowlistAdd(prefix)
      PROVE  MirrorInv'
  <2>1. prefix # <<>> /\ prefix \in Seq(Chars)
    BY <1>3, PathsAssumption DEF AllowlistAdd, validate_prefix, Shape
  <2>2. allowlist' = allowlist \cup {prefix}
    BY <1>3 DEF AllowlistAdd
  <2>3. \A t \in Tasks : Faithful(t)'
    BY <1>3, <1>a, <2>1, <2>2, StaysFaithful DEF AllowlistAdd, MirrorInv
  <2> QED  BY <2>1, <2>2, <2>3 DEF MirrorInv
<1>4. CASE WriteMode
  <2>1. mode' = "enforce" => mode = "enforce"
    BY <1>4 DEF WriteMode, AuditInv, Shape
  <2>2. \A t \in Tasks : Faithful(t)'
    BY <1>4, <1>a, <2>1, StaysFaithful DEF WriteMode, MirrorInv
  <2> QED  BY <1>4, <2>2 DEF WriteMode, MirrorInv
<1>5. ASSUME NEW t \in Tasks, NEW path \in Paths, Open(t, path)
      PROVE  MirrorInv'
  <2>1. Faithful(t)'
    BY <1>5, OpenDoes DEF Open, Faithful, Walking
  <2> QED  BY <1>5, <1>o, <2>1, OpenDoes DEF Open
<1>k. ASSUME NEW t \in Tasks, HookStep(t), Faithful(t)'
      PROVE  MirrorInv'
  BY <1>k, <1>o, HookDoes DEF Kept
<1>l. /\ {"walk", "copy", "lookup", "denied"} \subseteq Labels /\ "ok" \in Rets
      /\ 1 \in 0..MaxPrefix + 1
  BY MaxPrefixAssumption DEF Labels, Rets
<1>e. allowlist \in SUBSET Seq(Chars) /\ \A p \in allowlist : p # <<>> /\ ~ends_with_slash(p)
  BY Entries
<1>6. ASSUME NEW t \in Tasks, Resolve(t)
      PROVE  MirrorInv'
  <2>1. HookStep(t) /\ Kept(t) /\ Path(t) \in Paths /\ Path(t)' = Path(t)
    BY <1>6, HookDoes DEF HookStep, Resolve, Shape, OnPath, Kept, Path
  <2>2. DPathFits(Path(t))
    BY <2>1 DEF FitBuffer
  <2>3. CASE path_allowed_defaults(Path(t)) /\ Return(t, "ok") /\ UNCHANGED scratch
    <3>1. is_allowed(Path(t), allowlist)
      BY <2>1, <2>3 DEF SameDefaults, is_allowed
    <3>2. Faithful(t)'
      BY <1>6, <1>l, <2>1, <2>3, <3>1, ReturnDoes
         DEF Resolve, Faithful, Walking, Kept, MirrorInv
    <3> QED  BY <1>k, <2>1, <2>3, <3>2
  <2>4. CASE /\ ~path_allowed_defaults(Path(t))
             /\ scratch' = [scratch EXCEPT ![CpuOf[t]] = NoKey]
             /\ hook' = [hook EXCEPT ![t].pc = "walk", ![t].i = 1]
    <3>1. hook'[t].pc = "walk" /\ hook'[t].i = 1
      <4>1. "walk" \in Labels /\ 1 \in 0..MaxPrefix + 1
        BY <1>l
      <4>2. hook' = [hook EXCEPT ![t].pc = "walk", ![t].i = 1]
        BY <2>4
      <4> QED  BY <4>1, <4>2, MoveDoes
    <3>2. Passed(t)'
      BY <3>1 DEF Passed
    <3>3. Faithful(t)'
      BY <1>6, <2>1, <2>4, <3>1, <3>2 DEF Resolve, Faithful, Walking, Kept, MirrorInv
    <3> QED  BY <1>k, <2>1, <2>4, <3>3 DEF Shape
  <2> QED  BY <1>6, <2>2, <2>3, <2>4 DEF Resolve
<1>7. ASSUME NEW t \in Tasks, NextCandidate(t)
      PROVE  MirrorInv'
  <2>1. HookStep(t) /\ Kept(t) /\ Path(t)' = Path(t)
    BY <1>7, HookDoes DEF HookStep, Kept, Path
  <2>2. PICK i \in Ahead(t) :
            /\ \A j \in Ahead(t) : i <= j
            /\ scratch' = [scratch EXCEPT ![CpuOf[t]].len = i]
            /\ hook' = [hook EXCEPT ![t].pc = "copy", ![t].i = i]
    BY <1>7 DEF NextCandidate
  <2>3. Path(t) \in Paths /\ hook[t].i >= 1 /\ hook[t].i \in Nat
    BY <1>7, MaxPrefixAssumption DEF NextCandidate, Shape, OnPath, Walking, HookType
  <2>4. i \in 0..MaxPrefix + 1 /\ i \in Nat
    BY <2>2, <2>3, WalkEndBound, MaxPrefixAssumption DEF Ahead
  <2>5. hook'[t].pc = "copy" /\ hook'[t].i = i
    BY <1>l, <2>2, <2>4, MoveDoes
  <2>6. scratch'[CpuOf[t]].len = i
    <3>1. CpuOf[t] \in Cpus /\ scratch[CpuOf[t]] \in KeyType
      BY TasksAssumption DEF Shape
    <3> QED  BY <2>2, <3>1 DEF Shape, KeyType
  <2>7. Passed(t)'
    <3>1. Passed(t)
      BY <1>7 DEF NextCandidate, MirrorInv, Faithful, Walking
    <3>2. ASSUME NEW j \in 1..WalkEnd(Path(t)), j < i, Boundary(Path(t), j)
          PROVE  j < hook[t].i
      <4>1. j \notin Ahead(t)
        BY <2>2, <2>4, <3>2, <2>3, WalkEndBound, MaxPrefixAssumption DEF Ahead
      <4> QED  BY <2>3, <3>2, <4>1, WalkEndBound, MaxPrefixAssumption DEF Ahead
    <3> QED  BY <2>1, <2>5, <3>1, <3>2 DEF Passed, Kept
  <2>8. Faithful(t)'
    BY <1>7, <2>1, <2>5, <2>6, <2>7 DEF NextCandidate, Faithful, Walking, Kept, MirrorInv
  <2> QED  BY <1>k, <2>1, <2>2, <2>8 DEF Shape
<1>8. ASSUME NEW t \in Tasks, CopyPath(t)
      PROVE  MirrorInv'
  <2>1. HookStep(t) /\ Kept(t) /\ Path(t)' = Path(t)
    BY <1>8, HookDoes DEF HookStep, Kept, Path
  <2>2. hook'[t].pc = "lookup" /\ hook'[t].i = hook[t].i
    BY <1>8, <1>l, LabelDoes DEF CopyPath
  <2>3. scratch[CpuOf[t]].len = hook[t].i /\ Passed(t)
    BY <1>8 DEF CopyPath, MirrorInv, Faithful, Walking
  <2>4. scratch'[CpuOf[t]] = Candidate(Path(t), hook[t].i)
    <3>1. CpuOf[t] \in Cpus /\ scratch[CpuOf[t]] \in KeyType
      BY TasksAssumption DEF Shape
    <3>2. scratch'[CpuOf[t]] =
              [scratch[CpuOf[t]] EXCEPT !.data = Candidate(Path(t), hook[t].i).data]
      BY <1>8, <3>1 DEF CopyPath, Shape
    <3> QED  BY <2>3, <3>1, <3>2 DEF KeyType, Candidate
  <2>5. Passed(t)'
    BY <2>1, <2>2, <2>3 DEF Passed, Kept
  <2>6. Candidate(Path(t), hook[t].i).len = hook[t].i
    BY DEF Candidate
  <2>7. Faithful(t)'
    BY <1>8, <2>1, <2>2, <2>4, <2>5, <2>6 DEF CopyPath, Faithful, Walking, Kept, MirrorInv
  <2> QED  BY <1>8, <1>k, <2>1, <2>7 DEF CopyPath, Shape
<1>9. ASSUME NEW t \in Tasks, Lookup(t)
      PROVE  MirrorInv'
  <2>1. HookStep(t) /\ Kept(t) /\ Path(t)' = Path(t)
    BY <1>9, HookDoes DEF HookStep, Kept, Path
  <2>2. /\ Path(t) \in Paths /\ hook[t].i \in 1..WalkEnd(Path(t))
        /\ Boundary(Path(t), hook[t].i) /\ hook[t].i + 1 \in 0..MaxPrefix + 1
    BY <1>9, WalkEndBound, MaxPrefixAssumption DEF Lookup, Shape, OnPath
  <2>3. /\ scratch[CpuOf[t]] = Candidate(Path(t), hook[t].i)
        /\ Passed(t) /\ ~path_allowed_defaults(Path(t)) /\ hook[t].saw \subseteq allowlist
    BY <1>9 DEF Lookup, MirrorInv, Faithful, Walking
  <2>4. CASE /\ \E prefix \in allowlist : Holds(CpuOf[t], prefix)
             /\ Return(t, "ok")
    <3>1. path_allowed_dynamic(Path(t), allowlist)
      BY <2>2, <2>3, <2>4 DEF Holds, path_allowed_dynamic
    <3>2. is_allowed(Path(t), allowlist)
      BY <1>e, <2>2, <3>1, WalkDecides
    <3>3. Faithful(t)'
      BY <1>9, <1>l, <2>1, <2>3, <2>4, <3>2, ReturnDoes DEF Lookup, Faithful, Walking, Kept
    <3> QED  BY <1>9, <1>k, <2>1, <3>3 DEF Lookup
  <2>5. CASE /\ ~\E prefix \in allowlist : Holds(CpuOf[t], prefix)
             /\ hook' = [hook EXCEPT ![t].pc = "walk", ![t].i = @ + 1]
    <3>1. hook'[t].pc = "walk" /\ hook'[t].i = hook[t].i + 1
      BY <1>l, <2>2, <2>5, MoveDoes
    <3>2. \A p \in hook[t].saw : Candidate(Path(t), hook[t].i) # prefix_to_key_bytes(p)
      BY <2>3, <2>5 DEF Holds
    <3>3. \A j \in 1..WalkEnd(Path(t)) : j < hook[t].i + 1 => j < hook[t].i \/ j = hook[t].i
      BY <2>2, WalkEndBound, MaxPrefixAssumption
    <3>4. Passed(t)'
      BY <2>1, <2>3, <3>1, <3>2, <3>3 DEF Passed, Kept
    <3>5. Faithful(t)'
      BY <1>9, <2>1, <2>3, <3>1, <3>4 DEF Lookup, Faithful, Walking, Kept
    <3> QED  BY <1>9, <1>k, <2>1, <3>5 DEF Lookup
  <2> QED  BY <1>9, <2>4, <2>5 DEF Lookup
<1>10. ASSUME NEW t \in Tasks, Deny(t)
       PROVE  MirrorInv'
  <2>1. HookStep(t) /\ Kept(t) /\ Path(t)' = Path(t)
    BY <1>10, HookDoes DEF HookStep, Kept, Path
  <2>2. /\ Path(t) \in Paths /\ hook[t].i \in Nat
        /\ Passed(t) /\ ~path_allowed_defaults(Path(t)) /\ hook[t].saw \subseteq allowlist
    BY <1>10, MaxPrefixAssumption
       DEF Deny, MirrorInv, Faithful, Walking, Shape, OnPath, HookType
  <2>3. \A j \in 1..WalkEnd(Path(t)) : Boundary(Path(t), j) => j < hook[t].i
    BY <1>10, <2>2, WalkEndBound, MaxPrefixAssumption DEF Deny, Ahead
  <2>4. ~path_allowed_dynamic(Path(t), hook[t].saw)
    BY <2>2, <2>3 DEF Passed, path_allowed_dynamic
  <2>5. ~is_allowed(Path(t), hook[t].saw)
    BY <1>e, <2>2, <2>4, WalkDecides
  <2>6. hook'[t].pc = "denied"
    BY <1>10, <1>l, LabelDoes DEF Deny
  <2>7. Faithful(t)'
    BY <1>10, <2>1, <2>2, <2>5, <2>6 DEF Deny, Faithful, Walking, Kept
  <2> QED  BY <1>10, <1>k, <2>1, <2>7 DEF Deny
<1>11. ASSUME NEW t \in Tasks, ReadMode(t)
       PROVE  MirrorInv'
  <2>1. HookStep(t) /\ Kept(t) /\ Path(t)' = Path(t)
    BY <1>11, HookDoes DEF HookStep, Kept, Path
  <2>2. hook'[t].pc = "done" /\ hook'[t].ret = DenialInThisMode /\ mode' = mode
    <3>1. DenialInThisMode \in Rets
      BY DEF DenialInThisMode, Rets
    <3> QED  BY <1>11, <3>1, ReturnDoes DEF ReadMode
  <2>3. Faithful(t)'
    BY <1>11, <2>1, <2>2 DEF ReadMode, DenialInThisMode, Faithful, Walking, Kept, MirrorInv
  <2> QED  BY <1>11, <1>k, <2>1, <2>3 DEF ReadMode
<1>12. CASE UNCHANGED vars
  <2>1. \A t \in Tasks : Faithful(t)'
    BY <1>12, <1>a, StaysFaithful DEF vars, MirrorInv
  <2> QED  BY <1>12, <2>1 DEF vars, MirrorInv
<1> QED
  BY <1>1, <1>2, <1>3, <1>4, <1>5, <1>6, <1>7, <1>8, <1>9, <1>10, <1>11, <1>12
     DEF Next, HookStep

\* policy.rs: the hook and `policy check` implement the same rule.  It holds for
\* runs of the hook beside loads and unloads if no run is preempted by another one
\* of its CPU between its key and its lookup, paths fit the buffer, the defaults
\* agree on them and no entry ends with a slash.
THEOREM MirrorHolds ==
    ASSUME FitBuffer, SameDefaults, NoSlashes
    PROVE  Spec /\ [][SlotsApart]_vars => []HookMirrorsPolicy
<1>1. Init => MirrorInv
  BY DEF Init, MirrorInv, Faithful, Walking, NoHook
<1>2. Shape /\ AuditInv /\ MirrorInv /\ [Next]_vars /\ [SlotsApart]_vars => MirrorInv'
  <2>1. UNCHANGED vars => SlotsApart
    BY DEF vars, SlotsApart
  <2> QED  BY <2>1, MirrorStep
<1>3. MirrorInv => HookMirrorsPolicy
  BY DEF MirrorInv, Faithful, HookMirrorsPolicy
<1> QED  BY <1>1, <1>2, <1>3, ShapeHolds, AuditInvHolds, PTL DEF Spec

-----------------------------------------------------------------------------
(* The report of a status *)

\* An open bpftool has the map of an attached program, which only grows.  One
\* that holds an unpinned map has counters that added up when it was unpinned.
\* So what is still to be read is at least what it was when CHECKED was read.
StatusType == [pc : {"idle", "stats", "counters", "config", "printed"}, next : 1..4,
               counts : Seq(Nat), mode : {"none", "audit", "enforce"},
               open : BOOLEAN, held : StatsType, late : Nat]

Source == IF status.open THEN stats ELSE status.held

\* What a counter is in the report, or would at least be if it were read now.
Allowed == IF status.next > 2 THEN status.counts[2] ELSE Source.allowed
Denied  == IF status.next > 3 THEN status.counts[3] ELSE Source.denied

Typed ==
    /\ status \in StatusType
    /\ behind \in Nat
    /\ Len(status.counts) = status.next - 1
    /\ status.open => loaded
    /\ status.pc = "counters" => status.next <= 3
    /\ status.pc = "stats" => status.next = 1

Balance ==
    /\ status.pc = "counters" /\ status.next = 1 /\ ~status.open =>
           status.held.checked = status.held.allowed + status.held.denied + status.late
    /\ (status.pc = "counters" /\ status.next > 1) \/ status.next = 4 =>
           status.counts[1] <= Allowed + Denied + behind

Order == /\ StatsOrder[1] = "checked" /\ StatsOrder[2] = "allowed" /\ StatsOrder[3] = "denied"
         /\ Len(StatsOrder) = 3 /\ DOMAIN StatsOrder = 1..3

LEMMA InOrder == Order
BY DEF Order, StatsOrder

LEMMA Blank ==
    /\ NoStatus \in StatusType /\ Len(NoStatus.counts) = NoStatus.next - 1
    /\ NoStatus.pc = "idle" /\ NoStatus.next = 1 /\ NoStatus.open = FALSE
<1>1. <<>> \in Seq(Nat) /\ Len(<<>>) = 0
  BY EmptySeq
<1> QED BY <1>1 DEF NoStatus, StatusType, NoCounts, StatsType

\* While the program stays attached no counter goes down.
LEMMA StatsGrow ==
    ASSUME Shape, [Next]_vars, loaded, loaded'
    PROVE  stats.allowed <= stats'.allowed /\ stats.denied <= stats'.denied
<1>1. stats \in StatsType
  BY DEF Shape
<1>2. CASE UNCHANGED stats
  BY <1>1, <1>2 DEF StatsType
<1>3. ASSUME NEW c \in {"checked", "allowed", "denied"}, Bump(c)
      PROVE  stats.allowed <= stats'.allowed /\ stats.denied <= stats'.denied
  BY <1>1, <1>3 DEF Bump, StatsType
<1>4. \/ UNCHANGED stats
      \/ \E c \in {"checked", "allowed", "denied"} : Bump(c)
  BY DEF Next, Load, AllowlistAdd, WriteMode, Unload, Open, HookStep, Resolve,
         NextCandidate, CopyPath, Lookup, Deny, CountDenial, ReadMode, vars
<1> QED BY <1>2, <1>3, <1>4

LEMMA UnderWayCounts == ASSUME TasksFinite PROVE UnderWay \in Nat /\ UnderWay = Cardinality(UnderHook)
BY UnderHookFinite DEF UnderWay, UnderHook

-----------------------------------------------------------------------------
(* The steps *)

\* A step of a task, a load or an unload.
LEMMA EnforcerKeeps ==
    ASSUME TasksFinite, Shape, Shape', CountInv, Typed, Balance, Enforcer
    PROVE  Typed' /\ Balance'
<1>1. stats \in StatsType /\ stats' \in StatsType /\ behind' = behind
  BY DEF Shape, Enforcer
<1>2. Cardinality(UnderHook) \in Nat /\ UnderWay = Cardinality(UnderHook)
  BY UnderWayCounts
<1>3. CASE loaded /\ ~loaded' /\ status.open
  <2>1. status' = [status EXCEPT !.open = FALSE, !.held = stats, !.late = UnderWay]
    BY <1>3 DEF Enforcer
  <2>2. /\ status' \in StatusType /\ status'.pc = status.pc /\ status'.next = status.next
        /\ status'.counts = status.counts /\ status'.open = FALSE
        /\ status'.held = stats /\ status'.late = UnderWay
    BY <1>1, <1>2, <2>1 DEF Typed, StatusType
  <2>3. Source' = Source
    BY <1>3, <2>2 DEF Source
  <2>4. Allowed' = Allowed /\ Denied' = Denied
    BY <2>2, <2>3 DEF Allowed, Denied
  <2>5. stats.checked = stats.allowed + stats.denied + UnderWay
    BY <1>2 DEF CountInv
  <2> QED BY <1>1, <2>2, <2>4, <2>5 DEF Typed, Balance
<1>4. CASE ~(loaded /\ ~loaded' /\ status.open)
  <2>1. status' = status
    BY <1>4 DEF Enforcer
  <2>2. Source.allowed <= Source'.allowed /\ Source.denied <= Source'.denied
    <3>1. CASE status.open
      <4>1. loaded /\ loaded'
        BY <1>4, <3>1 DEF Typed, Shape
      <4> QED BY <2>1, <3>1, <4>1, StatsGrow DEF Source, Enforcer
    <3>2. CASE ~status.open
      BY <2>1, <3>2 DEF Source, Typed, StatusType, StatsType
    <3> QED BY <3>1, <3>2
  <2>3. Source \in StatsType /\ Source' \in StatsType
    BY <1>1, <2>1 DEF Source, Typed, StatusType
  <2>4. Typed'
    BY <1>1, <1>4, <2>1 DEF Typed, Shape
  <2>5. /\ status.next > 2 => status.counts[2] \in Nat
        /\ status.next > 3 => status.counts[3] \in Nat
        /\ status.next > 1 => status.counts[1] \in Nat
    BY DEF Typed, StatusType
  <2>6. Allowed <= Allowed' /\ Denied <= Denied' /\ Allowed \in Nat /\ Denied \in Nat
        /\ Allowed' \in Nat /\ Denied' \in Nat
    <3>1. /\ Source.allowed \in Nat /\ Source'.allowed \in Nat
          /\ Source.denied \in Nat /\ Source'.denied \in Nat
      BY <2>3 DEF StatsType
    <3>2. /\ Allowed' = IF status.next > 2 THEN status.counts[2] ELSE Source'.allowed
          /\ Denied' = IF status.next > 3 THEN status.counts[3] ELSE Source'.denied
      BY <2>1 DEF Allowed, Denied
    <3> QED BY <2>2, <2>5, <3>1, <3>2 DEF Allowed, Denied
  <2>7. Balance'
    BY <1>1, <2>1, <2>5, <2>6 DEF Balance, Typed, StatusType
  <2> QED BY <2>4, <2>7
<1> QED BY <1>3, <1>4

LEMMA TakeDoes ==
    ASSUME status \in StatusType, status.next \in 1..3, status.pc = "counters",
           NEW value \in Nat, NEW ended \in Nat, ended <= status.late, Take(value, ended)
    PROVE  /\ status' \in StatusType /\ status'.next = status.next + 1
           /\ status'.pc = IF status.next = 3 THEN "config" ELSE "counters"
           /\ status'.counts = Append(status.counts, value)
           /\ status'.open = status.open /\ status'.held = status.held
<1> DEFINE counts == Append(status.counts, value)
           next   == status.next + 1
           late   == status.late - ended
           label  == IF status.next = 3 THEN "config" ELSE "counters"
<1>1. counts \in Seq(Nat) /\ next \in 1..4 /\ late \in Nat
  BY AppendProperties DEF StatusType
<1>2. Len(StatsOrder) = 3
  BY InOrder DEF Order
<1>3. status' = [status EXCEPT !.counts = counts, !.next = next, !.late = late, !.pc = label]
  BY <1>2 DEF Take
<1>4. label \in {"config", "counters"}
  OBVIOUS
<1> HIDE DEF counts, next, late, label
<1>5. /\ status' \in StatusType /\ status'.next = next /\ status'.pc = label
      /\ status'.counts = counts /\ status'.open = status.open /\ status'.held = status.held
  BY <1>1, <1>3, <1>4 DEF StatusType
<1> QED BY <1>5 DEF counts, next, label

\* bpftool reads CHECKED: every open it counts is allowed, denied or under way.
LEMMA FirstCounter ==
    ASSUME TasksFinite, Shape, CountInv, Typed, Balance, ReadCounter, status.next = 1
    PROVE  Typed' /\ Balance'
<1>1. Counter = "checked"
  BY InOrder DEF Order, Counter
<1>2. stats \in StatsType /\ UnderWay \in Nat /\ stats.checked = stats.allowed + stats.denied + UnderWay
  BY UnderWayCounts DEF Shape, CountInv
<1>3. status.pc = "counters" /\ UNCHANGED <<vars, runs>> /\ status \in StatusType
  BY DEF ReadCounter, Typed
<1> DEFINE value == Source.checked
<1>4. value \in Nat
  BY <1>2, <1>3 DEF Source, StatusType, StatsType
<1>5. Take(value, 0) /\ behind' = IF status.open THEN UnderWay ELSE status.late
  BY <1>1, <1>2, <1>3 DEF ReadCounter, Source, StatusType, StatsType
<1> HIDE DEF value
<1>6. /\ status' \in StatusType /\ status'.pc = "counters" /\ status'.next = 2
      /\ status'.counts = Append(status.counts, value)
      /\ status'.open = status.open /\ status'.held = status.held
  BY <1>3, <1>4, <1>5, 0 \in Nat, 0 <= status.late, TakeDoes DEF StatusType
<1>7. Len(status'.counts) = 1 /\ status'.counts[1] = value
  BY <1>3, <1>4, <1>6, AppendProperties DEF Typed, StatusType
<1>8. Typed'
  BY <1>2, <1>3, <1>5, <1>6, <1>7 DEF Typed, StatusType, vars, control
<1>9. Source' = Source /\ Allowed' = Source.allowed /\ Denied' = Source.denied
  BY <1>3, <1>6 DEF Source, Allowed, Denied, vars
<1>10. value = Source.allowed + Source.denied + behind'
  BY <1>2, <1>3, <1>5 DEF value, Source, Balance
<1> QED BY <1>4, <1>6, <1>7, <1>8, <1>9, <1>10, <1>2, <1>3 DEF Balance, Source, StatusType, StatsType

\* It reads one of the others, no less than what it was at that time.
LEMMA LaterCounter ==
    ASSUME Shape, Typed, Balance, ReadCounter, status.next \in {2, 3}
    PROVE  Typed' /\ Balance'
<1>1. Counter = IF status.next = 2 THEN "allowed" ELSE "denied"
  BY InOrder DEF Order, Counter
<1>2. status.pc = "counters" /\ UNCHANGED <<vars, runs>> /\ status \in StatusType /\ stats \in StatsType
  BY DEF ReadCounter, Typed, Shape
<1>3. PICK ended \in Nat : /\ Take(Source[Counter] + ended, ended) /\ ended <= status.late
                           /\ behind' = behind
  BY <1>1, <1>2 DEF ReadCounter, Source, StatusType, StatsType
<1> DEFINE value == Source[Counter] + ended
<1>4. value \in Nat /\ value >= Source[Counter]
  BY <1>1, <1>2 DEF Source, StatusType, StatsType
<1>5. Take(value, ended)
  BY <1>3
<1> HIDE DEF value
<1>6. /\ status' \in StatusType /\ status'.next = status.next + 1
      /\ status'.pc = IF status.next = 3 THEN "config" ELSE "counters"
      /\ status'.counts = Append(status.counts, value)
      /\ status'.open = status.open /\ status'.held = status.held
  BY <1>2, <1>3, <1>4, <1>5, TakeDoes
<1>7. /\ Len(status'.counts) = status.next /\ status'.counts[status.next] = value
      /\ \A n \in 1..(status.next - 1) : status'.counts[n] = status.counts[n]
  BY <1>2, <1>4, <1>6, AppendProperties DEF Typed, StatusType
<1>8. Typed'
  BY <1>2, <1>3, <1>6, <1>7 DEF Typed, StatusType, vars, control
<1>9. Source' = Source
  BY <1>2, <1>6 DEF Source, vars
<1>10. status.counts[1] \in Nat /\ status'.counts[1] = status.counts[1]
  BY <1>2, <1>7 DEF Typed, StatusType
<1>11. Allowed \in Nat /\ Denied \in Nat /\ Allowed' \in Nat /\ Denied' \in Nat
       /\ Allowed <= Allowed' /\ Denied <= Denied'
  <2>1. CASE status.next = 2
    BY <1>1, <1>2, <1>4, <1>6, <1>7, <1>9, <2>1
       DEF Allowed, Denied, Source, StatusType, StatsType
  <2>2. CASE status.next = 3
    <3>1. status.counts[2] \in Nat /\ status'.counts[2] = status.counts[2]
      BY <1>2, <1>7, <2>2 DEF Typed, StatusType
    <3>2. Allowed = status.counts[2] /\ Denied = Source.denied
      BY <2>2 DEF Allowed, Denied
    <3>3. Allowed' = status.counts[2] /\ Denied' = value
      BY <1>6, <1>7, <2>2, <3>1 DEF Allowed, Denied
    <3>4. Source.denied \in Nat /\ value \in Nat /\ value >= Source.denied
      BY <1>1, <1>2, <1>4, <2>2 DEF Source, StatusType, StatsType
    <3> QED BY <3>1, <3>2, <3>3, <3>4
  <2> QED BY <2>1, <2>2
<1>12. status.counts[1] <= Allowed + Denied + behind
  BY <1>2 DEF Balance
<1>13. behind' = behind /\ behind \in Nat
  BY <1>3 DEF Typed
<1> QED BY <1>6, <1>8, <1>10, <1>11, <1>12, <1>13 DEF Balance

\* The other steps of the command read no counter.
LEMMA ReportKeeps ==
    ASSUME Shape, Typed, Balance,
           StatusBegin \/ OpenStats \/ ReadConfig \/ UNCHANGED svars
    PROVE  Typed' /\ Balance'
<1>1. CASE UNCHANGED svars
  BY <1>1 DEF svars, view, vars, Typed, Balance, Allowed, Denied, Source
<1>2. CASE StatusBegin
  <2>1. /\ status' \in StatusType /\ Len(status'.counts) = status'.next - 1
        /\ status'.pc \in {"stats", "printed"} /\ status'.next = 1 /\ status'.open = FALSE
        /\ behind' = 0
    BY <1>2, Blank DEF StatusBegin, StatusType
  <2> QED BY <2>1 DEF Typed, Balance
<1>3. CASE OpenStats
  <2>1. /\ status \in StatusType /\ status.next = 1 /\ UNCHANGED <<vars, runs, behind>>
    BY <1>3 DEF OpenStats, Typed
  <2>2. /\ status' \in StatusType /\ status'.next = 1 /\ status'.counts = status.counts
        /\ \/ status'.pc = "counters" /\ status'.open /\ loaded
           \/ status'.pc = "config" /\ status'.open = status.open
    BY <1>3, <2>1 DEF OpenStats, StatusType
  <2> QED BY <2>1, <2>2 DEF Typed, Balance, vars, control
<1>4. CASE ReadConfig
  <2>1. /\ status \in StatusType /\ status.pc = "config" /\ UNCHANGED <<vars, runs, behind>>
    BY <1>4 DEF ReadConfig, Typed
  <2>2. /\ status' \in StatusType /\ status'.next = status.next /\ status'.pc = "printed"
        /\ status'.counts = status.counts /\ status'.open = status.open
        /\ status'.held = status.held
    BY <1>4, <2>1 DEF ReadConfig, StatusType, Shape
  <2>3. Source' = Source /\ Allowed' = Allowed /\ Denied' = Denied
    BY <2>1, <2>2 DEF Source, Allowed, Denied, vars
  <2> QED BY <2>1, <2>2, <2>3 DEF Typed, Balance, vars, control
<1> QED BY <1>1, <1>2, <1>3, <1>4

LEMMA StatusStep ==
    ASSUME TasksFinite, Shape, Shape', CountInv, Typed, Balance, [SNext]_svars
    PROVE  Typed' /\ Balance'
<1>1. CASE ReadCounter
  <2>1. status.next \in 1..3
    BY <1>1 DEF ReadCounter, Typed, StatusType
  <2>2. status.next = 1 \/ status.next \in {2, 3}
    BY <2>1
  <2> QED BY <1>1, <2>2, FirstCounter, LaterCounter
<1> QED BY <1>1, EnforcerKeeps, ReportKeeps DEF SNext

-----------------------------------------------------------------------------

\* A status beside the hook leaves the hook's behaviour as it is.
LEMMA StatusOnlyLooks == SSpec => Spec
<1>1. SInit => Init
  BY DEF SInit
<1>2. [SNext]_svars => [Next]_vars
  BY DEF SNext, svars, Enforcer, StatusBegin, OpenStats, ReadCounter, ReadConfig
<1> QED BY <1>1, <1>2, PTL DEF SSpec, Spec

\* query_status and read_stats: the opens that a finished report counts as
\* checked are counted in it as allowed or denied too, but for those that were
\* under way when bpftool read the first counter; and this with any number of
\* tasks, across unloads and loads.
THEOREM ReportHolds == ASSUME TasksFinite PROVE SSpec => []ReportLosesNoOpen
<1>1. SInit => Typed /\ Balance
  BY Blank DEF SInit, Typed, Balance
<1>2. Shape /\ Shape' /\ CountInv /\ Typed /\ Balance /\ [SNext]_svars => Typed' /\ Balance'
  BY StatusStep
<1>3. Typed /\ Balance => ReportLosesNoOpen
  <2> SUFFICES ASSUME Typed, Balance, Complete PROVE ReportLosesNoOpen
    BY DEF ReportLosesNoOpen
  <2>1. status \in StatusType /\ Len(status.counts) = 3 /\ status.next = 4
    <3>1. Len(StatsOrder) = 3
      BY InOrder DEF Order
    <3>2. status \in StatusType /\ Len(status.counts) = status.next - 1
      BY DEF Typed
    <3>3. Len(status.counts) = 3
      BY <3>1 DEF Complete
    <3>4. status.next \in 1..4
      BY <3>2 DEF StatusType
    <3>5. status.next - 1 = 3
      BY <3>2, <3>3
    <3>6. status.next = 4
      BY <3>4, <3>5
    <3> QED BY <3>2, <3>3, <3>6
  <2>2. /\ Reported("checked") = status.counts[1]
        /\ Reported("allowed") = status.counts[2]
        /\ Reported("denied") = status.counts[3]
    <3>1. /\ (CHOOSE n \in DOMAIN StatsOrder : StatsOrder[n] = "checked") = 1
          /\ (CHOOSE n \in DOMAIN StatsOrder : StatsOrder[n] = "allowed") = 2
          /\ (CHOOSE n \in DOMAIN StatsOrder : StatsOrder[n] = "denied") = 3
      BY InOrder DEF Order
    <3> QED BY <3>1 DEF Reported
  <2> QED BY <2>1, <2>2 DEF Balance, Allowed, Denied, ReportLosesNoOpen
<1> QED BY <1>1, <1>2, <1>3, StatusOnlyLooks, ShapeHolds, CountInvHolds, PTL DEF SSpec
=============================================================================
