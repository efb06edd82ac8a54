------------------------- MODULE ProcessTreeProofs --------------------------
(***************************************************************************)
(* Theorems about ProcessTree, for any finite set of PIDs, any size of the *)
(* map and any length of the operator's lists; and one about the list of   *)
(* PIDs that StatusPids puts together beside it.                           *)
(***************************************************************************)
EXTENDS StatusPids, FiniteSetTheorems, SequenceTheorems, TLAPS

\* See the README on PIDs that name a second process.
NoReuse == PidReuse = FALSE

\* The hook that a clone of a thread runs.  Its child is the process itself; that
\* of any other hook is a process in creation.
Clones(h)   == h.parent = h.child
Creating(p) == \E h \in hooks : h.child = p /\ ~Clones(h)

\* Of a restricted process no thread exits before the last one: see
\* Finding_thread_exit.
WholeExits == \A p \in covered : ThreadExit(p) => threads[p] = 1

\* No release comes between the lookup and the update of a clone's hook: that
\* would put the PID back.
SettledReleases ==
    ReleaseOne => \A h \in hooks : h.hit /\ Clones(h) => h.child # Pid

\* What the passing runs assume, and more than what is needed.
SingleThreaded == MaxThreads = 1

Hooks    == [parent : Pids, child : Pids, hit : BOOLEAN]
Commands == [op : {"none", "enforce", "release", "failed"},
             pids : Lists \cup {<<>>}, i : 1..MaxList, gone : SUBSET Pids]

-----------------------------------------------------------------------------
(* Lists of PIDs *)

LEMMA ListsAreSequences ==
    ASSUME NEW s \in Lists
    PROVE  /\ DOMAIN s = 1..Len(s)
           /\ Len(s) \in 1..MaxList
           /\ \A n \in 1..Len(s) : s[n] \in Pids
<1>1. PICK m \in 1..MaxList : s \in [1..m -> Pids]
  BY DEF Lists
<1>2. m \in Nat /\ s \in Seq(Pids)
  BY <1>1, SizesAssumption, SeqDef
<1>3. DOMAIN s = 1..Len(s) /\ Len(s) \in Nat
  BY <1>2, LenProperties
<1>4. 1..m = 1..Len(s)
  BY <1>1, <1>3
<1>5. m \in Nat /\ 1 <= m
  BY <1>1, SizesAssumption
<1>6. m \in 1..Len(s)
  BY <1>4, <1>5
<1>7. m = Len(s)
  <2>1. Len(s) \in 1..Len(s)
    BY <1>3, <1>5, <1>6
  <2>2. Len(s) \in 1..m
    BY <1>4, <2>1
  <2> DEFINE k == Len(s)
  <2>3. k \in Nat /\ k \in 1..m /\ m \in 1..k
    BY <1>3, <1>6, <2>2
  <2> HIDE DEF k
  <2>4. m = k
    BY <1>5, <2>3
  <2> QED BY <2>4 DEF k
<1>8. \A n \in 1..m : s[n] \in Pids
  BY <1>1
<1> QED BY <1>1, <1>3, <1>4, <1>7, <1>8

-----------------------------------------------------------------------------
(* Types.  Without a program there is nothing to find in a map or a hook. *)

Quiet == ~loaded => protected = {} /\ covered = {} /\ hooks = {}

Base == TypeOK /\ IsFiniteSet(hooks) /\ Quiet

LEMMA BaseInit == Init => Base
<1> SUFFICES ASSUME Init PROVE Base
  OBVIOUS
<1>1. IsFiniteSet({}) /\ Cardinality({}) = 0
  BY FS_EmptySet
<1>2. threads \in [Pids -> 0..MaxThreads] /\ used \subseteq Pids
  BY SizesAssumption DEF Init
<1>3. cmd \in Commands /\ cmd.op = "none"
  BY SizesAssumption DEF Init, NoCmd, Commands
<1>4. /\ loaded = FALSE /\ protected = {} /\ forked_in = 0
      /\ hooks = {} /\ covered = {} /\ missed = FALSE
  BY DEF Init
<1>5. forked_in \in 0..StatCap /\ 0 <= MapCap
  BY <1>4, SizesAssumption
<1> QED BY <1>1, <1>2, <1>3, <1>4, <1>5 DEF Base, TypeOK, Quiet, Commands

\* The command of a typed state has a PID at hand, and goes on to the next one.
LEMMA Advances ==
    ASSUME Base, cmd.op \in {"enforce", "release"}
    PROVE  /\ Pid \in Pids
           /\ cmd.pids \in Lists
           /\ cmd.i \in 1..Len(cmd.pids)
           /\ \/ cmd.i = Len(cmd.pids) /\ (Advance <=> cmd' = NoCmd)
              \/ /\ cmd.i < Len(cmd.pids)
                 /\ cmd.i + 1 \in 1..MaxList
                 /\ Advance <=> cmd' = [cmd EXCEPT !.i = @ + 1]
<1>1. cmd.i \in DOMAIN cmd.pids /\ cmd.pids \in Lists \cup {<<>>}
  BY DEF Base, TypeOK
<1>2. cmd.pids \in Lists
  BY <1>1
<1> QED BY <1>1, <1>2, ListsAreSequences, SizesAssumption DEF Pid, Advance

LEMMA RoomForOne ==
    ASSUME Base, NEW p \in Pids, HasRoom(p)
    PROVE  protected \cup {p} \subseteq Pids /\ Cardinality(protected \cup {p}) <= MapCap
<1>1. IsFiniteSet(protected) /\ Cardinality(protected) \in Nat
  BY SizesAssumption, FS_Subset, FS_CardinalityType DEF Base, TypeOK
<1>2. Cardinality(protected \cup {p}) = IF p \in protected THEN Cardinality(protected)
                                        ELSE Cardinality(protected) + 1
  BY <1>1, FS_AddElement
<1> QED BY <1>1, <1>2, SizesAssumption DEF Base, TypeOK, HasRoom

LEMMA RoomForLess ==
    ASSUME Base, NEW some \in SUBSET protected
    PROVE  some \subseteq Pids /\ Cardinality(some) <= MapCap
<1>1. IsFiniteSet(protected) /\ Cardinality(protected) \in Nat
  BY SizesAssumption, FS_Subset, FS_CardinalityType DEF Base, TypeOK
<1>2. IsFiniteSet(some) /\ Cardinality(some) <= Cardinality(protected) /\ Cardinality(some) \in Nat
  BY <1>1, FS_Subset, FS_CardinalityType
<1> QED BY <1>1, <1>2, SizesAssumption DEF Base, TypeOK

LEMMA BaseStep == Base /\ [Next]_vars => Base'
<1> SUFFICES ASSUME Base, [Next]_vars PROVE Base'
  OBVIOUS
<1> USE SizesAssumption DEF Commands
<1>1. ASSUME NEW p \in Pids, NEW q \in Pids, Fork(p, q) PROVE Base'
  <2>1. threads' \in [Pids -> 0..MaxThreads] /\ used' \subseteq Pids
    BY <1>1 DEF Fork, Base, TypeOK
  <2>2. hooks' \subseteq Hooks /\ covered' \subseteq Pids
    <3>1. [parent |-> p, child |-> q, hit |-> LooksUp(p, q) \in protected] \in Hooks
      BY DEF LooksUp, Hooks
    <3>2. hooks \subseteq Hooks /\ covered \subseteq Pids
      BY DEF Base, TypeOK, Hooks
    <3> QED BY <1>1, <3>1, <3>2 DEF Fork
  <2>3. IsFiniteSet(hooks')
    BY <1>1, FS_AddElement DEF Fork, Base
  <2> QED BY <1>1, <2>1, <2>2, <2>3 DEF Fork, Base, TypeOK, Quiet, Hooks
<1>2. ASSUME NEW h \in hooks, ForkHook(h) PROVE Base'
  <2>1. h.child \in Pids
    BY DEF Base, TypeOK
  <2>2. protected' \subseteq Pids /\ Cardinality(protected') <= MapCap
    BY <1>2, <2>1, RoomForOne DEF ForkHook, Base, TypeOK
  <2>3. IsFiniteSet(hooks')
    BY <1>2, FS_RemoveElement DEF ForkHook, Base
  <2>4. forked_in' \in 0..StatCap
    <3>1. forked_in \in 0..StatCap /\ (forked_in < StatCap => forked_in + 1 \in 0..StatCap)
      BY DEF Base, TypeOK
    <3> QED BY <1>2, <3>1 DEF ForkHook
  <2>5. missed' \in BOOLEAN /\ hooks' \subseteq hooks
    BY <1>2 DEF ForkHook, Base, TypeOK
  <2> QED BY <1>2, <2>2, <2>3, <2>4, <2>5 DEF ForkHook, Base, TypeOK, Quiet, kernel
<1>3. ASSUME NEW p \in Pids, ThreadExit(p) PROVE Base'
  <2>1. threads' \in [Pids -> 0..MaxThreads]
    <3>1. threads[p] # 0
      <4>1. /\ IsFiniteSet({h \in hooks : h.parent = p})
            /\ IsFiniteSet({h \in hooks : h.child = p})
        BY FS_Subset DEF Base
      <4>2. Busy(p) \in Nat
        BY <4>1, FS_CardinalityType DEF Busy
      <4> QED BY <1>3, <4>2 DEF ThreadExit, Running
    <3> QED BY <1>3, <3>1 DEF ThreadExit, Base, TypeOK
  <2>2. protected' \subseteq Pids /\ Cardinality(protected') <= MapCap
    BY <1>3, RoomForLess DEF ThreadExit
  <2>3. cmd' \in Commands
        /\ cmd'.op = cmd.op /\ cmd'.pids = cmd.pids /\ cmd'.i = cmd.i
    BY <1>3 DEF ThreadExit, Withdrawn, Base, TypeOK
  <2> QED BY <1>3, <2>1, <2>2, <2>3 DEF ThreadExit, Base, TypeOK, Quiet
<1>4. ASSUME NEW p \in Pids, Spawn(p) PROVE Base'
  BY <1>4 DEF Spawn, ghosts, Base, TypeOK, Quiet
<1>5. ASSUME NEW op \in {"enforce", "release"}, NEW pids \in Lists, Begin(op, pids) PROVE Base'
  <2>1. cmd' = [op |-> op, pids |-> pids, i |-> 1, gone |-> {}]
    BY <1>5 DEF Begin, NoCmd
  <2>2. 1 \in DOMAIN pids /\ 1 \in 1..MaxList
    BY ListsAreSequences
  <2>3. cmd' \in Commands /\ cmd'.i \in DOMAIN cmd'.pids
    BY <2>1, <2>2
  <2> QED BY <1>5, <2>3 DEF Begin, kernel, ghosts, Base, TypeOK, Quiet
<1>6. ASSUME cmd.op \in {"enforce", "release"}, Advance
      PROVE  cmd' \in Commands
             /\ (cmd'.op # "none" => cmd'.i \in DOMAIN cmd'.pids)
  <2>1. CASE cmd' = NoCmd
    BY <2>1 DEF NoCmd
  <2>2. CASE /\ cmd' = [cmd EXCEPT !.i = @ + 1]
             /\ cmd.i < Len(cmd.pids) /\ cmd.i + 1 \in 1..MaxList
    <3>1. cmd.i + 1 \in DOMAIN cmd.pids
      BY <1>6, <2>2, Advances, ListsAreSequences
    <3> QED BY <2>2, <3>1 DEF Base, TypeOK
  <2> QED BY <1>6, <2>1, <2>2, Advances
<1>7. ASSUME EnforceOne PROVE Base'
  <2>1. Pid \in Pids /\ cmd.op = "enforce"
    BY <1>7, Advances DEF EnforceOne
  <2>2. CASE loaded /\ HasRoom(Pid) /\ protected' = protected \cup {Pid} /\ Advance
             /\ covered' = IF Alive(Pid) THEN covered \cup {Pid} ELSE covered
    BY <1>6, <1>7, <2>1, <2>2, RoomForOne DEF EnforceOne, kernel, Base, TypeOK, Quiet
  <2>3. CASE GivesUp /\ UNCHANGED <<protected, covered>>
    BY <1>7, <2>3 DEF EnforceOne, GivesUp, kernel, Base, TypeOK, Quiet
  <2> QED BY <1>7, <2>2, <2>3 DEF EnforceOne
<1>8. ASSUME ReleaseOne PROVE Base'
  <2>1. protected' \subseteq protected /\ covered' \subseteq covered
    BY <1>8 DEF ReleaseOne
  <2>2. protected' \subseteq Pids /\ Cardinality(protected') <= MapCap
    BY <2>1, RoomForLess
  <2>3. Advance /\ cmd.op = "release" /\ UNCHANGED <<kernel, loaded, forked_in, hooks, missed>>
    BY <1>8 DEF ReleaseOne
  <2> QED BY <1>6, <2>1, <2>2, <2>3 DEF kernel, Base, TypeOK, Quiet
<1>9. ASSUME ReturnError PROVE Base'
  BY <1>9 DEF ReturnError, NoCmd, kernel, ghosts, Base, TypeOK, Quiet
<1>10. ASSUME Load PROVE Base'
  <2>1. Cardinality({}) <= MapCap /\ 0 \in 0..StatCap
    BY FS_EmptySet
  <2> QED BY <1>10, <2>1 DEF Load, kernel, Base, TypeOK, Quiet
<1>11. ASSUME Unload PROVE Base'
  <2>1. cmd' \in Commands
        /\ cmd'.op = cmd.op /\ cmd'.pids = cmd.pids /\ cmd'.i = cmd.i
    BY <1>11 DEF Unload, Withdrawn, Base, TypeOK
  <2>2. Cardinality({}) <= MapCap /\ 0 \in 0..StatCap /\ IsFiniteSet({})
    BY FS_EmptySet
  <2> QED BY <1>11, <2>1, <2>2 DEF Unload, kernel, Base, TypeOK, Quiet
<1>12. CASE UNCHANGED vars
  BY <1>12 DEF vars, Base, TypeOK, Quiet
<1> QED BY <1>1, <1>2, <1>3, <1>4, <1>5, <1>7, <1>8, <1>9, <1>10, <1>11, <1>12 DEF Next

-----------------------------------------------------------------------------
(* Enforce *)

\* What an enforce has got done so far.
Done ==
    cmd.op = "enforce" =>
        \A n \in 1..(cmd.i - 1) : cmd.pids[n] \in protected \cup cmd.gone

\* A step that takes some PIDs away and tells the command.
LEMMA DoneWithdrawn ==
    ASSUME Base, Done, NEW some \in SUBSET Pids, cmd' = Withdrawn(some),
           protected \subseteq protected' \cup some
    PROVE  Done'
<1>1. /\ cmd'.op = cmd.op /\ cmd'.pids = cmd.pids /\ cmd'.i = cmd.i
      /\ cmd.op = "enforce" => cmd'.gone = cmd.gone \cup some
  BY DEF Base, TypeOK, Withdrawn
<1> QED BY <1>1 DEF Done

LEMMA DoneStep == Base /\ Done /\ [Next]_vars => Done'
<1> SUFFICES ASSUME Base, Done, [Next]_vars PROVE Done'
  OBVIOUS
<1>1. ASSUME UNCHANGED cmd, protected \subseteq protected' PROVE Done'
  BY <1>1 DEF Done
<1>2. ASSUME NEW p \in Pids, NEW q \in Pids, Fork(p, q) PROVE Done'
  BY <1>1, <1>2 DEF Fork
<1>3. ASSUME NEW h \in hooks, ForkHook(h) PROVE Done'
  BY <1>1, <1>3 DEF ForkHook
<1>4. ASSUME NEW p \in Pids, ThreadExit(p) PROVE Done'
  <2>1. cmd' = Withdrawn({p}) /\ protected \subseteq protected' \cup {p}
    BY <1>4 DEF ThreadExit
  <2> QED BY <2>1, DoneWithdrawn
<1>5. ASSUME NEW p \in Pids, Spawn(p) PROVE Done'
  BY <1>1, <1>5 DEF Spawn
<1>6. ASSUME NEW op \in {"enforce", "release"}, NEW pids \in Lists, Begin(op, pids) PROVE Done'
  <2>1. cmd'.i = 1
    BY <1>6 DEF Begin, NoCmd
  <2> QED BY <2>1 DEF Done
<1>7. ASSUME EnforceOne PROVE Done'
  <2>1. cmd.op = "enforce" /\ cmd.i \in 1..Len(cmd.pids) /\ Len(cmd.pids) \in Nat
    BY <1>7, Advances, ListsAreSequences DEF EnforceOne
  <2>2. CASE GivesUp
    BY <2>1, <2>2 DEF GivesUp, Done, Base, TypeOK
  <2>3. CASE protected' = protected \cup {Pid} /\ Advance
    <3>1. CASE cmd' = NoCmd
      BY <3>1 DEF NoCmd, Done
    <3>2. CASE cmd' = [cmd EXCEPT !.i = @ + 1]
      <4>1. /\ cmd'.i = cmd.i + 1 /\ cmd'.pids = cmd.pids /\ cmd'.gone = cmd.gone
        BY <3>2 DEF Base, TypeOK
      <4>2. ASSUME NEW n \in 1..(cmd'.i - 1) PROVE cmd.pids[n] \in protected' \cup cmd.gone
        <5>1. n \in 1..(cmd.i - 1) \/ n = cmd.i
          BY <2>1, <4>1
        <5> QED BY <2>1, <2>3, <5>1 DEF Done, Pid
      <4> QED BY <4>1, <4>2 DEF Done
    <3> QED BY <2>1, <2>3, <3>1, <3>2, Advances
  <2> QED BY <1>7, <2>2, <2>3 DEF EnforceOne
<1>8. ASSUME ReleaseOne PROVE Done'
  <2>1. cmd.op = "release" /\ Advance
    BY <1>8 DEF ReleaseOne
  <2>2. cmd'.op # "enforce"
    BY <2>1, Advances DEF NoCmd, Base, TypeOK
  <2> QED BY <2>2 DEF Done
<1>9. ASSUME ReturnError PROVE Done'
  BY <1>9 DEF ReturnError, NoCmd, Done
<1>10. ASSUME Load PROVE Done'
  <2>1. protected = {} /\ UNCHANGED cmd
    BY <1>10 DEF Load, Base, Quiet
  <2> QED BY <1>1, <2>1
<1>11. ASSUME Unload PROVE Done'
  <2>1. cmd' = Withdrawn(Pids) /\ protected \subseteq Pids
    BY <1>11 DEF Unload, Base, TypeOK
  <2> QED BY <2>1, DoneWithdrawn
<1>12. CASE UNCHANGED vars
  BY <1>1, <1>12 DEF vars
<1> QED BY <1>2, <1>3, <1>4, <1>5, <1>6, <1>7, <1>8, <1>9, <1>10, <1>11, <1>12 DEF Next

\* The last PID of an enforce that returns without an error is restricted now,
\* and the others were before.
LEMMA CompleteStep ==
    Base /\ Done /\ [Next]_vars =>
        [cmd.op = "enforce" /\ cmd' = NoCmd /\ loaded =>
             \A n \in DOMAIN cmd.pids : cmd.pids[n] \in protected' \cup cmd.gone]_vars
<1> SUFFICES ASSUME Base, Done, Next, cmd.op = "enforce", cmd' = NoCmd,
                    NEW n \in DOMAIN cmd.pids
             PROVE  cmd.pids[n] \in protected' \cup cmd.gone
  OBVIOUS
<1>1. cmd' # cmd /\ cmd'.op = "none"
  BY DEF NoCmd
<1>2. ~ReturnError /\ ~ReleaseOne
  BY DEF ReturnError, ReleaseOne
<1>3. \A p, q \in Pids : ~Fork(p, q) /\ ~Spawn(p)
  BY <1>1 DEF Fork, Spawn
<1>4. \A some : cmd' # Withdrawn(some)
  BY <1>1 DEF Withdrawn, Base, TypeOK
<1>5. /\ \A p \in Pids : ~ThreadExit(p)
      /\ ~Unload /\ ~Load
      /\ \A h \in hooks : ~ForkHook(h)
      /\ \A op \in {"enforce", "release"}, pids \in Lists : ~Begin(op, pids)
  BY <1>1, <1>4 DEF ThreadExit, Unload, Load, ForkHook, Begin
<1>6. EnforceOne
  BY <1>2, <1>3, <1>5 DEF Next
<1>7. ~GivesUp
  BY <1>1 DEF GivesUp, Base, TypeOK
<1>8. protected' = protected \cup {Pid} /\ Advance
  BY <1>6, <1>7 DEF EnforceOne
<1>9. cmd.i = Len(cmd.pids) /\ Len(cmd.pids) \in Nat /\ DOMAIN cmd.pids = 1..Len(cmd.pids)
  <2>1. cmd.pids \in Lists /\ (cmd.i = Len(cmd.pids) \/ cmd' = [cmd EXCEPT !.i = @ + 1])
    BY <1>8, Advances
  <2>2. cmd' # [cmd EXCEPT !.i = @ + 1]
    BY <1>1 DEF Base, TypeOK
  <2> QED BY <2>1, <2>2, ListsAreSequences
<1>10. n \in 1..(cmd.i - 1) \/ n = cmd.i
  BY <1>9
<1> QED BY <1>8, <1>10 DEF Done, Pid

LEMMA DoneAlways == Spec => [](Base /\ Done)
<1>1. Init => Done
  BY DEF Init, NoCmd, Done
<1> QED BY BaseInit, BaseStep, DoneStep, <1>1, PTL DEF Spec

-----------------------------------------------------------------------------
(* Descendants.  A process in creation has one thread, and that one waits; so *)
(* what a running process forks finds it in the map.                          *)

LEMMA Runs ==
    ASSUME Base, NEW p \in Pids, Running(p)
    PROVE  threads[p] \in Nat /\ threads[p] >= 1 /\ (threads[p] = 1 => ~Forking(p))
<1> DEFINE C == {h \in hooks : h.child = p}
           P == {h \in hooks : h.parent = p}
<1>1. IsFiniteSet(C) /\ IsFiniteSet(P)
  BY FS_Subset DEF Base
<1>2. Cardinality(C) \in Nat /\ Cardinality(P) \in Nat /\ (Cardinality(C) = 0 <=> C = {})
  BY <1>1, FS_CardinalityType, FS_EmptySet
<1>3. threads[p] \in Nat /\ threads[p] > Cardinality(P) + Cardinality(C)
  BY SizesAssumption DEF Base, TypeOK, Running, Busy
<1> HIDE DEF C, P
<1>4. threads[p] >= 1 /\ (threads[p] = 1 => Cardinality(C) = 0)
  BY <1>2, <1>3
<1>5. threads[p] = 1 => C = {}
  BY <1>2, <1>4
<1> QED BY <1>3, <1>4, <1>5 DEF C, Forking

\* A covered process lives, and so does one that is being forked, which has one
\* thread.  As long as no hook found the map full, a covered process is in the
\* map, or the hook of its creation is on the way and has seen its parent there.
Descends ==
    /\ \A p \in covered : Alive(p)
    /\ \A h \in hooks : Alive(h.child)
    /\ \A h \in hooks : ~Clones(h) => threads[h.child] = 1
    /\ ~missed => \A p \in covered : Creating(p) \/ p \in protected
    /\ ~missed => \A h \in hooks : ~Clones(h) /\ h.child \in covered =>
                                      h.hit \/ h.child \in protected

LEMMA CreatingWaits ==
    ASSUME Base, Descends, NEW p \in Pids, Running(p)
    PROVE  ~Creating(p)
<1> SUFFICES ASSUME NEW h \in hooks, h.child = p, ~Clones(h) PROVE FALSE
  BY DEF Creating
<1>1. threads[p] = 1 /\ Forking(p)
  BY DEF Descends, Forking
<1> QED BY <1>1, Runs

\* A thread is cloned: nothing new descends.
LEMMA CloneDescends ==
    ASSUME Base, Descends, NEW p \in Pids, Fork(p, p)
    PROVE  Descends'
<1> USE SizesAssumption
<1>1. /\ ~Creating(p)
      /\ \A h \in hooks : h.parent \in Pids /\ h.child \in Pids
  BY CreatingWaits DEF Fork, Base, TypeOK
<1>2. /\ threads'[p] = threads[p] + 1 /\ threads[p] \in Nat
      /\ \A x \in Pids \ {p} : threads'[x] = threads[x]
      /\ covered' = covered /\ covered \subseteq Pids
      /\ UNCHANGED <<protected, missed>>
  BY DEF Fork, Base, TypeOK
<1>3. hooks \subseteq hooks' /\ \A h \in hooks' : h \in hooks \/ (h.child = p /\ Clones(h))
  BY DEF Fork, Clones, Base, Quiet
<1>4. \A x \in Pids : Alive(x) \/ x = p => Alive(x)'
  BY <1>2 DEF Alive
<1>5. (\A x \in covered' : Alive(x)') /\ (\A h \in hooks' : Alive(h.child)')
  BY <1>1, <1>2, <1>3, <1>4 DEF Descends
<1>6. ASSUME NEW h \in hooks', ~Clones(h)
      PROVE  h \in hooks /\ h.child \in Pids \ {p}
  BY <1>1, <1>3, <1>6 DEF Creating
<1>7. \A h \in hooks' : ~Clones(h) => threads'[h.child] = 1
  BY <1>2, <1>6 DEF Descends
<1>8. \A x : Creating(x) => Creating(x)'
  BY <1>3 DEF Creating, Clones
<1>9. ~missed' => \A x \in covered' : Creating(x)' \/ x \in protected'
  BY <1>2, <1>8 DEF Descends
<1>10. ~missed' => \A h \in hooks' : ~Clones(h) /\ h.child \in covered' =>
                                        h.hit \/ h.child \in protected'
  BY <1>2, <1>6 DEF Descends
<1> QED BY <1>5, <1>7, <1>9, <1>10 DEF Descends, Clones

\* A process is forked: its hook has seen a parent that is in the map.
LEMMA ForkDescends ==
    ASSUME Base, Descends, NEW p \in Pids, NEW q \in Pids, q # p, Fork(p, q)
    PROVE  Descends'
<1> USE SizesAssumption
<1>1. ~Creating(p) /\ ~Alive(q) /\ threads' = [threads EXCEPT ![q] = @ + 1]
  BY CreatingWaits DEF Fork, Free
<1>2. /\ threads'[q] = 1
      /\ \A x \in Pids \ {q} : threads'[x] = threads[x]
  BY <1>1 DEF Alive, Base, TypeOK
<1>3. q \notin covered /\ \A h \in hooks : h.child \in Pids \ {q}
  BY <1>1 DEF Descends, Base, TypeOK
<1>4. \A x \in Pids : Alive(x) \/ x = q => Alive(x)'
  BY <1>2 DEF Alive
<1>5. CASE ~loaded
  <2>1. covered' = {} /\ hooks' = {}
    BY <1>5 DEF Fork, Base, Quiet
  <2> QED BY <2>1 DEF Descends
<1>6. CASE loaded
  <2> DEFINE h == [parent |-> p, child |-> q, hit |-> p \in protected]
  <2>1. /\ hooks' = hooks \cup {h} /\ h.child = q /\ h.hit = (p \in protected)
        /\ h.parent = p
    BY <1>6 DEF Fork, LooksUp
  <2>2. UNCHANGED <<protected, missed>>
    BY DEF Fork
  <2>3. covered' = IF p \in covered THEN covered \cup {q} ELSE covered
    BY DEF Fork
  <2> HIDE DEF h
  <2>4. Creating(q)' /\ \A x : Creating(x) => Creating(x)'
    BY <2>1 DEF Creating, Clones
  <2>5. ~missed' => \A x \in covered' : Creating(x)' \/ x \in protected'
    BY <2>2, <2>3, <2>4 DEF Descends
  <2>6. ~missed /\ p \in covered => p \in protected
    BY <1>1 DEF Descends
  <2>7. ~missed' => \A g \in hooks' : ~Clones(g) /\ g.child \in covered' =>
                                         g.hit \/ g.child \in protected'
    <3> SUFFICES ASSUME ~missed, NEW g \in hooks', ~Clones(g), g.child \in covered'
                 PROVE  g.hit \/ g.child \in protected
      BY <2>2
    <3>1. CASE g = h
      <4>1. p \in covered
        BY <1>3, <2>1, <2>3, <3>1
      <4> QED BY <2>1, <2>6, <3>1, <4>1
    <3>2. CASE g \in hooks
      BY <1>3, <2>3, <3>2 DEF Descends
    <3> QED BY <2>1, <3>1, <3>2
  <2>8. \A x \in covered' : Alive(x)'
    BY <1>4, <2>3 DEF Descends, Base, TypeOK
  <2>9. \A g \in hooks' : Alive(g.child)' /\ (~Clones(g) => threads'[g.child] = 1)
    BY <1>2, <1>3, <1>4, <2>1 DEF Descends
  <2> QED BY <2>5, <2>7, <2>8, <2>9 DEF Descends, Clones
<1> QED BY <1>5, <1>6

LEMMA DescendsStep ==
    ASSUME Base, Descends, [Next]_vars, [WholeExits]_vars
    PROVE  Descends'
<1> USE SizesAssumption
<1>1. ASSUME NEW p \in Pids, NEW q \in Pids, Fork(p, q) PROVE Descends'
  BY <1>1, CloneDescends, ForkDescends
<1>2. ASSUME NEW h \in hooks, ForkHook(h) PROVE Descends'
  <2>1. /\ hooks' = hooks \ {h} /\ UNCHANGED <<threads, covered>>
        /\ protected \subseteq protected' /\ (missed => missed')
        /\ ~missed' /\ h.hit => h.child \in protected'
    BY <1>2 DEF ForkHook, kernel
  <2>2. ~missed' => \A p \in covered : Creating(p)' \/ p \in protected'
    <3> SUFFICES ASSUME ~missed', NEW p \in covered, p \notin protected'
                 PROVE  Creating(p)'
      OBVIOUS
    <3>1. Creating(p) /\ ~missed
      BY <2>1 DEF Descends
    <3>2. h.child # p \/ Clones(h)
      BY <2>1, <3>1 DEF Descends
    <3> QED BY <2>1, <3>1, <3>2 DEF Creating, Clones
  <2>3. /\ \A p \in covered' : Alive(p)'
        /\ \A g \in hooks' : Alive(g.child)' /\ (~Clones(g) => threads'[g.child] = 1)
    BY <2>1 DEF Descends, Alive
  <2> QED BY <2>1, <2>2, <2>3 DEF Descends, Clones
<1>3. ASSUME NEW p \in Pids, ThreadExit(p) PROVE Descends'
  <2>1. /\ threads[p] \in Nat /\ threads[p] >= 1 /\ (threads[p] = 1 => ~Forking(p))
        /\ threads'[p] = threads[p] - 1
        /\ \A x \in Pids \ {p} : threads'[x] = threads[x]
        /\ \A h \in hooks : h.child \in Pids
        /\ covered \subseteq Pids
    BY <1>3, Runs DEF ThreadExit, Base, TypeOK
  <2>2. p \in covered => threads[p] = 1
    <3>1. ~UNCHANGED vars
      BY <2>1 DEF vars
    <3> QED BY <1>3, <3>1 DEF WholeExits
  <2>3. /\ protected \ {p} \subseteq protected' /\ UNCHANGED <<hooks, missed>>
        /\ covered' = covered \ {p}
    BY <1>3, <2>2 DEF ThreadExit
  <2>4. \A h \in hooks : h.child # p \/ (threads'[p] >= 1 /\ Clones(h))
    <3>1. CASE threads[p] = 1
      BY <2>1, <3>1 DEF Forking
    <3>2. CASE threads[p] # 1
      BY <2>1, <3>2 DEF Descends
    <3> QED BY <3>1, <3>2
  <2>5. /\ \A x \in covered' : Alive(x)'
        /\ \A h \in hooks' : Alive(h.child)' /\ (~Clones(h) => threads'[h.child] = 1)
    BY <2>1, <2>3, <2>4 DEF Descends, Alive
  <2>6. \A x : Creating(x)' <=> Creating(x)
    BY <2>3 DEF Creating, Clones
  <2> QED BY <2>3, <2>5, <2>6 DEF Descends, Clones
<1>4. ASSUME NEW p \in Pids, Spawn(p) PROVE Descends'
  <2>1. ~Alive(p) /\ \A x \in Pids \ {p} : threads'[x] = threads[x]
    BY <1>4 DEF Spawn, Free, Base, TypeOK
  <2>2. UNCHANGED <<hooks, covered, protected, missed>>
    BY <1>4 DEF Spawn, ghosts
  <2>3. covered \subseteq Pids \ {p} /\ \A h \in hooks : h.child \in Pids \ {p}
    BY <2>1 DEF Descends, Base, TypeOK
  <2>4. /\ \A x \in covered' : Alive(x)'
        /\ \A h \in hooks' : Alive(h.child)' /\ (~Clones(h) => threads'[h.child] = 1)
    BY <2>1, <2>2, <2>3 DEF Descends, Alive
  <2> QED BY <2>2, <2>4 DEF Descends, Creating, Clones
<1>5. ASSUME UNCHANGED <<threads, hooks, covered, protected, missed>> PROVE Descends'
  BY <1>5 DEF Descends, Creating, Clones, Alive
<1>6. ASSUME NEW op \in {"enforce", "release"}, NEW pids \in Lists, Begin(op, pids) PROVE Descends'
  BY <1>5, <1>6 DEF Begin, kernel, ghosts
<1>7. ASSUME EnforceOne PROVE Descends'
  <2>1. UNCHANGED <<threads, hooks, missed>>
    BY <1>7 DEF EnforceOne, kernel
  <2>2. \/ UNCHANGED <<protected, covered>>
        \/ /\ protected' = protected \cup {Pid}
           /\ covered' = IF Alive(Pid) THEN covered \cup {Pid} ELSE covered
    BY <1>7 DEF EnforceOne
  <2> QED BY <2>1, <2>2 DEF Descends, Creating, Clones, Alive
<1>8. ASSUME ReleaseOne PROVE Descends'
  <2>1. UNCHANGED <<threads, hooks, missed>>
    BY <1>8 DEF ReleaseOne, kernel
  <2>2. CASE protected' = protected \ {Pid} /\ covered' = covered \ {Pid}
    BY <2>1, <2>2 DEF Descends, Creating, Clones, Alive
  <2>3. CASE UNCHANGED <<protected, covered>>
    BY <1>5, <2>1, <2>3
  <2> QED BY <1>8, <2>2, <2>3 DEF ReleaseOne, ReleasedKey
<1>9. ASSUME ReturnError PROVE Descends'
  BY <1>5, <1>9 DEF ReturnError, kernel, ghosts
<1>10. ASSUME Load \/ Unload PROVE Descends'
  <2>1. covered' = {} /\ hooks' = {}
    BY <1>10 DEF Load, Unload, Base, Quiet
  <2> QED BY <2>1 DEF Descends
<1>11. CASE UNCHANGED vars
  BY <1>5, <1>11 DEF vars
<1> QED BY <1>1, <1>2, <1>3, <1>4, <1>6, <1>7, <1>8, <1>9, <1>10, <1>11 DEF Next

-----------------------------------------------------------------------------
(* Strays.  When a PID names one process only, a new process is one that no   *)
(* entry of the map and no list of the operator's can mean.                   *)

Known ==
    /\ \A p \in Pids : Alive(p) => p \in used
    /\ protected \subseteq used
    /\ \A h \in hooks : h.child \in used

\* The operator names processes whose creation is over.
ListKnown ==
    cmd.op # "none" => \A n \in DOMAIN cmd.pids : cmd.pids[n] \in used /\ ~Creating(cmd.pids[n])

Stray ==
    /\ Known
    /\ ListKnown
    /\ \A p \in protected : Alive(p) => p \in covered
    /\ \A h \in hooks : h.hit => h.child \in covered

\* A step of anybody but the operator.
LEMMA ListStays ==
    ASSUME Base, ListKnown, cmd'.op = cmd.op /\ cmd'.pids = cmd.pids, used \subseteq used',
           \A p \in used : Creating(p)' => Creating(p)
    PROVE  ListKnown'
BY DEF ListKnown

\* A step of the operator's command.
LEMMA ListGoesOn ==
    ASSUME Base, ListKnown, UNCHANGED <<used, hooks>>, cmd.op \in {"enforce", "release"},
           Advance \/ GivesUp
    PROVE  ListKnown'
<1>1. \A p : Creating(p)' <=> Creating(p)
  BY DEF Creating, Clones
<1>2. CASE cmd' = NoCmd
  BY <1>2 DEF ListKnown, NoCmd
<1>3. CASE cmd'.pids = cmd.pids
  BY <1>1, <1>3 DEF ListKnown
<1>4. cmd' = NoCmd \/ cmd'.pids = cmd.pids
  <2>1. GivesUp => cmd'.pids = cmd.pids
    BY DEF GivesUp, Base, TypeOK
  <2>2. Advance => cmd' = NoCmd \/ cmd'.pids = cmd.pids
    BY Advances DEF Base, TypeOK
  <2> QED BY <2>1, <2>2
<1> QED BY <1>2, <1>3, <1>4

\* A thread is cloned: whoever is restricted goes on to be.
LEMMA CloneKnown ==
    ASSUME Base, Stray, NEW p \in Pids, Fork(p, p)
    PROVE  Stray'
<1> USE SizesAssumption
<1>1. Alive(p) /\ p \in used
  <2>1. threads[p] \in Nat /\ threads[p] >= 1
    BY Runs DEF Fork
  <2> QED BY <2>1 DEF Alive, Stray, Known
<1>2. /\ used' = used /\ covered' = covered /\ UNCHANGED <<protected, cmd>>
      /\ \A x \in Pids \ {p} : threads'[x] = threads[x]
  BY <1>1 DEF Fork, Base, TypeOK
<1>3. \A x \in Pids : Alive(x)' => Alive(x)
  BY <1>1, <1>2 DEF Alive
<1> DEFINE h == [parent |-> p, child |-> p, hit |-> p \in protected]
<1>4. hooks' \subseteq hooks \cup {h} /\ h.parent = p /\ h.child = p /\ h.hit = (p \in protected)
  BY DEF Fork, LooksUp
<1> HIDE DEF h
<1>5. h.child \in used /\ (h.hit => h.child \in covered)
  BY <1>1, <1>4 DEF Stray
<1>6. \A x : Creating(x)' => Creating(x)
  BY <1>4 DEF Creating, Clones
<1>7. ListKnown'
  BY <1>2, <1>6, ListStays DEF Stray
<1>8. Known'
  BY <1>2, <1>3, <1>4, <1>5 DEF Stray, Known
<1>9. \A x \in protected' : Alive(x)' => x \in covered'
  BY <1>2, <1>3 DEF Stray, Base, TypeOK
<1> QED BY <1>2, <1>4, <1>5, <1>7, <1>8, <1>9 DEF Stray

\* A process is forked: nobody knows it yet.
LEMMA ForkKnown ==
    ASSUME Base, Stray, NoReuse, NEW p \in Pids, NEW q \in Pids, q # p, Fork(p, q)
    PROVE  Stray'
<1> USE SizesAssumption
<1>1. ~Alive(q) /\ q \notin used
  BY DEF Fork, Free, NoReuse
<1>2. Alive(p)
  <2>1. threads[p] \in Nat /\ threads[p] >= 1
    BY Runs DEF Fork
  <2> QED BY <2>1 DEF Alive
<1>3. /\ threads' = [threads EXCEPT ![q] = @ + 1] /\ used' = used \cup {q}
      /\ UNCHANGED <<protected, cmd, loaded>>
      /\ covered' = IF p \in covered THEN covered \cup {q} ELSE covered
  BY DEF Fork
<1>4. \A x \in Pids \ {q} : Alive(x)' <=> Alive(x)
  BY <1>3 DEF Alive, Base, TypeOK
<1>5. \A x \in protected' : Alive(x)' => x \in covered'
  BY <1>1, <1>3, <1>4 DEF Stray, Known, Base, TypeOK
<1> DEFINE h == [parent |-> p, child |-> q, hit |-> p \in protected]
<1>6. hooks' \subseteq hooks \cup {h} /\ h.child = q /\ h.hit = (p \in protected)
  BY DEF Fork, LooksUp
<1> HIDE DEF h
<1>7. \A g \in hooks' : g.child \in used' /\ (g.hit => g.child \in covered')
  <2>1. h.hit => p \in covered
    BY <1>2, <1>6 DEF Stray
  <2>2. h.child \in used' /\ (h.hit => h.child \in covered')
    BY <1>3, <1>6, <2>1
  <2> QED BY <1>3, <1>6, <2>2 DEF Stray, Known
<1>8. \A x \in used : Creating(x)' => Creating(x)
  BY <1>1, <1>6 DEF Creating, Clones
<1>9. ListKnown'
  BY <1>3, <1>8, ListStays DEF Stray
<1>10. Known'
  BY <1>3, <1>4, <1>7 DEF Stray, Known
<1> QED BY <1>5, <1>7, <1>9, <1>10 DEF Stray

LEMMA StrayStep ==
    ASSUME Base, Stray, NoReuse, [Next]_vars, [SettledReleases]_vars
    PROVE  Stray'
<1> USE SizesAssumption
<1>1. ASSUME NEW p \in Pids, NEW q \in Pids, Fork(p, q) PROVE Stray'
  BY <1>1, CloneKnown, ForkKnown
<1>2. ASSUME NEW h \in hooks, ForkHook(h) PROVE Stray'
  <2>1. /\ hooks' \subseteq hooks /\ UNCHANGED <<threads, used, covered, cmd>>
        /\ protected' \subseteq protected \cup (IF h.hit THEN {h.child} ELSE {})
    BY <1>2 DEF ForkHook, kernel
  <2>2. \A x : Creating(x)' => Creating(x)
    BY <2>1 DEF Creating, Clones
  <2>3. ListKnown'
    BY <2>1, <2>2, ListStays DEF Stray
  <2>4. Known'
    BY <2>1 DEF Stray, Known, Alive
  <2>5. \A x \in protected' : Alive(x)' => x \in covered'
    BY <2>1 DEF Stray, Alive
  <2> QED BY <2>1, <2>3, <2>4, <2>5 DEF Stray
<1>3. ASSUME NEW p \in Pids, ThreadExit(p) PROVE Stray'
  <2>1. /\ threads[p] \in Nat /\ threads[p] >= 1 /\ (threads[p] = 1 => ~Forking(p))
        /\ threads'[p] = threads[p] - 1
        /\ \A x \in Pids \ {p} : threads'[x] = threads[x]
    BY <1>3, Runs DEF ThreadExit, Base, TypeOK
  <2>2. /\ covered' = IF threads[p] = 1 THEN covered \ {p} ELSE covered
        /\ protected' = protected \ {p}
        /\ UNCHANGED <<used, hooks>>
    BY <1>3 DEF ThreadExit, Base, Quiet
  <2>3. \A h \in hooks : h.hit => h.child \in covered'
    BY <2>1, <2>2 DEF Stray, Forking
  <2>4. cmd'.op = cmd.op /\ cmd'.pids = cmd.pids
    BY <1>3 DEF ThreadExit, Withdrawn, Base, TypeOK
  <2>5. ListKnown'
    BY <2>2, <2>4, ListStays DEF Stray, Creating, Clones
  <2>6. \A x \in Pids : Alive(x)' => Alive(x)
    BY <2>1 DEF Alive
  <2>7. Known' /\ \A x \in protected' : Alive(x)' => x \in covered'
    BY <2>2, <2>6 DEF Stray, Known, Base, TypeOK
  <2> QED BY <2>2, <2>3, <2>5, <2>7 DEF Stray
<1>4. ASSUME NEW p \in Pids, Spawn(p) PROVE Stray'
  <2>1. /\ p \notin used /\ used' = used \cup {p}
        /\ UNCHANGED <<protected, hooks, cmd, covered>>
        /\ \A x \in Pids \ {p} : threads'[x] = threads[x]
    BY <1>4 DEF Spawn, Free, ghosts, Base, TypeOK, NoReuse
  <2>2. ListKnown'
    BY <2>1, ListStays DEF Stray, Creating, Clones
  <2>3. Known' /\ \A x \in protected' : Alive(x)' => x \in covered'
    BY <2>1 DEF Stray, Known, Alive, Base, TypeOK
  <2> QED BY <2>1, <2>2, <2>3 DEF Stray
<1>5. ASSUME NEW op \in {"enforce", "release"}, NEW pids \in Lists, Begin(op, pids) PROVE Stray'
  <2>1. UNCHANGED <<threads, used, hooks, protected, covered>>
    BY <1>5 DEF Begin, kernel, ghosts
  <2>2. cmd'.pids = pids /\ \A n \in DOMAIN pids : Alive(pids[n]) /\ ~Creating(pids[n])
    BY <1>5 DEF Begin, NoCmd, Forking, Creating
  <2>3. \A n \in DOMAIN pids : pids[n] \in used
    BY <2>2, ListsAreSequences DEF Stray, Known
  <2>4. ListKnown'
    BY <2>1, <2>2, <2>3 DEF ListKnown, Creating, Clones
  <2> QED BY <2>1, <2>4 DEF Stray, Known, Alive
<1>6. ASSUME EnforceOne PROVE Stray'
  <2>1. /\ cmd.op = "enforce" /\ UNCHANGED <<threads, used, hooks>>
        /\ Advance \/ GivesUp
        /\ \/ UNCHANGED <<protected, covered>>
           \/ /\ protected' = protected \cup {Pid}
              /\ covered' = IF Alive(Pid) THEN covered \cup {Pid} ELSE covered
    BY <1>6 DEF EnforceOne, kernel
  <2>2. Pid \in used
    BY <2>1, Advances, ListsAreSequences DEF Stray, ListKnown, Pid
  <2>3. ListKnown'
    BY <2>1, ListGoesOn DEF Stray
  <2> QED BY <2>1, <2>2, <2>3 DEF Stray, Known, Alive
<1>7. ASSUME ReleaseOne PROVE Stray'
  <2>1. /\ cmd.op = "release" /\ UNCHANGED <<threads, used, hooks>> /\ Advance
        /\ \/ protected' = protected \ {Pid} /\ covered' = covered \ {Pid}
           \/ UNCHANGED <<protected, covered>>
    BY <1>7 DEF ReleaseOne, ReleasedKey, kernel
  <2>2. ~Creating(Pid)
    BY <2>1, Advances, ListsAreSequences DEF Stray, ListKnown, Pid
  <2>3. ListKnown'
    BY <2>1, ListGoesOn DEF Stray
  <2>4. CASE SettledReleases
    <3>1. \A h \in hooks : h.hit => h.child # Pid
      BY <1>7, <2>2, <2>4 DEF SettledReleases, Creating
    <3>2. CASE protected' = protected \ {Pid} /\ covered' = covered \ {Pid}
      BY <2>1, <2>3, <3>1, <3>2 DEF Stray, Known, Alive
    <3>3. CASE UNCHANGED <<protected, covered>>
      BY <2>1, <2>3, <3>3 DEF Stray, Known, Alive
    <3> QED BY <2>1, <3>2, <3>3
  <2>5. CASE UNCHANGED vars
    BY <2>3, <2>5 DEF vars, Stray, Known, Alive
  <2> QED BY <2>4, <2>5
<1>8. ASSUME ReturnError PROVE Stray'
  <2>1. cmd'.op = "none" /\ UNCHANGED <<threads, used, hooks, protected, covered>>
    BY <1>8 DEF ReturnError, NoCmd, kernel, ghosts
  <2> QED BY <2>1 DEF Stray, Known, ListKnown, Alive
<1>9. ASSUME Load \/ Unload PROVE Stray'
  <2>1. hooks' = {} /\ protected' = {} /\ UNCHANGED <<threads, used>>
    BY <1>9 DEF Load, Unload, kernel, Base, Quiet
  <2>2. cmd'.op = cmd.op /\ cmd'.pids = cmd.pids
    BY <1>9 DEF Load, Unload, Withdrawn, Base, TypeOK
  <2>3. ListKnown'
    BY <2>1, <2>2, ListStays DEF Stray, Creating, Clones
  <2> QED BY <2>1, <2>3 DEF Stray, Known, Alive
<1>10. CASE UNCHANGED vars
  BY <1>10 DEF vars, Stray, Known, ListKnown, Creating, Clones, Alive
<1> QED BY <1>1, <1>2, <1>3, <1>4, <1>5, <1>6, <1>7, <1>8, <1>9, <1>10 DEF Next

-----------------------------------------------------------------------------
(* The theorems *)

\* Every variable holds a value of its type, and the map of PIDs never outgrows
\* its max_entries, whatever forks, exits and commands interleave.
THEOREM TreeTypes == Spec => []TypeOK
<1>1. Base => TypeOK
  BY DEF Base
<1> QED BY BaseInit, BaseStep, <1>1, PTL DEF Spec

\* cmd_enforce: one that returns without an error has restricted every PID it was
\* given, but for those an exit or an unload has taken away meanwhile.
THEOREM EnforceCompletes == Spec => EnforceIsComplete
BY DoneAlways, CompleteStep, PTL DEF Spec, EnforceIsComplete

\* on_fork and on_exit: an enforced process and all its descendants, with as many
\* threads as they like, stay in the map while they live, unless released, as long
\* as the map had room and no thread exits before the last one of its process.
THEOREM DescendantsHold == Spec /\ [][WholeExits]_vars => []DescendantsProtected
<1>1. Init => Descends
  BY DEF Init, Descends
<1>2. Base /\ Descends /\ [Next]_vars /\ [WholeExits]_vars => Descends'
  BY DescendsStep
<1>3. Descends => DescendantsProtected
  BY DEF Descends, DescendantsProtected, Creating, Forking
<1> QED BY BaseInit, BaseStep, <1>1, <1>2, <1>3, PTL DEF Spec

\* A living process in the map was enforced, or descends from one that was, and no
\* release has deleted its key, if no release comes into the middle of a clone's
\* hook and no PID is used twice.  Releases may fail in silence.
THEOREM NoStrayHolds ==
    ASSUME NoReuse PROVE Spec /\ [][SettledReleases]_vars => []NoStrayProtection
<1>1. Init => Stray
  BY SizesAssumption DEF Init, Stray, Known, ListKnown, NoCmd, Alive
<1>2. Base /\ Stray /\ [Next]_vars /\ [SettledReleases]_vars => Stray'
  BY StrayStep
<1>3. Stray => NoStrayProtection
  BY DEF Stray, NoStrayProtection
<1> QED BY BaseInit, BaseStep, <1>1, <1>2, <1>3, PTL DEF Spec

\* Where processes have one thread the two assumptions on steps hold, and nothing
\* but the tree's own specification is needed.
LEMMA OneThreadSteps ==
    ASSUME SingleThreaded, Base, \A h \in hooks : ~Clones(h), [Next]_vars
    PROVE  /\ (\A h \in hooks : ~Clones(h))'
           /\ [WholeExits]_vars /\ [SettledReleases]_vars
<1> USE SizesAssumption
<1>1. \A p \in Pids : Running(p) => threads[p] = 1
  BY Runs DEF Base, TypeOK, SingleThreaded
<1>2. WholeExits
  BY <1>1 DEF WholeExits, ThreadExit, Base, TypeOK
<1>3. SettledReleases
  BY DEF SettledReleases
<1>4. ASSUME NEW p \in Pids, NEW q \in Pids, Fork(p, q)
      PROVE  (\A h \in hooks : ~Clones(h))'
  <2>1. p # q
    BY <1>1, <1>4 DEF Fork, SingleThreaded
  <2> DEFINE h == [parent |-> p, child |-> q, hit |-> p \in protected]
  <2>2. hooks' \subseteq hooks \cup {h} /\ h.parent = p /\ h.child = q
    BY <1>4 DEF Fork, LooksUp
  <2> HIDE DEF h
  <2> QED BY <2>1, <2>2 DEF Clones
<1>5. ASSUME NEW h \in hooks, ForkHook(h)
      PROVE  hooks' \subseteq hooks
  BY <1>5 DEF ForkHook
<1>6. (\E p, q \in Pids : Fork(p, q)) \/ hooks' \subseteq hooks
  BY <1>5 DEF Next, vars, ThreadExit, Spawn, Begin, EnforceOne, ReleaseOne, ReturnError,
              Load, Unload
<1> QED BY <1>2, <1>3, <1>4, <1>6 DEF Clones

LEMMA OneThread ==
    ASSUME SingleThreaded
    PROVE  Spec => [][WholeExits]_vars /\ [][SettledReleases]_vars
<1>1. Init => \A h \in hooks : ~Clones(h)
  BY DEF Init
<1>2. Base /\ (\A h \in hooks : ~Clones(h)) /\ [Next]_vars =>
          /\ (\A h \in hooks : ~Clones(h))'
          /\ [WholeExits]_vars /\ [SettledReleases]_vars
  BY OneThreadSteps
<1> QED BY BaseInit, BaseStep, <1>1, <1>2, PTL DEF Spec

\* So for single-threaded processes, which is what the passing runs check.
COROLLARY OneThreadIsEnough ==
    ASSUME SingleThreaded
    PROVE  Spec => /\ []DescendantsProtected
                   /\ NoReuse => []NoStrayProtection
<1>1. Spec => []DescendantsProtected
  BY OneThread, DescendantsHold, PTL
<1>2. ASSUME NoReuse PROVE Spec => []NoStrayProtection
  BY <1>2, OneThread, NoStrayHolds, PTL
<1> QED BY <1>1, <1>2

-----------------------------------------------------------------------------
(* The list of a status *)

UnderWay == report.at \in {"open", "next", "lookup"}

\* What the walk has yet to tell, once it stands on a key.
Pending == IF report.at = "lookup" THEN report.ahead \cup report.key ELSE report.ahead

ReportType == [at : {"idle", "open", "next", "lookup", "printed"}, key : SUBSET Pids,
               ahead : SUBSET Pids, told : SUBSET Pids, read : BOOLEAN,
               steady : SUBSET Pids, steps : Nat]

\* The steady processes are restricted still, and told or pending; and while
\* bpftool walks the map there is a program.
WalkInv ==
    /\ report \in ReportType
    /\ UnderWay => report.steady \subseteq Restricted
    /\ report.at = "open" => ~report.read /\ report.key = {}
    /\ Walking => loaded
    /\ report.at = "lookup" => \E p \in Pids : report.key = {p}
    /\ Walking /\ report.key # {} => report.steady \subseteq report.told \cup Pending
    /\ report.at = "printed" /\ report.read => report.steady \subseteq report.told

\* A restricted process is in the map of an attached program.
LEMMA RestrictedIsProtected ==
    ASSUME Base, Descends, loaded
    PROVE  Restricted \subseteq protected
BY DEF Descends, Restricted, Creating, Forking

\* The walk finds all that is pending, or starts again.
LEMMA RestCovers ==
    ASSUME Base, Descends, WalkInv, Walking
    PROVE  /\ report.steady \subseteq protected
           /\ report.at = "next" => report.steady \subseteq report.told \cup Ahead
           /\ report.steady \subseteq report.told \cup RestOfWalk
<1>1. report.steady \subseteq protected
  BY RestrictedIsProtected DEF WalkInv, UnderWay, Walking
<1>2. Ahead = protected \/ (report.key # {} /\ Ahead = report.ahead)
  BY DEF Ahead
<1> QED BY <1>1, <1>2 DEF WalkInv, Walking, Pending, RestOfWalk

\* A step of the walk is none of the tree's.
LEMMA WalkIsTree == [SNext]_svars => [Next]_vars
BY DEF SNext, svars, StatusBegin, OpenPids, NextKey, LookupKey, EndOfMap, TreeStep

LEMMA WalkStep ==
    ASSUME Base, Descends, WalkInv, [SNext]_svars, [WholeExits]_vars
    PROVE  WalkInv'
<1> USE DEF WalkInv, ReportType
<1>1. CASE StatusBegin
  <2>1. Restricted \subseteq Pids
    BY DEF Restricted, Base, TypeOK
  <2>2. /\ report' = [NoReport EXCEPT !.at = "open", !.steady = Restricted]
        /\ Restricted' = Restricted
    BY <1>1 DEF StatusBegin, vars, Restricted, Forking
  <2> QED BY <2>1, <2>2 DEF NoReport, UnderWay, Walking
<1>2. CASE OpenPids
  <2>1. /\ Restricted' = Restricted /\ loaded' = loaded
        /\ report.at = "open" /\ ~report.read
    BY <1>2 DEF OpenPids, vars, Restricted, Forking
  <2>2. CASE loaded /\ report' = [report EXCEPT !.at = "next", !.read = TRUE]
    BY <2>1, <2>2 DEF UnderWay, Walking
  <2>3. CASE report' = Printed(report.told)
    BY <2>1, <2>3 DEF Printed, NoReport, UnderWay, Walking
  <2> QED BY <1>2, <2>2, <2>3 DEF OpenPids
<1>3. CASE NextKey
  <2>1. PICK p \in Ahead \cup (protected \ report.told) :
            report' = [report EXCEPT !.at = "lookup", !.key = {p}, !.ahead = Ahead \ {p}]
    BY <1>3 DEF NextKey
  <2>2. /\ Restricted' = Restricted /\ loaded' = loaded /\ report.at = "next" /\ Walking
    BY <1>3 DEF NextKey, vars, Restricted, Forking, Walking
  <2>3. report.steady \subseteq report.told \cup Ahead
    BY <2>2, RestCovers
  <2>4. Ahead \subseteq Pids /\ p \in Pids
    BY DEF Ahead, Base, TypeOK
  <2>5. report'.at = "lookup" /\ report'.key = {p} /\ report'.ahead = Ahead \ {p}
        /\ report'.told = report.told /\ report'.steady = report.steady
    BY <2>1
  <2> QED BY <2>1, <2>2, <2>3, <2>4, <2>5 DEF UnderWay, Walking, Pending
<1>4. CASE LookupKey
  <2>1. /\ Restricted' = Restricted /\ loaded' = loaded /\ report.at = "lookup" /\ Walking
    BY <1>4 DEF LookupKey, vars, Restricted, Forking, Walking
  <2>2. report.steady \subseteq protected
    BY <2>1, RestCovers
  <2>3. PICK p \in report.key :
            \/ p \in protected /\ report' = [report EXCEPT !.at = "next", !.told = @ \cup {p}]
            \/ p \notin protected /\ report' = [report EXCEPT !.at = "next"]
    BY <1>4 DEF LookupKey, WithoutEntry
  <2>4. report.key = {p}
    BY <2>1, <2>3
  <2>a. report \in ReportType /\ report.told \cup {p} \in SUBSET Pids
    BY <2>4
  <2>5. /\ report'.at = "next" /\ report'.key = report.key /\ report'.ahead = report.ahead
        /\ report'.steady = report.steady /\ report' \in ReportType
        /\ report'.told = IF p \in protected THEN report.told \cup {p} ELSE report.told
    <3>1. CASE p \in protected
      <4>1. report' = [report EXCEPT !.at = "next", !.told = report.told \cup {p}]
        BY <2>3, <3>1
      <4> QED BY <2>a, <3>1, <4>1
    <3>2. CASE p \notin protected
      <4>1. report' = [report EXCEPT !.at = "next"]
        BY <2>3, <3>2
      <4> QED BY <2>a, <3>2, <4>1
    <3> QED BY <3>1, <3>2
  <2>6. report'.steady \subseteq report'.told \cup report'.ahead
    BY <2>1, <2>2, <2>4, <2>5 DEF Walking, Pending
  <2> QED BY <2>1, <2>5, <2>6 DEF UnderWay, Walking, Pending
<1>5. CASE EndOfMap
  <2>1. report.steady \subseteq report.told /\ report' = Printed(report.told)
    BY <1>5, RestCovers DEF EndOfMap, Walking
  <2> QED BY <2>1 DEF Printed, NoReport, UnderWay, Walking
<1>6. CASE TreeStep
  <2>0. Base' /\ Descends'
    BY <1>6, BaseStep, DescendsStep DEF TreeStep
  <2>1. CASE report' = NoReport
    BY <2>1 DEF NoReport, UnderWay, Walking
  <2>2. CASE Walking /\ ~loaded' /\ report' = Printed(report.told \cup RestOfWalk)
    <3>1. report.steady \subseteq report.told \cup RestOfWalk
      BY <2>2, RestCovers
    <3>2. RestOfWalk \subseteq Pids
      BY DEF RestOfWalk, Ahead, Base, TypeOK
    <3> QED BY <2>2, <3>1, <3>2 DEF Printed, NoReport, UnderWay, Walking
  <2>3. CASE /\ UnderWay /\ Walking => loaded'
             /\ \E keys \in StillAhead :
                    report' = [report EXCEPT
                                 !.steps = @ + 1,
                                 !.ahead = keys,
                                 !.steady = (@ \cap Restricted') \ Rewritten]
    <3>1. PICK keys \in StillAhead :
              report' = [report EXCEPT !.steps = @ + 1, !.ahead = keys,
                                       !.steady = (@ \cap Restricted') \ Rewritten]
      BY <2>3
    <3>2. /\ report'.at = report.at /\ report'.key = report.key /\ report'.told = report.told
          /\ report'.read = report.read /\ report'.ahead = keys
          /\ report'.steady = (report.steady \cap Restricted') \ Rewritten
      BY <3>1
    <3>3. keys \subseteq protected' /\ (report.ahead \cap protected') \ Rewritten \subseteq keys
      BY DEF StillAhead
    <3>4. Walking => Restricted' \subseteq protected'
      BY <2>0, <2>3 DEF Descends, Restricted, Creating, Forking
    <3>5. report'.steady \subseteq Restricted'
      BY <3>2
    <3>6. Walking /\ report.key # {} =>
              report'.steady \subseteq report'.told \cup Pending'
      <4> SUFFICES ASSUME Walking, report.key # {}, NEW p \in report'.steady
                   PROVE  p \in report'.told \cup Pending'
        OBVIOUS
      <4>1. p \in report.steady /\ p \in protected' /\ p \notin Rewritten
        BY <3>2, <3>4
      <4>2. p \in report.told \cup Pending
        BY <4>1
      <4> QED BY <3>2, <3>3, <4>1, <4>2 DEF Pending
    <3>7. report' \in ReportType
      <4>1. /\ keys \in SUBSET Pids
            /\ (report.steady \cap Restricted') \ Rewritten \in SUBSET Pids
            /\ report.steps + 1 \in Nat
        BY <2>0, <3>3 DEF Base, TypeOK
      <4> QED BY <3>1, <4>1
    <3> QED BY <2>3, <3>2, <3>5, <3>6, <3>7 DEF UnderWay, Walking
  <2>4. \/ report' = NoReport
        \/ Walking /\ ~loaded' /\ report' = Printed(report.told \cup RestOfWalk)
        \/ /\ report.at = "open" \/ (Walking /\ loaded')
           /\ \E keys \in StillAhead :
                  report' = [report EXCEPT
                               !.steps = @ + 1,
                               !.ahead = keys,
                               !.steady = (@ \cap Restricted') \ Rewritten]
    BY <1>6 DEF TreeStep
  <2>5. report.at = "open" \/ (Walking /\ loaded') => UnderWay /\ (Walking => loaded')
    BY DEF UnderWay, Walking
  <2> QED BY <2>1, <2>2, <2>3, <2>4, <2>5
<1>7. CASE UNCHANGED svars
  BY <1>7 DEF svars, vars, UnderWay, Walking, Pending, Restricted, Forking
<1> QED BY <1>1, <1>2, <1>3, <1>4, <1>5, <1>6, <1>7 DEF SNext

\* cmd_status: a process that is restricted from before the status begins until it
\* prints is in its list, wherever the walk restarts and whatever is inserted,
\* deleted, moved or unloaded under it, if its own key is not written again and
\* threads exit with their processes.
THEOREM ListHolds == SSpec /\ [][WholeExits]_vars => []RestrictedAreReported
<1>1. SInit => Init /\ WalkInv
  BY DEF SInit, WalkInv, ReportType, NoReport, UnderWay, Walking
<1>2. SInit => Base /\ Descends
  BY BaseInit DEF SInit, Init, Descends
<1>3. [SNext]_svars => [Next]_vars
  BY WalkIsTree
<1>4. Base /\ Descends /\ [Next]_vars /\ [WholeExits]_vars => Descends'
  BY DescendsStep
<1>5. Base /\ Descends /\ WalkInv /\ [SNext]_svars /\ [WholeExits]_vars => WalkInv'
  BY WalkStep
<1>6. WalkInv => RestrictedAreReported
  BY DEF WalkInv, RestrictedAreReported
<1> QED BY BaseStep, <1>1, <1>2, <1>3, <1>4, <1>5, <1>6, PTL DEF SSpec

\* The same for single-threaded processes, which is what the run checks.
COROLLARY ListHoldsOneThread ==
    ASSUME SingleThreaded
    PROVE  SSpec => []RestrictedAreReported
<1>1. SSpec => Spec
  <2>1. SInit => Init
    BY DEF SInit
  <2> QED BY <2>1, WalkIsTree, PTL DEF SSpec, Spec
<1> QED BY <1>1, OneThread, ListHolds, PTL
=============================================================================
