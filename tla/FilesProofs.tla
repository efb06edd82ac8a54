---------------------------- MODULE FilesProofs -----------------------------
(***************************************************************************)
(* Theorems about Files, for any number of builds, readers, names mktemp   *)
(* may choose and files: both files are replaced atomically, and read      *)
(* whole.  OneArm: at most one command writes the record at a time.  With  *)
(* two the statements about the record are false, since they share the     *)
(* temporary; those about the object hold for any number of both.          *)
(***************************************************************************)
EXTENDS Files, TLAPS

OneArm == \A a1, a2 \in Arms : a1 = a2

Fresh  == Temps \cup {TmpName}

\* The writers that have their temporary for themselves, and the names whose
\* files they publish.
Owners == IF OneArm THEN Writers ELSE Builds
Sound  == IF OneArm THEN {"object", "record"} ELSE {"object"}

Active == {w \in Owners : job[w].at # "idle"}

(***************************************************************************)
(* The invariant.  A file has at most one name.  Who is at work owns its   *)
(* temporary and the file behind it, so nobody else fills or truncates     *)
(* it; what has the name of an object or a record, or is open in a reader, *)
(* is whole and has no temporary name any more, so nobody fills it at all. *)
(* Arming commands that are several own nothing, but the file they write   *)
(* is neither the object nor a build's (Apart).                            *)
(***************************************************************************)
Types ==
    /\ dir \in [Names -> Inodes \cup {None}]
    /\ file \in [Inodes -> [by : Writers \cup {None}, part : {"none", "some", "all"}]]
    /\ job \in [Writers -> [at : {"idle", "made", "fill", "check", "promote", "exit"},
                            tmp : Names \cup {None}, fd : Inodes \cup {None}]]
    /\ view \in [Readers -> Inodes \cup {None}]
    /\ litter \subseteq Temps

OneName == \A m, n \in Names : dir[m] # None /\ dir[m] = dir[n] => m = n

Owned ==
    /\ \A w \in Active : job[w].fd \in Inodes /\ dir[job[w].tmp] = job[w].fd
    /\ \A b \in Builds : job[b].at # "idle" => job[b].tmp \in Temps
    /\ \A a \in Arms : job[a].at # "idle" => job[a].at = "fill" /\ job[a].tmp = TmpName
    /\ \A v, w \in Active : job[v].tmp = job[w].tmp => v = w

Apart ==
    \A a \in Arms : job[a].at # "idle" =>
        job[a].fd \in Inodes /\ \A n \in Temps \cup {"object"} : dir[n] # job[a].fd

Filled ==
    \A w \in Active :
        /\ file[job[w].fd].part # "none" => file[job[w].fd].by = w
        /\ job[w].at = "check" => file[job[w].fd].part \in {"none", "all"}
        /\ job[w].at = "promote" => file[job[w].fd].part = "all"

Whole ==
    /\ \A n \in Sound : dir[n] # None => file[dir[n]].part = "all"
    /\ OneArm => \A r \in Readers : view[r] # None =>
           file[view[r]].part = "all" /\ \A n \in Fresh : dir[n] # view[r]

FInv == Types /\ OneName /\ Owned /\ Apart /\ Filled /\ Whole /\ NoLitter

-----------------------------------------------------------------------------

LEMMA NamesApart ==
    /\ Fresh \subseteq Names
    /\ "object" \in Names \ Fresh /\ "record" \in Names \ Fresh
    /\ TmpName \notin Temps
    /\ None \notin Inodes
BY NamesAssumption DEF Fresh, Names, TmpName

LEMMA Owning ==
    /\ Owners \subseteq Writers
    /\ \A b \in Builds : b \in Owners /\ b \in Writers /\ b \notin Arms
    /\ \A a \in Arms : a \in Writers /\ a \notin Builds /\ (a \in Owners <=> OneArm)
    /\ "object" \in Sound /\ ("record" \in Sound <=> OneArm)
    /\ Sound \subseteq Names \ Fresh
BY NamesAssumption, NamesApart DEF Owners, Sound, Writers

LEMMA Initially == FilesInit => FInv
BY NamesAssumption DEF FilesInit, FInv, Types, OneName, Owned, Apart, Filled, Whole, NoLitter,
   Active, NoJob, Empty, Names, Writers, Owners, Sound

\* A new file under a name nobody has.
LEMMA CreateKeeps ==
    ASSUME FInv, NEW w \in Writers, NEW name \in Fresh, NEW label \in {"made", "fill"},
           Create(w, name, label),
           UNCHANGED <<view, litter>>, dir[name] = None, job[w].at = "idle",
           w \in Builds => name \in Temps,
           w \in Arms => name = TmpName /\ label = "fill"
    PROVE  FInv'
<1> DEFINE f == CHOOSE f \in Inodes : ~InUse(f)
<1>1. /\ f \in Inodes /\ ~InUse(f)
      /\ dir' = [dir EXCEPT ![name] = f]
      /\ file' = [file EXCEPT ![f] = Empty]
      /\ job' = [job EXCEPT ![w] = [at |-> label, tmp |-> name, fd |-> f]]
  BY DEF Create
<1> HIDE DEF f
<1>2. /\ \A n \in Names : dir[n] # f
      /\ \A v \in Writers : job[v].fd # f
      /\ \A r \in Readers : view[r] # f
  BY <1>1 DEF InUse
<1>3. name \in Names
  BY NamesApart
<1>4. Types'
  BY <1>1, <1>3, NamesApart DEF FInv, Types, Empty
<1>5. OneName'
  BY <1>1, <1>2, <1>3 DEF FInv, Types, OneName
<1>6. Active' = IF w \in Owners THEN Active \cup {w} ELSE Active
  BY <1>1, Owning DEF FInv, Types, Active
<1>7. \A v \in Active : v # w /\ job'[v] = job[v] /\ job[v].tmp # name /\ job[v].fd # f
  BY <1>1, <1>2, NamesApart, Owning DEF FInv, Types, Owned, Active
<1>8. /\ job'[w] = [at |-> label, tmp |-> name, fd |-> f]
      /\ \A v \in Writers : v # w => job'[v] = job[v]
  BY <1>1 DEF FInv, Types
<1>a. Apart'
  <2> SUFFICES ASSUME NEW a \in Arms, job'[a].at # "idle", NEW n \in Temps \cup {"object"}
               PROVE  job'[a].fd \in Inodes /\ dir'[n] # job'[a].fd
    BY DEF Apart
  <2>1. n \in Names
    BY DEF Names
  <2>2. CASE a = w
    BY <1>1, <1>2, <1>3, <1>8, <2>1, <2>2, NamesApart, Owning DEF FInv, Types
  <2>3. CASE a # w
    BY <1>1, <1>2, <1>3, <1>8, <2>1, <2>3, Owning DEF FInv, Types, Apart
  <2> QED BY <2>2, <2>3
<1>9. Owned'
  <2>1. \A v \in Active' : job'[v].fd \in Inodes /\ dir'[job'[v].tmp] = job'[v].fd
    BY <1>1, <1>3, <1>6, <1>7, <1>8 DEF FInv, Types, Owned
  <2>2. /\ \A b \in Builds : job'[b].at # "idle" => job'[b].tmp \in Temps
        /\ \A a \in Arms : job'[a].at # "idle" => job'[a].at = "fill" /\ job'[a].tmp = TmpName
    BY <1>8 DEF FInv, Owned, Writers
  <2>3. \A u, v \in Active' : job'[u].tmp = job'[v].tmp => u = v
    BY <1>6, <1>7, <1>8 DEF FInv, Owned
  <2> QED BY <2>1, <2>2, <2>3 DEF Owned
<1>10. Filled'
  BY <1>1, <1>6, <1>7, <1>8 DEF FInv, Types, Filled, Owned, Empty
<1>11. Whole'
  BY <1>1, <1>2, <1>3, NamesApart, Owning DEF FInv, Types, Whole, Fresh
<1>12. NoLitter'
  <2> SUFFICES ASSUME NEW t \in Temps, dir'[t] # None
               PROVE  t \in litter' \/ \E b \in Builds : job'[b].at # "idle" /\ job'[b].tmp = t
    BY DEF NoLitter
  <2>1. CASE t = name
    <3>1. w \in Builds
      BY <2>1, NamesApart DEF Writers
    <3> QED BY <2>1, <3>1, <1>8
  <2>2. CASE t # name
    <3>1. dir[t] # None
      BY <2>2, <1>1, NamesApart DEF FInv, Types, Fresh
    <3>2. t \in litter \/ \E b \in Builds : job[b].at # "idle" /\ job[b].tmp = t
      BY <3>1 DEF FInv, NoLitter
    <3> QED BY <3>2, <1>8 DEF Writers
  <2> QED BY <2>1, <2>2
<1> QED BY <1>4, <1>5, <1>a, <1>9, <1>10, <1>11, <1>12 DEF FInv

\* rename(2) of a whole file by its owner, who is done then.
LEMMA RenameKeeps ==
    ASSUME FInv, NEW w \in Active, NEW name \in {"object", "record"}, RenameTo(w, name),
           End(w), UNCHANGED <<file, view, litter>>, job[w].tmp \in Fresh,
           file[job[w].fd].part = "all", name = "object" => job[w].tmp \in Temps
    PROVE  FInv'
<1> DEFINE t == job[w].tmp
           f == job[w].fd
<1>1. /\ w \in Writers /\ f \in Inodes /\ dir[t] = f
      /\ t \in Names /\ name \in Names /\ t # name
  BY NamesApart, Owning DEF FInv, Owned, Active
<1>2. dir' = [dir EXCEPT ![name] = f, ![t] = None]
  BY <1>1 DEF RenameTo
<1>3. /\ dir'[name] = f /\ dir'[t] = None
      /\ \A n \in Names \ {name, t} : dir'[n] = dir[n]
  BY <1>1, <1>2 DEF FInv, Types
<1>4. /\ job' = [job EXCEPT ![w] = NoJob]
      /\ job'[w].at = "idle"
      /\ \A v \in Writers \ {w} : job'[v] = job[v]
  BY <1>1 DEF End, NoJob, FInv, Types
<1>5. Active' = Active \ {w}
  BY <1>1, <1>4 DEF Active
<1>6. \A n \in Names \ {t} : dir[n] # f
  BY <1>1, NamesApart DEF FInv, OneName
<1> HIDE DEF t, f
<1>7. Types'
  BY <1>1, <1>2, <1>4, NamesApart DEF FInv, Types, NoJob
<1>8. OneName'
  BY <1>1, <1>3, <1>6 DEF FInv, OneName
<1>9. \A v \in Active' : v # w /\ job'[v] = job[v] /\ job[v].tmp \in Fresh \ {t}
  BY <1>4, <1>5, Owning DEF FInv, Owned, Active, Writers, Fresh, t
<1>a. Apart'
  <2> SUFFICES ASSUME NEW a \in Arms, job'[a].at # "idle", NEW n \in Temps \cup {"object"}
               PROVE  job'[a].fd \in Inodes /\ dir'[n] # job'[a].fd
    BY DEF Apart
  <2>1. n \in Names /\ a # w /\ job'[a] = job[a]
    BY <1>4, Owning DEF Names
  <2>2. job[a].fd \in Inodes /\ \A m \in Temps \cup {"object"} : dir[m] # job[a].fd
    BY <2>1 DEF FInv, Apart
  <2>3. dir'[n] = dir[n] \/ dir'[n] = None \/ (n = name /\ dir'[n] = dir[t])
    BY <1>1, <1>3, <2>1
  <2>4. n = name => t \in Temps
    BY NamesAssumption DEF t
  <2> QED BY <2>1, <2>2, <2>3, <2>4, NamesApart
<1>10. Owned'
  <2>1. \A v \in Active' : job'[v].fd \in Inodes /\ dir'[job'[v].tmp] = job'[v].fd
    BY <1>3, <1>5, <1>9, NamesApart DEF FInv, Owned
  <2>2. /\ \A b \in Builds : job'[b].at # "idle" => job'[b].tmp \in Temps
        /\ \A a \in Arms : job'[a].at # "idle" => job'[a].at = "fill" /\ job'[a].tmp = TmpName
    BY <1>4 DEF FInv, Owned, Writers
  <2>3. \A u, v \in Active' : job'[u].tmp = job'[v].tmp => u = v
    BY <1>5, <1>9 DEF FInv, Owned
  <2> QED BY <2>1, <2>2, <2>3 DEF Owned
<1>11. Filled'
  BY <1>5, <1>9 DEF FInv, Filled
<1>12. Whole'
  <2>1. \A n \in Sound : dir'[n] # None => file'[dir'[n]].part = "all"
    BY <1>1, <1>3, NamesApart, Owning DEF FInv, Whole, f, t
  <2>2. ASSUME OneArm, NEW r \in Readers, view'[r] # None
        PROVE  file'[view'[r]].part = "all" /\ \A n \in Fresh : dir'[n] # view'[r]
    BY <1>3, <2>2, NamesApart DEF FInv, Whole
  <2> QED BY <2>1, <2>2 DEF Whole
<1>13. NoLitter'
  <2> SUFFICES ASSUME NEW n \in Temps, dir'[n] # None
               PROVE  n \in litter' \/ \E b \in Builds : job'[b].at # "idle" /\ job'[b].tmp = n
    BY DEF NoLitter
  <2>1. n # t /\ dir[n] # None
    BY <1>3, NamesApart DEF Fresh
  <2>2. n \in litter \/ \E b \in Builds : job[b].at # "idle" /\ job[b].tmp = n
    BY <2>1 DEF FInv, NoLitter
  <2> QED BY <2>1, <2>2, <1>4 DEF Writers, t
<1> QED BY <1>7, <1>8, <1>a, <1>10, <1>11, <1>12, <1>13 DEF FInv

\* The same by an arming command that has rivals: whatever it publishes, it is
\* nothing of a build's.
LEMMA RivalRenames ==
    ASSUME FInv, ~OneArm, NEW a \in Arms, RenameTmp(a)
    PROVE  FInv'
<1>1. /\ a \in Writers /\ a \notin Active /\ job[a].at # "idle" /\ job[a].tmp = TmpName
      /\ TmpName \in Names /\ TmpName # "record" /\ TmpName # "object" /\ TmpName \notin Temps
      /\ "record" \in Names /\ "record" \notin Temps
  BY NamesApart, NamesAssumption, Owning DEF RenameTmp, FInv, Owned, Active, Fresh
<1>2. dir' = [dir EXCEPT !["record"] = dir[TmpName], ![TmpName] = None]
  BY <1>1 DEF RenameTmp, RenameTo
<1>3. /\ dir'["record"] = dir[TmpName] /\ dir'[TmpName] = None
      /\ \A n \in Names \ {"record", TmpName} : dir'[n] = dir[n]
      /\ dir[TmpName] \in Inodes \cup {None}
  BY <1>1, <1>2 DEF FInv, Types
<1>4. /\ job' = [job EXCEPT ![a] = NoJob]
      /\ job'[a].at = "idle"
      /\ \A v \in Writers \ {a} : job'[v] = job[v]
      /\ UNCHANGED <<file, view, litter>>
  BY <1>1 DEF RenameTmp, End, NoJob, FInv, Types
<1>5. Active' = Active /\ \A v \in Active : v # a /\ v \in Builds /\ job'[v] = job[v]
  BY <1>1, <1>4, Owning DEF Active, Owners
<1>6. Types'
  BY <1>1, <1>2, <1>3, <1>4, NamesApart DEF FInv, Types, NoJob
<1>7. OneName'
  BY <1>1, <1>3 DEF FInv, OneName
<1>8. \A n \in Temps \cup {"object"} : n \in Names /\ dir'[n] = dir[n]
  BY <1>1, <1>3 DEF Names
<1>9. Owned'
  <2>1. \A v \in Active' : job'[v].fd \in Inodes /\ dir'[job'[v].tmp] = job'[v].fd
    BY <1>5, <1>8, Owning DEF FInv, Owned, Active
  <2>2. /\ \A b \in Builds : job'[b].at # "idle" => job'[b].tmp \in Temps
        /\ \A x \in Arms : job'[x].at # "idle" => job'[x].at = "fill" /\ job'[x].tmp = TmpName
    BY <1>4, Owning DEF FInv, Owned
  <2>3. \A u, v \in Active' : job'[u].tmp = job'[v].tmp => u = v
    BY <1>5 DEF FInv, Owned
  <2> QED BY <2>1, <2>2, <2>3 DEF Owned
<1>10. Apart'
  BY <1>4, <1>8, Owning DEF FInv, Apart
<1>11. Filled'
  BY <1>4, <1>5 DEF FInv, Filled
<1>12. Whole'
  BY <1>4, <1>8 DEF FInv, Whole, Sound
<1>13. NoLitter'
  BY <1>4, <1>8, Owning DEF FInv, NoLitter
<1> QED BY <1>6, <1>7, <1>9, <1>10, <1>11, <1>12, <1>13 DEF FInv

\* A writer that ends, with its temporary left behind or removed.
LEMMA EndKeeps ==
    ASSUME FInv, NEW w \in Writers, job[w].at # "idle", End(w), UNCHANGED <<file, view>>,
           \/ dir' = [dir EXCEPT ![job[w].tmp] = None] /\ UNCHANGED litter
           \/ UNCHANGED <<dir, litter>> /\ w \in Arms
           \/ UNCHANGED dir /\ litter' = litter \cup {job[w].tmp} /\ w \in Builds
    PROVE  FInv'
<1> DEFINE t == job[w].tmp
<1>1. /\ w \in Writers /\ t \in Names /\ t \in Fresh
      /\ w \in Builds => t \in Temps
  BY NamesApart DEF FInv, Owned, Writers, Fresh
<1>2. /\ job' = [job EXCEPT ![w] = NoJob]
      /\ job'[w].at = "idle"
      /\ \A v \in Writers \ {w} : job'[v] = job[v]
  BY <1>1 DEF End, NoJob, FInv, Types
<1>3. Active' = Active \ {w}
  BY <1>1, <1>2 DEF Active
<1>4. /\ dir' \in [Names -> Inodes \cup {None}]
      /\ \A n \in Names \ {t} : dir'[n] = dir[n]
      /\ dir'[t] \in {dir[t], None}
      /\ t \in Temps => dir'[t] = None \/ t \in litter'
      /\ litter \subseteq litter' /\ litter' \subseteq Temps
  <2>1. CASE dir' = [dir EXCEPT ![t] = None] /\ UNCHANGED litter
    BY <1>1, <2>1 DEF FInv, Types
  <2>2. CASE UNCHANGED <<dir, litter>> /\ w \in Arms
    <3>1. t \notin Temps
      BY <2>2, NamesApart DEF FInv, Owned
    <3> QED BY <2>2, <3>1 DEF FInv, Types
  <2>3. CASE UNCHANGED dir /\ litter' = litter \cup {t} /\ w \in Builds
    BY <1>1, <2>3 DEF FInv, Types
  <2> QED BY <2>1, <2>2, <2>3
<1>5. \A v \in Active' : v # w /\ job'[v] = job[v] /\ job[v].tmp \in Fresh \ {t}
  <2>1. CASE w \in Active
    BY <1>2, <1>3, <2>1, Owning DEF FInv, Owned, Active, Writers, Fresh
  <2>2. CASE w \notin Active
    <3>1. w \in Arms /\ ~OneArm
      BY <2>2, Owning DEF Active, Writers
    <3>2. t = TmpName
      BY <3>1 DEF FInv, Owned
    <3>3. \A v \in Active' : v \in Builds /\ v # w /\ v \in Active
      BY <1>3, <2>2, <3>1, Owning DEF Active, Owners
    <3> QED BY <1>2, <3>2, <3>3, NamesApart, Owning DEF FInv, Owned, Active, Fresh
  <2> QED BY <2>1, <2>2
<1>a. Apart'
  <2> SUFFICES ASSUME NEW x \in Arms, job'[x].at # "idle", NEW n \in Temps \cup {"object"}
               PROVE  job'[x].fd \in Inodes /\ dir'[n] # job'[x].fd
    BY DEF Apart
  <2>1. n \in Names /\ x # w /\ job'[x] = job[x]
    BY <1>2, Owning DEF Names
  <2>2. job[x].fd \in Inodes /\ dir[n] # job[x].fd
    BY <2>1 DEF FInv, Apart
  <2>3. dir'[n] = dir[n] \/ dir'[n] = None
    BY <1>4, <2>1
  <2> QED BY <2>1, <2>2, <2>3, NamesApart
<1> HIDE DEF t
<1>6. Types'
  BY <1>1, <1>2, <1>4 DEF FInv, Types, NoJob
<1>7. OneName'
  BY <1>1, <1>4 DEF FInv, OneName
<1>8. Owned'
  <2>1. \A v \in Active' : job'[v].fd \in Inodes /\ dir'[job'[v].tmp] = job'[v].fd
    BY <1>3, <1>4, <1>5, NamesApart DEF FInv, Owned
  <2>2. /\ \A b \in Builds : job'[b].at # "idle" => job'[b].tmp \in Temps
        /\ \A a \in Arms : job'[a].at # "idle" => job'[a].at = "fill" /\ job'[a].tmp = TmpName
    BY <1>2 DEF FInv, Owned, Writers
  <2>3. \A u, v \in Active' : job'[u].tmp = job'[v].tmp => u = v
    BY <1>3, <1>5 DEF FInv, Owned
  <2> QED BY <2>1, <2>2, <2>3 DEF Owned
<1>9. Filled'
  BY <1>3, <1>5 DEF FInv, Filled
<1>10. Whole'
  BY <1>1, <1>4, NamesApart, Owning DEF FInv, Whole
<1>11. NoLitter'
  <2> SUFFICES ASSUME NEW n \in Temps, dir'[n] # None
               PROVE  n \in litter' \/ \E b \in Builds : job'[b].at # "idle" /\ job'[b].tmp = n
    BY DEF NoLitter
  <2>1. CASE n = t
    BY <2>1, <1>4
  <2>2. CASE n # t
    <3>1. dir[n] # None
      BY <2>2, <1>4, NamesApart DEF Fresh
    <3>2. n \in litter \/ \E b \in Builds : job[b].at # "idle" /\ job[b].tmp = n
      BY <3>1 DEF FInv, NoLitter
    <3> QED BY <2>2, <3>2, <1>2, <1>4 DEF Writers, t
  <2> QED BY <2>1, <2>2
<1> QED BY <1>6, <1>7, <1>8, <1>a, <1>9, <1>10, <1>11 DEF FInv

\* The file a writer fills is nobody else's.
LEMMA FillApart ==
    ASSUME FInv, NEW w \in Writers, Fill(w)
    PROVE  /\ job[w].at # "idle" /\ job[w].fd \in Inodes
           /\ \A n \in Sound : dir[n] # job[w].fd
           /\ \A v \in Active \ {w} : job[v].fd # job[w].fd
           /\ OneArm => \A r \in Readers : view[r] # job[w].fd
<1>1. job[w].at # "idle"
  BY DEF Fill
<1>2. CASE w \in Active
  <2>1. /\ job[w].fd \in Inodes /\ dir[job[w].tmp] = job[w].fd
        /\ job[w].tmp \in Fresh /\ job[w].tmp \in Names
    BY <1>1, <1>2, NamesApart DEF FInv, Owned, Writers, Fresh
  <2>2. \A v \in Active \ {w} : job[v].fd # job[w].fd
    <3> SUFFICES ASSUME NEW v \in Active \ {w} PROVE job[v].fd # job[w].fd
      OBVIOUS
    <3>1. job[v].tmp \in Names /\ job[v].tmp # job[w].tmp /\ dir[job[v].tmp] = job[v].fd
          /\ job[v].fd \in Inodes
      BY <1>2, Owning, NamesApart DEF FInv, Owned, Active, Writers, Fresh
    <3> QED BY <2>1, <3>1, NamesApart DEF FInv, OneName
  <2>3. \A n \in Sound : dir[n] # job[w].fd
    BY <2>1, NamesApart, Owning DEF FInv, OneName
  <2>4. OneArm => \A r \in Readers : view[r] # job[w].fd
    BY <2>1, NamesApart DEF FInv, Whole
  <2> QED BY <1>1, <2>1, <2>2, <2>3, <2>4
<1>3. CASE w \notin Active
  <2>1. w \in Arms /\ ~OneArm
    BY <1>1, <1>3, Owning DEF Active, Writers
  <2>2. job[w].fd \in Inodes /\ \A n \in Temps \cup {"object"} : dir[n] # job[w].fd
    BY <1>1, <2>1 DEF FInv, Apart
  <2>3. \A v \in Active : dir[job[v].tmp] = job[v].fd /\ job[v].tmp \in Temps
    BY <2>1 DEF FInv, Owned, Active, Owners
  <2> QED BY <1>1, <2>1, <2>2, <2>3 DEF Sound
<1> QED BY <1>2, <1>3

\* A write into the file that its writer owns.
LEMMA FillKeeps ==
    ASSUME FInv, NEW w \in Writers, Fill(w)
    PROVE  FInv'
<1> DEFINE f == job[w].fd
<1>1. /\ job[w].at # "idle" /\ f \in Inodes
      /\ \A n \in Sound : dir[n] # f
      /\ \A v \in Active \ {w} : job[v].fd # f
      /\ OneArm => \A r \in Readers : view[r] # f
  BY FillApart
<1>2. /\ file' \in [Inodes -> [by : Writers \cup {None}, part : {"none", "some", "all"}]]
      /\ file'[f].by = w
      /\ \A g \in Inodes \ {f} : file'[g] = file[g]
      /\ UNCHANGED <<dir, job, view, litter>>
      /\ Active' = Active
  BY <1>1 DEF Fill, FInv, Types, Active
<1>3. Types' /\ OneName' /\ Owned' /\ Apart' /\ NoLitter'
  BY <1>2 DEF FInv, Types, OneName, Owned, Apart, NoLitter
<1>4. job[w].at = "fill"
  BY DEF Fill
<1>5. Filled'
  <2>1. ASSUME NEW v \in Active, v # w
        PROVE  file'[job[v].fd] = file[job[v].fd]
    BY <1>1, <1>2, <2>1 DEF FInv, Owned
  <2> QED BY <1>2, <1>4, <2>1 DEF FInv, Filled
<1>6. Whole'
  <2>1. \A n \in Sound : dir[n] \in Inodes \cup {None}
    BY Owning DEF FInv, Types
  <2> QED BY <1>1, <1>2, <2>1, NamesApart DEF FInv, Types, Whole
<1> QED BY <1>3, <1>5, <1>6 DEF FInv

\* A build goes on to its next step.
LEMMA GotoKeeps ==
    ASSUME FInv, NEW b \in Builds, b \in Active, NEW label \in {"fill", "check", "promote", "exit"},
           Goto(b, label), UNCHANGED <<dir, file, view, litter>>,
           label = "check" => file[job[b].fd].part \in {"none", "all"},
           label = "promote" => file[job[b].fd].part = "all"
    PROVE  FInv'
<1>1. /\ b \in Writers /\ b \notin Arms
      /\ job' = [job EXCEPT ![b].at = label]
  BY NamesAssumption DEF Goto, Writers
<1>2. /\ Active' = Active
      /\ \A w \in Writers : job'[w].tmp = job[w].tmp /\ job'[w].fd = job[w].fd
      /\ job'[b].at = label
      /\ \A w \in Writers \ {b} : job'[w].at = job[w].at
  BY <1>1, Owning DEF FInv, Types, Active
<1>3. Types' /\ OneName' /\ Whole' /\ Apart'
  BY <1>1 DEF FInv, Types, OneName, Whole, Apart, Writers
<1>4. Owned'
  BY <1>1, <1>2, Owning DEF FInv, Owned, Active, Writers
<1>5. Filled'
  BY <1>1, <1>2 DEF FInv, Filled, Active
<1>6. NoLitter'
  BY <1>1, <1>2 DEF FInv, NoLitter, Active, Writers
<1> QED BY <1>3, <1>4, <1>5, <1>6 DEF FInv

-----------------------------------------------------------------------------

LEMMA BuildKeeps ==
    ASSUME FInv, NEW b \in Builds,
           \/ MkTemp(b) \/ SetTrap(b) \/ ClangReturns(b) \/ CheckSize(b)
           \/ Promote(b) \/ ExitTrap(b) \/ KillBuild(b)
    PROVE  FInv'
<1>1. b \in Writers /\ b \in Owners /\ b \notin Arms
  BY Owning
<1>2. CASE MkTemp(b)
  <2>1. PICK t \in Temps : FreshName(t) /\ Create(b, t, "made")
    BY <1>2 DEF MkTemp
  <2> QED BY <1>1, <1>2, <2>1, CreateKeeps DEF MkTemp, FreshName, Fresh
<1>3. CASE ClangReturns(b)
  <2>1. b \in Active
    BY <1>1, <1>3 DEF ClangReturns, Active
  <2>2. CASE ClangOk(file[job[b].fd].part) /\ Goto(b, "check")
    BY <1>3, <2>1, <2>2, GotoKeeps DEF ClangReturns, ClangOk
  <2>3. CASE Goto(b, "exit")
    BY <1>3, <2>1, <2>3, GotoKeeps DEF ClangReturns
  <2> QED BY <1>3, <2>2, <2>3 DEF ClangReturns
<1>4. CASE CheckSize(b)
  <2>1. b \in Active
    BY <1>1, <1>4 DEF CheckSize, Active
  <2>2. file[job[b].fd].part \in {"none", "all"}
    BY <1>4, <2>1 DEF CheckSize, FInv, Filled
  <2>3. CASE file[job[b].fd].part = "none"
    BY <1>4, <2>1, <2>3, GotoKeeps DEF CheckSize
  <2>4. CASE file[job[b].fd].part # "none"
    BY <1>4, <2>1, <2>2, <2>4, GotoKeeps DEF CheckSize
  <2> QED BY <2>3, <2>4
<1>5. CASE Promote(b)
  <2>1. /\ b \in Active /\ file[job[b].fd].part = "all"
        /\ job[b].tmp \in Temps /\ job[b].tmp \in Fresh
    BY <1>1, <1>5 DEF Promote, Active, FInv, Owned, Filled, Fresh
  <2> QED BY <1>5, <2>1, RenameKeeps DEF Promote
<1>6. CASE ExitTrap(b)
  BY <1>1, <1>6, EndKeeps DEF ExitTrap, RemoveTemp
<1>7. CASE KillBuild(b)
  BY <1>1, <1>7, EndKeeps DEF KillBuild
<1>8. CASE SetTrap(b)
  <2>1. b \in Active
    BY <1>1, <1>8 DEF SetTrap, Active
  <2> QED BY <1>8, <2>1, GotoKeeps DEF SetTrap
<1> QED BY <1>2, <1>3, <1>4, <1>5, <1>6, <1>7, <1>8

\* The truncation of a temporary somebody has left behind.
LEMMA TruncateKeeps ==
    ASSUME FInv, NEW a \in Arms, OpenTmp(a), dir[TmpName] # None
    PROVE  FInv'
<1> DEFINE f == dir[TmpName]
<1>1. /\ a \in Writers /\ a \notin Builds /\ job[a].at = "idle"
      /\ TmpName \in Names /\ TmpName \in Fresh /\ TmpName \notin Temps
  BY NamesAssumption, NamesApart DEF OpenTmp, Writers, Fresh
<1>3. /\ f \in Inodes
      /\ file' = [file EXCEPT ![f] = Empty]
      /\ job' = [job EXCEPT ![a] = [at |-> "fill", tmp |-> TmpName, fd |-> f]]
      /\ UNCHANGED <<dir, view, litter>>
  BY <1>1 DEF OpenTmp, FInv, Types
<1>4. /\ job'[a] = [at |-> "fill", tmp |-> TmpName, fd |-> f]
      /\ \A w \in Writers \ {a} : job'[w] = job[w]
  BY <1>1, <1>3 DEF FInv, Types
<1>5. /\ Active' = IF OneArm THEN Active \cup {a} ELSE Active
      /\ a \notin Active
  BY <1>1, <1>4, Owning DEF Active
<1>6. \A w \in Active : w \in Builds /\ job[w].tmp \in Temps /\ job[w].fd # f
  <2>1. \A w \in Active : w \in Builds
    BY <1>5, Owning DEF OneArm, Active, Owners, Writers
  <2>2. \A w \in Active : job[w].tmp \in Temps /\ dir[job[w].tmp] = job[w].fd
    BY <2>1 DEF FInv, Owned, Active
  <2>3. Temps \subseteq Names
    BY DEF Names
  <2> QED BY <1>1, <1>3, <2>1, <2>2, <2>3, NamesApart DEF FInv, OneName
<1>7. /\ \A n \in Names \ {TmpName} : dir[n] # f
      /\ OneArm => \A r \in Readers : view[r] # f
  BY <1>1, <1>3, NamesApart DEF FInv, OneName, Whole
<1> HIDE DEF f
<1>8. Types'
  BY <1>1, <1>3 DEF FInv, Types, Empty
<1>9. OneName'
  BY <1>3 DEF FInv, OneName
<1>10. Owned'
  <2>1. \A v \in Active' : job'[v].fd \in Inodes /\ dir'[job'[v].tmp] = job'[v].fd
    BY <1>3, <1>4, <1>5, Owning DEF FInv, Owned, Active, f
  <2>2. /\ \A b \in Builds : job'[b].at # "idle" => job'[b].tmp \in Temps
        /\ \A x \in Arms : job'[x].at # "idle" => job'[x].at = "fill" /\ job'[x].tmp = TmpName
    BY <1>1, <1>4 DEF FInv, Owned, Writers
  <2>3. \A u, v \in Active' : job'[u].tmp = job'[v].tmp => u = v
    BY <1>1, <1>4, <1>5, <1>6, Owning DEF FInv, Owned, Active
  <2> QED BY <2>1, <2>2, <2>3 DEF Owned
<1>a. Apart'
  <2>1. \A n \in Temps \cup {"object"} : n \in Names \ {TmpName}
    BY <1>1, NamesApart, NamesAssumption DEF Names, TmpName
  <2> QED BY <1>3, <1>4, <1>7, <2>1, Owning DEF FInv, Apart
<1>11. Filled'
  BY <1>3, <1>4, <1>5, <1>6, Owning DEF FInv, Types, Filled, Owned, Active, Empty
<1>12. Whole'
  <2>1. Sound \subseteq Names \ {TmpName}
    BY <1>1, Owning
  <2> QED BY <1>3, <1>7, <2>1, NamesApart DEF FInv, Types, Whole
<1>13. NoLitter'
  BY <1>1, <1>3, <1>4 DEF FInv, NoLitter, Writers
<1> QED BY <1>8, <1>9, <1>10, <1>a, <1>11, <1>12, <1>13 DEF FInv

LEMMA RecordKeeps ==
    ASSUME FInv, NEW a \in Arms, OpenTmp(a) \/ RenameTmp(a) \/ GiveUp(a)
    PROVE  FInv'
<1>1. a \in Writers /\ a \notin Builds
  BY NamesAssumption DEF Writers
<1>2. CASE OpenTmp(a)
  <2>1. CASE dir[TmpName] = None
    BY <1>1, <1>2, <2>1, CreateKeeps DEF OpenTmp, Fresh
  <2>2. CASE dir[TmpName] # None
    BY <1>2, <2>2, TruncateKeeps
  <2> QED BY <2>1, <2>2
<1>3. CASE RenameTmp(a) /\ OneArm
  <2>1. a \in Active /\ job[a].tmp \in Fresh /\ file[job[a].fd].part = "all"
    BY <1>1, <1>3, Owning DEF RenameTmp, Active, FInv, Owned, Fresh
  <2> QED BY <1>3, <2>1, RenameKeeps DEF RenameTmp
<1>4. CASE RenameTmp(a) /\ ~OneArm
  BY <1>4, RivalRenames
<1>5. CASE GiveUp(a)
  BY <1>1, <1>5, EndKeeps DEF GiveUp
<1> QED BY <1>2, <1>3, <1>4, <1>5

LEMMA RemoveKeeps ==
    ASSUME FInv, RemoveState
    PROVE  FInv'
<1>1. /\ dir' \in [Names -> Inodes \cup {None}]
      /\ dir'["record"] = None
      /\ \A n \in Names \ {"record"} : dir'[n] = dir[n]
      /\ UNCHANGED <<file, job, view, litter>>
      /\ Active' = Active
  BY NamesApart DEF RemoveState, FInv, Types, Active
<1>2. \A w \in Active : job[w].tmp \in Names \ {"record"}
  BY NamesApart, Owning DEF FInv, Owned, Active, Writers, Fresh
<1>3. Types' /\ OneName' /\ Owned' /\ Filled'
  BY <1>1, <1>2 DEF FInv, Types, OneName, Owned, Filled
<1>4. Whole' /\ NoLitter' /\ Apart'
  <2>1. \A n \in Temps \cup {"object"} : n \in Names \ {"record"}
    BY NamesAssumption, NamesApart DEF Names
  <2>2. Whole'
    BY <1>1, NamesApart, Owning DEF FInv, Whole, Fresh
  <2> QED BY <1>1, <2>1, <2>2 DEF FInv, NoLitter, Apart
<1> QED BY <1>3, <1>4 DEF FInv

LEMMA ReadingKeeps ==
    ASSUME FInv, NEW name \in {"object", "record"}, Reading(name)
    PROVE  FInv'
<1>1. PICK r \in Readers : OpenFile(r, name) \/ ReadFile(r)
  BY DEF Reading
<1>2. /\ UNCHANGED <<dir, file, job, litter>>
      /\ view' \in [Readers -> Inodes \cup {None}]
      /\ view'[r] \in {None, dir[name]}
      /\ \A q \in Readers \ {r} : view'[q] = view[q]
      /\ Active' = Active
  BY <1>1, NamesApart DEF OpenFile, ReadFile, FInv, Types, Active
<1>3. Types' /\ OneName' /\ Owned' /\ Apart' /\ Filled' /\ NoLitter'
  BY <1>2 DEF FInv, Types, OneName, Owned, Apart, Filled, NoLitter
<1>4. OneArm /\ dir[name] # None =>
          file[dir[name]].part = "all" /\ \A n \in Fresh : dir[n] # dir[name]
  BY NamesApart, Owning DEF FInv, OneName, Whole
<1>5. Whole'
  BY <1>2, <1>4 DEF FInv, Whole
<1> QED BY <1>3, <1>5 DEF FInv

LEMMA StepKeeps ==
    ASSUME FInv, [FilesNext]_fvars
    PROVE  FInv'
<1>1. CASE BuildNext
  <2>1. PICK b \in Builds : \/ Fill(b) \/ MkTemp(b) \/ SetTrap(b) \/ ClangReturns(b) \/ CheckSize(b)
                            \/ Promote(b) \/ ExitTrap(b) \/ KillBuild(b)
    BY <1>1 DEF BuildNext
  <2> QED BY <2>1, FillKeeps, BuildKeeps DEF Writers
<1>2. CASE RecordNext
  <2>1. CASE RemoveState
    BY <2>1, RemoveKeeps
  <2>2. CASE \E a \in Arms : Fill(a) \/ OpenTmp(a) \/ RenameTmp(a) \/ GiveUp(a)
    BY <2>2, FillKeeps, RecordKeeps DEF Writers
  <2> QED BY <1>2, <2>1, <2>2 DEF RecordNext
<1>3. CASE Reading("object") \/ Reading("record")
  BY <1>3, ReadingKeeps
<1>4. CASE UNCHANGED fvars
  BY <1>4 DEF fvars, FInv, Types, OneName, Owned, Apart, Filled, Whole, NoLitter, Active
<1> QED BY <1>1, <1>2, <1>3, <1>4 DEF FilesNext

LEMMA Always == FilesSpec => []FInv
<1>1. FInv /\ [FilesNext]_fvars => FInv'
  BY StepKeeps
<1> QED BY Initially, <1>1, PTL DEF FilesSpec

-----------------------------------------------------------------------------
(* The theorems *)

\* Every variable holds a value of its type, and a build's temporary name is
\* always that of the file it writes (build.sh, write_state_to).
THEOREM FilesTypes == FilesSpec => []FilesTypeOK
<1>1. FInv => FilesTypeOK
  <2> SUFFICES ASSUME FInv PROVE FilesTypeOK
    OBVIOUS
  <2>1. None \notin Names
    BY NamesAssumption DEF Names
  <2>2. \A w \in Writers : job[w].at # "idle" => job[w].tmp # None /\ job[w].fd # None
    BY <2>1, NamesApart, Owning DEF FInv, Owned, Apart, Active, Writers, Fresh
  <2>3. \A b \in Builds : job[b].at # "idle" => dir[job[b].tmp] = job[b].fd
    BY Owning DEF FInv, Owned, Active
  <2> QED BY <2>2, <2>3 DEF FInv, Types, FilesTypeOK
<1> QED BY Always, <1>1, PTL

\* Whoever opens the object or the record reads all of one writer's bytes, when
\* builds and the arming command replace it, fail and die at any point.
THEOREM WholeIsRead == ASSUME OneArm PROVE FilesSpec => []ReadersSeeWhole
<1>1. OneArm /\ FInv => ReadersSeeWhole
  BY DEF FInv, Whole, ReadersSeeWhole
<1> QED BY Always, <1>1, PTL

\* build.sh: once the trap is set it leaves no temporary behind, except to a
\* SIGKILL, however many builds run and whatever they fail at.
THEOREM NothingIsLeft == FilesSpec => []NoLitter
<1>1. FInv => NoLitter
  BY DEF FInv
<1> QED BY Always, <1>1, PTL

-----------------------------------------------------------------------------
(* The refinements.  Promote and RenameTmp are an abstract Replace, RemoveState *)
(* a Remove; no other step changes what is read under either name.              *)

Published == {"object", "record"}

\* A name keeps its value with its file, if that does not change.
LEMMA SameValue ==
    ASSUME NEW name, dir'[name] = dir[name],
           dir[name] # None => file'[dir[name]] = file[dir[name]]
    PROVE  UNCHANGED Whose(name)
BY DEF Whose

LEMMA CreateHidden ==
    ASSUME FInv, NEW w \in Writers, NEW t \in Fresh, NEW label, Create(w, t, label),
           NEW name \in Published
    PROVE  UNCHANGED Whose(name)
<1>1. PICK f \in Inodes :
        /\ ~InUse(f)
        /\ dir' = [dir EXCEPT ![t] = f]
        /\ file' = [file EXCEPT ![f] = Empty]
  BY DEF Create
<1>2. name \in Names /\ name # t /\ dir[name] # f
  BY <1>1, NamesApart DEF InUse, Published
<1> QED BY <1>1, <1>2, SameValue, NamesApart DEF FInv, Types

LEMMA TruncateHidden ==
    ASSUME FInv, NEW a \in Arms, OpenTmp(a), NEW name \in Published
    PROVE  UNCHANGED Whose(name)
<1>1. TmpName \in Fresh /\ TmpName \in Names /\ name \in Names /\ name # TmpName
  BY NamesApart DEF Fresh, Published
<1>2. CASE dir[TmpName] = None
  <2>1. a \in Writers /\ Create(a, TmpName, "fill")
    BY <1>2 DEF OpenTmp, Writers
  <2> QED BY <1>1, <2>1, CreateHidden
<1>3. CASE dir[TmpName] # None
  <2>1. dir[name] # None => dir[name] # dir[TmpName]
    BY <1>1 DEF FInv, OneName
  <2>2. UNCHANGED dir /\ file' = [file EXCEPT ![dir[TmpName]] = Empty]
    BY <1>3 DEF OpenTmp
  <2>3. dir[name] # None => file'[dir[name]] = file[dir[name]]
    BY <1>1, <2>1, <2>2 DEF FInv, Types
  <2> QED BY <2>2, <2>3, SameValue
<1> QED BY <1>2, <1>3

LEMMA FillHidden ==
    ASSUME FInv, NEW w \in Writers, Fill(w), NEW name \in Published,
           w \in Builds \/ name \in Sound
    PROVE  UNCHANGED Whose(name) /\ UNCHANGED job
<1>1. dir[name] # None => dir[name] # job[w].fd
  <2>1. CASE name \in Sound
    BY <2>1, FillApart
  <2>2. CASE w \in Builds
    <3>1. w \in Active /\ job[w].tmp \in Fresh /\ dir[job[w].tmp] = job[w].fd
      BY <2>2, Owning DEF Fill, FInv, Owned, Active, Fresh
    <3> QED BY <3>1, NamesApart DEF FInv, OneName, Published
  <2> QED BY <2>1, <2>2
<1>2. dir[name] # None => file'[dir[name]] = file[dir[name]]
  BY <1>1, NamesApart DEF Fill, FInv, Types, Published
<1> QED BY <1>2, SameValue DEF Fill

LEMMA EndHidden ==
    ASSUME FInv, NEW t \in Fresh, dir' = dir \/ dir' = [dir EXCEPT ![t] = None],
           UNCHANGED file, NEW name \in Published
    PROVE  UNCHANGED Whose(name)
<1>1. dir'[name] = dir[name]
  BY NamesApart DEF FInv, Types, Published
<1> QED BY <1>1, SameValue

LEMMA RenameShows ==
    ASSUME FInv, NEW w \in Active, NEW name \in Published, RenameTo(w, name), UNCHANGED file,
           job[w].tmp \in Fresh, file[job[w].fd].part = "all"
    PROVE  /\ Whose(name)' = w
           /\ \A other \in Published \ {name} : UNCHANGED Whose(other)
<1>1. /\ job[w].fd \in Inodes /\ dir[job[w].tmp] = job[w].fd
      /\ file[job[w].fd].by = w
      /\ job[w].tmp \in Names /\ name \in Names /\ name # job[w].tmp
  BY NamesApart DEF FInv, Owned, Filled, Published
<1>2. /\ dir'[name] = job[w].fd
      /\ \A other \in Published \ {name} : dir'[other] = dir[other]
  BY <1>1, NamesApart DEF RenameTo, FInv, Types, Published
<1>3. Whose(name)' = w
  BY <1>1, <1>2, NamesApart DEF Whose
<1> QED BY <1>2, <1>3, SameValue

\* Who is at work after a step of one writer.
LEMMA BusyAfter ==
    ASSUME NEW w \in Writers, NEW some \in SUBSET Writers,
           \A v \in Writers \ {w} : job'[v] = job[v]
    PROVE  /\ w \notin some => UNCHANGED Busy(some)
           /\ w \in some /\ job'[w].at # "idle" => Busy(some)' = Busy(some) \cup {w}
           /\ job'[w].at = "idle" => Busy(some)' = Busy(some) \ {w}
BY DEF Busy

LEMMA Sides ==
    /\ Builds \in SUBSET Writers /\ Arms \in SUBSET Writers
    /\ \A b \in Builds : b \in Writers /\ b \notin Arms
    /\ \A a \in Arms : a \in Writers /\ a \notin Builds
BY NamesAssumption DEF Writers

LEMMA BuildSteps ==
    ASSUME FInv, NEW b \in Builds,
           \/ Fill(b) \/ MkTemp(b) \/ SetTrap(b) \/ ClangReturns(b) \/ CheckSize(b)
           \/ Promote(b) \/ ExitTrap(b) \/ KillBuild(b)
    PROVE  /\ UNCHANGED <<Whose("record"), Busy(Arms)>>
           /\ \/ Object!Start(b) \/ Object!Replace(b) \/ Object!GiveUp(b)
              \/ UNCHANGED <<Whose("object"), Busy(Builds)>>
<1>1. b \in Writers /\ b \in Owners /\ b \notin Arms /\ {"object", "record"} = Published
  BY Sides, Owning DEF Published
<1>2. CASE Fill(b)
  BY <1>1, <1>2, FillHidden DEF Published, Busy
<1>3. CASE MkTemp(b)
  <2>1. PICK t \in Temps : Create(b, t, "made")
    BY <1>3 DEF MkTemp
  <2>2. UNCHANGED <<Whose("object"), Whose("record")>>
    BY <1>1, <2>1, CreateHidden DEF Fresh, Published
  <2>3. job[b].at = "idle" /\ job'[b].at = "made" /\ \A v \in Writers \ {b} : job'[v] = job[v]
    BY <1>1, <1>3, <2>1 DEF MkTemp, Create, FInv, Types
  <2>4. Busy(Builds)' = Busy(Builds) \cup {b} /\ UNCHANGED Busy(Arms)
    BY <1>1, <2>3, BusyAfter, Sides
  <2>5. b \notin Busy(Builds)
    BY <2>3 DEF Busy
  <2> QED BY <2>2, <2>4, <2>5 DEF Object!Start
<1>4. CASE SetTrap(b) \/ ClangReturns(b) \/ CheckSize(b)
  <2>1. UNCHANGED <<dir, file>> /\ job[b].at # "idle"
    BY <1>4 DEF SetTrap, ClangReturns, CheckSize
  <2>2. job'[b].at # "idle" /\ \A v \in Writers \ {b} : job'[v] = job[v]
    BY <1>1, <1>4 DEF SetTrap, ClangReturns, CheckSize, Goto, FInv, Types
  <2>3. Busy(Builds)' = Busy(Builds) \cup {b} /\ UNCHANGED Busy(Arms)
    BY <1>1, <2>2, BusyAfter, Sides
  <2>4. b \in Busy(Builds)
    BY <2>1 DEF Busy
  <2>5. UNCHANGED <<Whose("object"), Whose("record")>>
    BY <2>1 DEF Whose
  <2> QED BY <2>3, <2>4, <2>5
<1>5. CASE Promote(b) \/ ExitTrap(b) \/ KillBuild(b)
  <2>1. /\ b \in Active /\ b \in Busy(Builds) /\ job[b].tmp \in Fresh
        /\ End(b) /\ UNCHANGED file
    BY <1>1, <1>5 DEF Promote, ExitTrap, KillBuild, Busy, Active, FInv, Owned, Fresh
  <2>2. job'[b].at = "idle" /\ \A v \in Writers \ {b} : job'[v] = job[v]
    BY <1>1, <2>1 DEF End, NoJob, FInv, Types
  <2>3. Busy(Builds)' = Busy(Builds) \ {b} /\ UNCHANGED Busy(Arms)
    BY <1>1, <2>2, BusyAfter, Sides
  <2>4. CASE Promote(b)
    <3>1. RenameTo(b, "object") /\ file[job[b].fd].part = "all"
      BY <2>1, <2>4 DEF Promote, FInv, Filled
    <3>2. Whose("object")' = b /\ UNCHANGED Whose("record")
      BY <2>1, <3>1, RenameShows DEF Published
    <3> QED BY <2>1, <2>3, <3>2 DEF Object!Replace
  <2>5. CASE ExitTrap(b) \/ KillBuild(b)
    <3>1. dir' = dir \/ dir' = [dir EXCEPT ![job[b].tmp] = None]
      BY <2>5 DEF ExitTrap, KillBuild, RemoveTemp
    <3>2. UNCHANGED <<Whose("object"), Whose("record")>>
      BY <2>1, <3>1, EndHidden DEF Published
    <3> QED BY <2>1, <2>3, <3>2 DEF Object!GiveUp
  <2> QED BY <1>5, <2>4, <2>5
<1> QED BY <1>2, <1>3, <1>4, <1>5

\* The object sees nothing of the arming commands; the record is replaced as a
\* whole if there is one of them.
LEMMA ArmSteps ==
    ASSUME FInv, NEW a \in Arms, Fill(a) \/ OpenTmp(a) \/ RenameTmp(a) \/ GiveUp(a)
    PROVE  /\ UNCHANGED <<Whose("object"), Busy(Builds)>>
           /\ OneArm => \/ Record!Start(a) \/ Record!Replace(a) \/ Record!GiveUp(a)
                        \/ UNCHANGED <<Whose("record"), Busy(Arms)>>
<1>1. a \in Writers /\ a \notin Builds /\ (a \in Owners <=> OneArm)
  BY Sides, Owning
<1>2. CASE Fill(a)
  BY <1>1, <1>2, FillHidden, Owning DEF Published, Busy
<1>3. CASE OpenTmp(a)
  <2>1. UNCHANGED <<Whose("object"), Whose("record")>>
    BY <1>3, TruncateHidden DEF Published
  <2>2. job[a].at = "idle" /\ job'[a].at = "fill" /\ \A v \in Writers \ {a} : job'[v] = job[v]
    BY <1>1, <1>3 DEF OpenTmp, Create, FInv, Types
  <2>3. Busy(Arms)' = Busy(Arms) \cup {a} /\ UNCHANGED Busy(Builds)
    BY <1>1, <2>2, BusyAfter, Sides
  <2>4. a \notin Busy(Arms)
    BY <2>2 DEF Busy
  <2> QED BY <2>1, <2>3, <2>4 DEF Record!Start
<1>4. CASE RenameTmp(a) \/ GiveUp(a)
  <2>1. /\ a \in Busy(Arms) /\ job[a].at # "idle" /\ job[a].tmp = TmpName
        /\ End(a) /\ UNCHANGED file
    BY <1>1, <1>4 DEF RenameTmp, GiveUp, Busy, FInv, Owned
  <2>2. job'[a].at = "idle" /\ \A v \in Writers \ {a} : job'[v] = job[v]
    BY <1>1, <2>1 DEF End, NoJob, FInv, Types
  <2>3. Busy(Arms)' = Busy(Arms) \ {a} /\ UNCHANGED Busy(Builds)
    BY <1>1, <2>2, BusyAfter, Sides
  <2>4. CASE RenameTmp(a)
    <3>1. RenameTo(a, "record") /\ file[job[a].fd].part = "all"
      BY <2>4 DEF RenameTmp
    <3>2. dir'["object"] = dir["object"]
      BY <2>1, <3>1, NamesApart DEF RenameTo, FInv, Types, Fresh
    <3>3. UNCHANGED Whose("object")
      BY <2>1, <3>2 DEF Whose
    <3>4. OneArm => Whose("record")' = a
      BY <1>1, <2>1, <3>1, RenameShows DEF Published, Active, Fresh
    <3> QED BY <2>1, <2>3, <3>3, <3>4 DEF Record!Replace
  <2>5. CASE GiveUp(a)
    <3>1. UNCHANGED dir
      BY <2>5 DEF GiveUp
    <3>2. UNCHANGED <<Whose("object"), Whose("record")>>
      BY <2>1, <3>1 DEF Whose
    <3> QED BY <2>1, <2>3, <3>2 DEF Record!GiveUp
  <2> QED BY <1>4, <2>4, <2>5
<1> QED BY <1>2, <1>3, <1>4

LEMMA OtherSteps ==
    ASSUME FInv, RemoveState \/ Reading("object") \/ Reading("record") \/ UNCHANGED fvars
    PROVE  /\ UNCHANGED <<Whose("object"), Busy(Builds), Busy(Arms)>>
           /\ Record!Remove \/ UNCHANGED Whose("record")
<1>1. UNCHANGED <<file, job>>
  BY DEF RemoveState, Reading, OpenFile, ReadFile, fvars
<1>2. UNCHANGED <<Busy(Builds), Busy(Arms)>>
  BY <1>1 DEF Busy
<1>3. CASE RemoveState
  <2>1. dir'["record"] = None /\ dir'["object"] = dir["object"]
    BY <1>3, NamesApart DEF RemoveState, FInv, Types
  <2> QED BY <1>1, <1>2, <2>1 DEF Whose, Record!Remove
<1>4. CASE Reading("object") \/ Reading("record") \/ UNCHANGED fvars
  <2>1. UNCHANGED dir
    BY <1>4 DEF Reading, OpenFile, ReadFile, fvars
  <2> QED BY <1>1, <1>2, <2>1 DEF Whose
<1> QED BY <1>3, <1>4

-----------------------------------------------------------------------------

\* build.sh: however many builds run at once, fail or are killed, the object is
\* replaced at once, by a build that succeeded, or stays what it was.
THEOREM ObjectAtomic == FilesSpec => ObjectIsAtomic
<1>1. FilesInit => Object!Init
  BY NamesAssumption DEF FilesInit, Object!Init, Whose, Busy, NoJob, Names, Writers
<1>2. FInv /\ [FilesNext]_fvars => [Object!Next]_Object!vars
  <2> SUFFICES ASSUME FInv, [FilesNext]_fvars PROVE [Object!Next]_Object!vars
    OBVIOUS
  <2>1. CASE BuildNext
    <3>1. PICK b \in Builds : \/ Fill(b) \/ MkTemp(b) \/ SetTrap(b) \/ ClangReturns(b) \/ CheckSize(b)
                              \/ Promote(b) \/ ExitTrap(b) \/ KillBuild(b)
      BY <2>1 DEF BuildNext
    <3> QED BY <3>1, BuildSteps DEF Object!Next, Object!vars
  <2>2. CASE \E a \in Arms : Fill(a) \/ OpenTmp(a) \/ RenameTmp(a) \/ GiveUp(a)
    BY <2>2, ArmSteps DEF Object!vars
  <2>3. CASE RemoveState \/ Reading("object") \/ Reading("record") \/ UNCHANGED fvars
    BY <2>3, OtherSteps DEF Object!vars
  <2> QED BY <2>1, <2>2, <2>3 DEF FilesNext, RecordNext
<1> QED BY <1>1, <1>2, Always, PTL DEF FilesSpec, ObjectIsAtomic, Object!Spec

\* deadman.rs: the record is written atomically, beside removals, readers and
\* builds, and whatever earlier commands left behind in the temporary.
THEOREM RecordAtomic == ASSUME OneArm PROVE FilesSpec => RecordIsAtomic
<1>1. FilesInit => Record!Init
  BY NamesAssumption DEF FilesInit, Record!Init, Whose, Busy, NoJob, Names, Writers
<1>2. OneArm /\ FInv /\ [FilesNext]_fvars => [Record!Next]_Record!vars
  <2> SUFFICES ASSUME OneArm, FInv, [FilesNext]_fvars PROVE [Record!Next]_Record!vars
    OBVIOUS
  <2>1. CASE BuildNext
    BY <2>1, BuildSteps DEF BuildNext, Record!vars
  <2>2. CASE \E a \in Arms : Fill(a) \/ OpenTmp(a) \/ RenameTmp(a) \/ GiveUp(a)
    <3>1. PICK a \in Arms : Fill(a) \/ OpenTmp(a) \/ RenameTmp(a) \/ GiveUp(a)
      BY <2>2
    <3> QED BY <3>1, ArmSteps DEF Record!Next, Record!vars
  <2>3. CASE RemoveState \/ Reading("object") \/ Reading("record") \/ UNCHANGED fvars
    BY <2>3, OtherSteps DEF Record!Next, Record!Remove, Record!vars
  <2> QED BY <2>1, <2>2, <2>3 DEF FilesNext, RecordNext
<1> QED BY <1>1, <1>2, Always, PTL DEF FilesSpec, RecordIsAtomic, Record!Spec
=============================================================================
