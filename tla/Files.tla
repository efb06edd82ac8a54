------------------------------- MODULE Files -------------------------------
(***************************************************************************)
(* The two files that are replaced as a whole through a temporary: the     *)
(* object bpolicy.bpf.o, by bpf/build.sh, and the record deadman.json, by  *)
(* write_state_to (src/src/deadman.rs).                                    *)
(*                                                                         *)
(* Names point to files, and a process that has a file open keeps it when  *)
(* the name goes to another one.  Each system call on a name or a file is  *)
(* an action; a file is filled by two writes.  Processes may be killed     *)
(* between any two of them.                                                *)
(***************************************************************************)
EXTENDS Integers, FiniteSets

CONSTANTS
    Builds,  \* runs of build.sh
    Arms,    \* commands that write the record: load, renew
    Readers, \* processes that read either file: bpftool, status, renew, ...
    Temps,   \* names mktemp can come up with
    Inodes,  \* bound: files there can be at one time
    None     \* no file, no name, nobody

ASSUME NamesAssumption ==
    /\ Builds \cap Arms = {}
    /\ None \notin Builds \cup Arms \cup Temps \cup Inodes
    /\ None \notin {"object", "record", "deadman.tmp"}
    /\ Temps \cap {"object", "record", "deadman.tmp"} = {}

Writers == Builds \cup Arms
Names   == Temps \cup {"object", "record", "deadman.tmp"}

VARIABLES
    dir,    \* the file each name points to
    file,   \* what each file holds: whose bytes, and how much of them
    job,    \* what each writer is doing, with its temporary's name and file
    view,   \* what each reader has open
    litter  \* history: temporaries of builds that a signal ended without their trap

fvars == <<dir, file, job, view, litter>>

Empty   == [by |-> None, part |-> "none"]
NoJob   == [at |-> "idle", tmp |-> None, fd |-> None]

InUse(f) ==
    \/ \E n \in Names : dir[n] = f
    \/ \E w \in Writers : job[w].fd = f
    \/ \E r \in Readers : view[r] = f

Goto(w, label) == job' = [job EXCEPT ![w].at = label]
End(w)         == job' = [job EXCEPT ![w] = NoJob]

\* A new, empty file under a name, opened by a writer.
Create(w, name, label) ==
    /\ \E f \in Inodes : ~InUse(f)
    /\ LET f == CHOOSE f \in Inodes : ~InUse(f)
       IN  /\ dir' = [dir EXCEPT ![name] = f]
           /\ file' = [file EXCEPT ![f] = Empty]
           /\ job' = [job EXCEPT ![w] = [at |-> label, tmp |-> name, fd |-> f]]

\* rename(2): the other name's file, if any, loses that name.
RenameTo(w, name) ==
    dir' = [dir EXCEPT ![name] = dir[job[w].tmp], ![job[w].tmp] = None]

\* A write at the end of what the writer has written so far.
Fill(w) ==
    /\ job[w].at = "fill"
    /\ file[job[w].fd].part # "all"
    /\ file' = [file EXCEPT ![job[w].fd] =
                    [by |-> w, part |-> IF @.part = "none" THEN "some" ELSE "all"]]
    /\ UNCHANGED <<dir, job, view, litter>>

-----------------------------------------------------------------------------
(* build.sh; without a clang it ends before it does anything *)

\* mktemp makes a name that was not there.  Mutant: a fixed name.
AnyName(t)   == TRUE
FreshName(t) == dir[t] = None

MkTemp(b) ==
    /\ job[b].at = "idle"
    /\ \E t \in Temps : FreshName(t) /\ Create(b, t, "made")
    /\ UNCHANGED <<view, litter>>

\* A command of its own: the temporary is there before the trap is.
SetTrap(b) ==
    /\ job[b].at = "made"
    /\ Goto(b, "fill")
    /\ UNCHANGED <<dir, file, view, litter>>

\* clang returns.  It may fail at any time, and only a success counts.  Mutant:
\* its exit status is lost.
StatusMasked(part) == TRUE
ClangOk(part)      == part \in {"none", "all"}

ClangReturns(b) ==
    /\ job[b].at = "fill"
    /\ \/ ClangOk(file[job[b].fd].part) /\ Goto(b, "check")
       \/ Goto(b, "exit")
    /\ UNCHANGED <<dir, file, view, litter>>

\* [ -s tmp ]: an empty object is not promoted.
CheckSize(b) ==
    /\ job[b].at = "check"
    /\ Goto(b, IF file[job[b].fd].part = "none" THEN "exit" ELSE "promote")
    /\ UNCHANGED <<dir, file, view, litter>>

\* mv -f within one directory; the trap has nothing left to remove.
Promote(b) ==
    /\ job[b].at = "promote"
    /\ RenameTo(b, "object")
    /\ End(b)
    /\ UNCHANGED <<file, view, litter>>

\* The trap on EXIT: after a failure, an interrupt or a termination.  Mutant:
\* no trap.
LeaveTemp(b)  == UNCHANGED dir
RemoveTemp(b) == dir' = [dir EXCEPT ![job[b].tmp] = None]

ExitTrap(b) ==
    /\ job[b].at \notin {"idle", "made"}
    /\ RemoveTemp(b)
    /\ End(b)
    /\ UNCHANGED <<file, view, litter>>

\* SIGKILL at any time; before the trap is set, any signal that ends the shell.
KillBuild(b) ==
    /\ job[b].at # "idle"
    /\ litter' = litter \cup {job[b].tmp}
    /\ End(b)
    /\ UNCHANGED <<dir, file, view>>

-----------------------------------------------------------------------------
(* write_state_to and remove_state_at *)

\* path.with_extension("tmp").  Mutant: the record is written in place.
InPlace == "record"
TmpName == "deadman.tmp"

\* fs::write opens the one temporary name, with O_CREAT and O_TRUNC.
OpenTmp(a) ==
    /\ job[a].at = "idle"
    /\ \/ /\ dir[TmpName] = None
          /\ Create(a, TmpName, "fill")
       \/ /\ dir[TmpName] # None
          /\ file' = [file EXCEPT ![dir[TmpName]] = Empty]
          /\ job' = [job EXCEPT ![a] = [at |-> "fill", tmp |-> TmpName, fd |-> dir[TmpName]]]
          /\ UNCHANGED dir
    /\ UNCHANGED <<view, litter>>

\* fs::rename, once the write has gone through and if the name is still there.
RenameTmp(a) ==
    /\ job[a].at = "fill"
    /\ file[job[a].fd].part = "all"
    /\ dir[TmpName] # None
    /\ RenameTo(a, "record")
    /\ End(a)
    /\ UNCHANGED <<file, view, litter>>

\* The write or the rename fails, or the process is killed: nothing is undone.
GiveUp(a) ==
    /\ job[a].at # "idle"
    /\ End(a)
    /\ UNCHANGED <<dir, file, view, litter>>

\* An unload disarms.
RemoveState ==
    /\ dir' = [dir EXCEPT !["record"] = None]
    /\ UNCHANGED <<file, job, view, litter>>

-----------------------------------------------------------------------------
(* read_state_from; bpftool prog loadall *)

OpenFile(r, name) ==
    /\ view[r] = None
    /\ view' = [view EXCEPT ![r] = dir[name]]
    /\ UNCHANGED <<dir, file, job, litter>>

\* What it reads, at any time while it has the file open, is what the file holds.
ReadFile(r) ==
    /\ view[r] # None
    /\ view' = [view EXCEPT ![r] = None]
    /\ UNCHANGED <<dir, file, job, litter>>

-----------------------------------------------------------------------------

\* Nothing has been built and nothing armed.
FilesInit ==
    /\ dir = [n \in Names |-> None]
    /\ file = [f \in Inodes |-> Empty]
    /\ job = [w \in Writers |-> NoJob]
    /\ view = [r \in Readers |-> None]
    /\ litter = {}

BuildNext == \E b \in Builds :
                \/ Fill(b) \/ MkTemp(b) \/ SetTrap(b) \/ ClangReturns(b) \/ CheckSize(b)
                \/ Promote(b) \/ ExitTrap(b) \/ KillBuild(b)

RecordNext == \/ \E a \in Arms : Fill(a) \/ OpenTmp(a) \/ RenameTmp(a) \/ GiveUp(a)
              \/ RemoveState

Reading(name) == \E r \in Readers : OpenFile(r, name) \/ ReadFile(r)

FilesNext == BuildNext \/ RecordNext \/ Reading("object") \/ Reading("record")

FilesSpec == FilesInit /\ [][FilesNext]_fvars

-----------------------------------------------------------------------------
(* Properties *)

\* Every variable holds a value of its type; who is at work has a file open, and
\* the temporary of a build names that file and nothing else.
FilesTypeOK ==
    /\ dir \in [Names -> Inodes \cup {None}]
    /\ file \in [Inodes -> [by : Writers \cup {None}, part : {"none", "some", "all"}]]
    /\ job \in [Writers -> [at : {"idle", "made", "fill", "check", "promote", "exit"},
                            tmp : Names \cup {None}, fd : Inodes \cup {None}]]
    /\ \A w \in Writers : job[w].at # "idle" => job[w].tmp # None /\ job[w].fd # None
    /\ \A b \in Builds : job[b].at # "idle" => dir[job[b].tmp] = job[b].fd
    /\ view \in [Readers -> Inodes \cup {None}]
    /\ litter \subseteq Temps

\* Who opens the object or the record and reads it later, while builds and
\* commands replace it and some of them die, reads all of one writer's bytes.
ReadersSeeWhole ==
    \A r \in Readers : view[r] # None => file[view[r]].part = "all"

\* However builds fail and wherever they are interrupted, a temporary that no
\* build is at work on was left by one that SIGKILL ended, or any signal in the
\* moment between mktemp and the trap.
NoLitter ==
    \A t \in Temps : dir[t] # None =>
        t \in litter \/ \E b \in Builds : job[b].at # "idle" /\ job[b].tmp = t

\* Whose content a name has.
Whose(name) ==
    IF dir[name] = None THEN None
    ELSE IF file[dir[name]].part = "all" THEN file[dir[name]].by ELSE "torn"

Busy(some) == {w \in some : job[w].at # "idle"}

Object == INSTANCE AtomicFile WITH
    Writers <- Builds, Absent <- None, value <- Whose("object"), writing <- Busy(Builds)
Record == INSTANCE AtomicFile WITH
    Writers <- Arms, Absent <- None, value <- Whose("record"), writing <- Busy(Arms)

\* build.sh: the object is promoted atomically, and only on success, however
\* many builds run at once.
ObjectIsAtomic == Object!Spec

\* deadman.rs: the record is written atomically.  For one arming command at a
\* time; removals and readers come as they like.
RecordIsAtomic == Record!Spec

=============================================================================
