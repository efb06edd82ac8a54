------------------------------ MODULE TraceLog ------------------------------
(***************************************************************************)
(* `bpolicy log -n N` (tail_trace_pipe in src/src/bpf.rs): the hook and    *)
(* everybody else write lines into the kernel's trace ring, `sudo cat      *)
(* trace_pipe` moves them into a pipe, and the log prints those that name  *)
(* bpolicy until it has N.                                                 *)
(*                                                                         *)
(* Reading trace_pipe consumes: a line goes to one reader, and a reader    *)
(* that goes away takes with it what it has not printed.  The ring drops   *)
(* its oldest line when it is full.  A line is its number in `trace`.      *)
(***************************************************************************)
EXTENDS Integers, Sequences

CONSTANTS
    Logs,     \* runs of bpolicy log
    Counts,   \* values of -n, 0 = tail forever
    RingCap,  \* lines the trace ring holds
    PipeCap,  \* lines the pipe between cat and the log holds
    MaxLines  \* bound: lines written to the trace

ASSUME LogAssumption ==
    /\ Counts \subseteq Nat
    /\ RingCap \in Nat \ {0} /\ PipeCap \in Nat \ {0}
    /\ MaxLines \in Nat

VARIABLES
    trace, \* every line written so far: whether it is ours and whether it is UTF-8
    ring,  \* lines in the ring, oldest first
    cats,  \* the logs whose cat is running
    pipe,  \* the pipe of each log
    log    \* each log

lvars == <<trace, ring, cats, pipe, log>>

Lines == [ours : BOOLEAN, utf8 : BOOLEAN]

\* from and alone are history: the first line the log could get, and whether it
\* has been the only reader of a ring that dropped nothing.
NoLog == [at |-> "idle", n |-> 0, out |-> <<>>, from |-> 1, alone |-> FALSE]

Tailing(l) == log[l].at = "reading"

Shared(some) == [l \in Logs |-> IF l \in some THEN [log[l] EXCEPT !.alone = FALSE] ELSE log[l]]

\* bpf_printk of a denial, or somebody else's line.  A path may hold any bytes.
Emit(line) ==
    /\ Len(trace) < MaxLines
    /\ trace' = Append(trace, line)
    /\ \/ /\ Len(ring) < RingCap
          /\ ring' = Append(ring, Len(trace'))
          /\ UNCHANGED log
       \/ /\ Len(ring) = RingCap
          /\ ring' = Append(Tail(ring), Len(trace'))
          /\ log' = Shared(Logs)
    /\ UNCHANGED <<cats, pipe>>

\* The spawn of sudo cat.  When sudo refuses, its output ends at once.
LogBegin(l, n) ==
    /\ log[l].at = "idle"
    /\ log' = [Shared(Logs) EXCEPT ![l] =
                  [at |-> "reading", n |-> n, out |-> <<>>, alone |-> cats = {},
                   from |-> IF ring = <<>> THEN Len(trace) + 1 ELSE Head(ring)]]
    /\ cats' \in {cats \cup {l}, cats}
    /\ UNCHANGED <<trace, ring, pipe>>

\* cat reads some lines and writes them to the pipe.
CatReads(l) ==
    /\ l \in cats
    /\ Tailing(l)
    /\ \E k \in 1..Len(ring) :
          /\ Len(pipe[l]) + k <= PipeCap
          /\ pipe' = [pipe EXCEPT ![l] = @ \o SubSeq(ring, 1, k)]
          /\ ring' = SubSeq(ring, k + 1, Len(ring))
    /\ UNCHANGED <<trace, cats, log>>

\* The log has gone: cat takes lines once more, and dies of SIGPIPE with them.
CatDies(l) ==
    /\ l \in cats
    /\ ~Tailing(l)
    /\ \E k \in 1..Len(ring) : ring' = SubSeq(ring, k + 1, Len(ring))
    /\ cats' = cats \ {l}
    /\ UNCHANGED <<trace, pipe, log>>

\* The log returns, and nobody waits for cat; what the pipe holds is lost.
Return(l, out, remaining) ==
    /\ log' = [log EXCEPT ![l].at = "done", ![l].out = out]
    /\ pipe' = [pipe EXCEPT ![l] = <<>>]
    /\ cats' = remaining

\* The loop over the lines.  Mutant: it wants more than n.
MoreThan(l, count) == log[l].n > 0 /\ count > log[l].n
Enough(l, count)   == log[l].n > 0 /\ count >= log[l].n

\* Mutant: lines that are not UTF-8 are skipped.
SkipLine(l)  == UNCHANGED <<log, cats>> /\ pipe' = [pipe EXCEPT ![l] = Tail(@)]
BreakLoop(l) == Return(l, log[l].out, cats)

NextLine(l) ==
    /\ Tailing(l)
    /\ pipe[l] # <<>>
    /\ LET line == trace[Head(pipe[l])]
           out  == Append(log[l].out, Head(pipe[l]))
       IN  \/ /\ ~line.utf8
              /\ BreakLoop(l)
           \/ /\ line.utf8 /\ line.ours
              /\ Enough(l, Len(out))
              /\ Return(l, out, cats) \/ Return(l, out, cats \ {l})
           \/ /\ line.utf8 /\ line.ours
              /\ ~Enough(l, Len(out))
              /\ log' = [log EXCEPT ![l].out = out]
              /\ pipe' = [pipe EXCEPT ![l] = Tail(@)]
              /\ UNCHANGED cats
           \/ /\ line.utf8 /\ ~line.ours
              /\ pipe' = [pipe EXCEPT ![l] = Tail(@)]
              /\ UNCHANGED <<log, cats>>
    /\ UNCHANGED <<trace, ring>>

\* The end of cat's output.
Eof(l) ==
    /\ Tailing(l)
    /\ l \notin cats
    /\ pipe[l] = <<>>
    /\ Return(l, log[l].out, cats)
    /\ UNCHANGED <<trace, ring>>

\* Ctrl-C ends the log and its cat.
Interrupt(l) ==
    /\ Tailing(l)
    /\ Return(l, log[l].out, cats \ {l})
    /\ UNCHANGED <<trace, ring>>

-----------------------------------------------------------------------------

LogInit ==
    /\ trace = <<>>
    /\ ring = <<>>
    /\ cats = {}
    /\ pipe = [l \in Logs |-> <<>>]
    /\ log = [l \in Logs |-> NoLog]

LogNext ==
    \/ \E line \in Lines : Emit(line)
    \/ \E l \in Logs : \/ \E n \in Counts : LogBegin(l, n)
                       \/ CatReads(l) \/ CatDies(l) \/ NextLine(l) \/ Eof(l) \/ Interrupt(l)

\* cat and the log go on while there is something to read; nobody has to deny,
\* to interrupt, or to write another line.
LogFairness ==
    \A l \in Logs : WF_lvars(CatReads(l)) /\ WF_lvars(NextLine(l)) /\ WF_lvars(Eof(l))

LogSpec == LogInit /\ [][LogNext]_lvars /\ LogFairness

-----------------------------------------------------------------------------
(* Properties *)

\* Every variable holds a value of its type, within its bounds; a log prints no
\* more lines than it was asked for, and while it still reads it has fewer.
LogTypeOK ==
    /\ trace \in Seq(Lines) /\ Len(trace) <= MaxLines
    /\ ring \in Seq(DOMAIN trace) /\ Len(ring) <= RingCap
    /\ cats \subseteq Logs
    /\ pipe \in [Logs -> Seq(DOMAIN trace)]
    /\ log \in [Logs -> [at : {"idle", "reading", "done"}, n : Counts \cup {0},
                        out : Seq(DOMAIN trace), from : 1..(Len(trace) + 1), alone : BOOLEAN]]
    /\ \A l \in Logs : /\ Len(pipe[l]) <= PipeCap
                       /\ log[l].n > 0 => Len(log[l].out) <= log[l].n
                       /\ log[l].n > 0 /\ Tailing(l) => Len(log[l].out) < log[l].n

\* Line b is the first of ours after line a.
NextOurs(a, b) ==
    /\ a < b /\ trace[b].ours
    /\ \A k \in (a + 1)..(b - 1) : ~trace[k].ours

\* A log prints the denials in the order in which the hook reported them and
\* leaves none out, as long as it is the only reader and the ring keeps up: the
\* first line it prints is the first of ours that it could get, and each other is
\* the next of ours after the one before.
NoDenialSkipped ==
    \A l \in Logs : log[l].alone =>
        \A i \in 1..Len(log[l].out) :
            NextOurs(IF i = 1 THEN log[l].from - 1 ELSE log[l].out[i - 1], log[l].out[i])

\* The denials a log could get, in the order the hook reported them.
Denials(l) ==
    LET all == [k \in 1..Len(trace) |-> k]
        Ours(k) == k >= log[l].from /\ trace[k].ours
    IN  SelectSeq(all, Ours)

\* main.rs: stop after N lines.  A log with -n N returns once N denials have been
\* reported, without waiting for another line, unless it shares the trace.
LogReturns ==
    \A l \in Logs :
        (Tailing(l) /\ log[l].n > 0 /\ log[l].alone /\ Len(Denials(l)) >= log[l].n)
            ~> (~Tailing(l) \/ ~log[l].alone)

=============================================================================
