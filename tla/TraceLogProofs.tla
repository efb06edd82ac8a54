--------------------------- MODULE TraceLogProofs ---------------------------
(***************************************************************************)
(* Theorems about TraceLog, for any number of logs, any size of the ring   *)
(* and of the pipes, and any number of lines.                              *)
(***************************************************************************)
EXTENDS TraceLog, SequenceTheorems, TLAPS

Numbers == DOMAIN trace

LogType == [at : {"idle", "reading", "done"}, n : Counts \cup {0}, out : Seq(Numbers),
            from : 1..(Len(trace) + 1), alone : BOOLEAN]

-----------------------------------------------------------------------------
(* Sequences *)

\* What is left of a sequence when its first k members are taken away.
LEMMA Dropped ==
    ASSUME NEW S, NEW s \in Seq(S), NEW k \in 0..Len(s)
    PROVE  LET rest == SubSeq(s, k + 1, Len(s))
           IN  /\ rest \in Seq(S)
               /\ Len(rest) = Len(s) - k
               /\ \A i \in 1..Len(rest) : rest[i] = s[k + i]
<1> DEFINE n == Len(s)
<1>1. n \in Nat /\ DOMAIN s = 1..n /\ \A i \in 1..n : s[i] \in S
  BY LenProperties, ElementOfSeq
<1> HIDE DEF n
<1>2. k \in Nat /\ k <= n
  BY <1>1 DEF n
<1>3. k + 1 \in Int /\ n \in Int /\ \A i \in (k + 1)..n : s[i] \in S
  BY <1>1, <1>2
<1>4. /\ SubSeq(s, k + 1, n) \in Seq(S)
      /\ Len(SubSeq(s, k + 1, n)) = IF k + 1 <= n THEN n - (k + 1) + 1 ELSE 0
      /\ \A i \in 1..(n - (k + 1) + 1) : SubSeq(s, k + 1, n)[i] = s[(k + 1) + i - 1]
  <2> DEFINE m == k + 1
  <2>1. m \in Int /\ n \in Int /\ \A i \in m..n : s[i] \in S
    BY <1>3
  <2> HIDE DEF m
  <2>2. /\ SubSeq(s, m, n) \in Seq(S)
        /\ Len(SubSeq(s, m, n)) = IF m <= n THEN n - m + 1 ELSE 0
        /\ \A i \in 1..(n - m + 1) : SubSeq(s, m, n)[i] = s[m + i - 1]
    BY ONLY <2>1, SubSeqProperties
  <2> QED BY <2>2, Zenon DEF m
<1>5. ASSUME NEW rest, Len(rest) = IF k + 1 <= n THEN n - (k + 1) + 1 ELSE 0,
             \A i \in 1..(n - (k + 1) + 1) : rest[i] = s[(k + 1) + i - 1]
      PROVE  Len(rest) = n - k /\ \A i \in 1..Len(rest) : rest[i] = s[k + i]
  <2>1. Len(rest) = n - k /\ n - (k + 1) + 1 = n - k
    BY <1>1, <1>2, <1>5
  <2>2. ASSUME NEW i \in 1..Len(rest) PROVE rest[i] = s[k + i]
    <3>1. (k + 1) + i - 1 = k + i /\ i \in 1..(n - (k + 1) + 1)
      BY <1>1, <1>2, <2>1
    <3> QED BY <1>5, <3>1
  <2> QED BY <2>1, <2>2
<1> QED BY <1>4, <1>5, Zenon DEF n

\* Its first k members.
LEMMA Taken ==
    ASSUME NEW S, NEW s \in Seq(S), NEW k \in 0..Len(s)
    PROVE  LET first == SubSeq(s, 1, k)
           IN  /\ first \in Seq(S)
               /\ Len(first) = k
               /\ \A i \in 1..k : first[i] = s[i]
<1>1. Len(s) \in Nat /\ DOMAIN s = 1..Len(s)
  BY LenProperties
<1>2. \A i \in 1..k : s[i] \in S
  BY <1>1, ElementOfSeq
<1>3. SubSeq(s, 1, k) = [i \in 1..k |-> s[i]]
  BY <1>1
<1> QED BY <1>1, <1>2, <1>3

-----------------------------------------------------------------------------
(* What a step does to the logs, one at a time *)

\* The types, and the bounds, log by log.
Bounded(l) ==
    /\ Len(pipe[l]) <= PipeCap
    /\ log[l].n > 0 => Len(log[l].out) <= log[l].n
    /\ log[l].n > 0 /\ Tailing(l) => Len(log[l].out) < log[l].n

LEMMA LogInitTypes == LogInit => LogTypeOK
<1> SUFFICES ASSUME LogInit PROVE LogTypeOK
  OBVIOUS
<1> USE LogAssumption
<1>1. trace = <<>> /\ Len(trace) = 0 /\ trace \in Seq(Lines)
  BY DEF LogInit
<1>2. ring = <<>> /\ ring \in Seq(Numbers) /\ Len(ring) = 0
  BY DEF LogInit
<1>3. NoLog \in LogType
  BY <1>1 DEF NoLog, LogType
<1>4. log \in [Logs -> LogType] /\ pipe \in [Logs -> Seq(Numbers)]
  BY <1>3 DEF LogInit
<1>5. \A l \in Logs : pipe[l] = <<>> /\ log[l] = NoLog /\ ~Tailing(l)
  BY DEF LogInit, NoLog, Tailing
<1>6. \A l \in Logs : Bounded(l)
  <2> TAKE l \in Logs
  <2>1. Len(pipe[l]) = 0 /\ log[l].n = 0 /\ ~Tailing(l)
    BY <1>5 DEF NoLog
  <2> QED BY <2>1, LogAssumption DEF Bounded
<1> QED BY <1>1, <1>2, <1>4, <1>6 DEF LogTypeOK, LogInit, LogType, Numbers, Bounded

\* The reading of the types that the steps below use.
LEMMA TypesSay ==
    ASSUME LogTypeOK
    PROVE  /\ Len(trace) \in Nat /\ Numbers = 1..Len(trace)
           /\ Len(ring) \in Nat /\ ring \in Seq(Numbers)
           /\ \A l \in Logs :
                 /\ pipe[l] \in Seq(Numbers) /\ Len(pipe[l]) \in Nat
                 /\ log[l].at \in {"idle", "reading", "done"}
                 /\ log[l].n \in Nat
                 /\ log[l].out \in Seq(Numbers) /\ Len(log[l].out) \in Nat
                 /\ log[l].from \in 1..(Len(trace) + 1)
                 /\ log[l].alone \in BOOLEAN
                 /\ Bounded(l)
<1>1. trace \in Seq(Lines) /\ ring \in Seq(Numbers)
  BY DEF LogTypeOK, Numbers
<1>2. Len(trace) \in Nat /\ Numbers = 1..Len(trace) /\ Len(ring) \in Nat
  BY <1>1, LenProperties DEF Numbers
<1>3. pipe \in [Logs -> Seq(Numbers)] /\ log \in [Logs -> LogType]
  BY DEF LogTypeOK, LogType, Numbers
<1>4. \A l \in Logs : Bounded(l)
  BY DEF LogTypeOK, Bounded
<1>5. ASSUME NEW l \in Logs
      PROVE  /\ pipe[l] \in Seq(Numbers) /\ Len(pipe[l]) \in Nat
             /\ log[l].at \in {"idle", "reading", "done"}
             /\ log[l].n \in Nat
             /\ log[l].out \in Seq(Numbers) /\ Len(log[l].out) \in Nat
             /\ log[l].from \in 1..(Len(trace) + 1)
             /\ log[l].alone \in BOOLEAN
  <2>1. pipe[l] \in Seq(Numbers) /\ log[l] \in LogType
    BY <1>3
  <2>2. log[l].n \in Counts \cup {0} /\ log[l].out \in Seq(Numbers)
    BY <2>1 DEF LogType
  <2>3. log[l].at \in {"idle", "reading", "done"} /\ log[l].from \in 1..(Len(trace) + 1)
        /\ log[l].alone \in BOOLEAN
    BY <2>1 DEF LogType
  <2>4. Len(pipe[l]) \in Nat /\ Len(log[l].out) \in Nat
    BY <2>1, <2>2, LenProperties, Zenon
  <2>5. Counts \cup {0} \subseteq Nat
    BY LogAssumption
  <2>6. log[l].n \in Nat
    BY <2>2, <2>5, Zenon
  <2> QED BY <2>1, <2>2, <2>3, <2>4, <2>6
<1> QED BY <1>1, <1>2, <1>4, <1>5

\* The types hold again when no line is new, and the logs and pipes that have
\* changed are typed.
LEMMA SameTrace ==
    ASSUME LogTypeOK, trace' = trace,
           ring' \in Seq(Numbers), Len(ring') <= RingCap, cats' \subseteq Logs,
           pipe' \in [Logs -> Seq(Numbers)], log' \in [Logs -> LogType],
           \A l \in Logs : Bounded(l)'
    PROVE  LogTypeOK'
BY DEF LogTypeOK, LogType, Numbers, Bounded

\* A log that is no longer alone is otherwise what it was.
LEMMA SharedLogs ==
    ASSUME LogTypeOK, NEW some \in SUBSET Logs
    PROVE  /\ Shared(some) \in [Logs -> LogType]
           /\ \A l \in Logs :
                 /\ Shared(some)[l].at = log[l].at /\ Shared(some)[l].n = log[l].n
                 /\ Shared(some)[l].out = log[l].out /\ Shared(some)[l].from = log[l].from
                 /\ Shared(some)[l].alone => log[l].alone /\ l \notin some
<1>1. log \in [Logs -> LogType]
  BY DEF LogTypeOK, LogType, Numbers
<1>2. \A l \in Logs : [log[l] EXCEPT !.alone = FALSE] \in LogType
  BY <1>1 DEF LogType
<1>3. \A l \in Logs :
        /\ [log[l] EXCEPT !.alone = FALSE].at = log[l].at
        /\ [log[l] EXCEPT !.alone = FALSE].n = log[l].n
        /\ [log[l] EXCEPT !.alone = FALSE].out = log[l].out
        /\ [log[l] EXCEPT !.alone = FALSE].from = log[l].from
        /\ [log[l] EXCEPT !.alone = FALSE].alone = FALSE
  BY <1>1 DEF LogType
<1> QED BY <1>1, <1>2, <1>3 DEF Shared

LEMMA EmitTypes ==
    ASSUME LogTypeOK, NEW line \in Lines, Emit(line)
    PROVE  LogTypeOK'
<1> USE LogAssumption
<1> DEFINE more == 1..(Len(trace) + 1)
<1>1. trace' \in Seq(Lines) /\ Len(trace') = Len(trace) + 1 /\ DOMAIN trace' = more
  BY AppendProperties, LenProperties, TypesSay DEF Emit, LogTypeOK
<1>2. Len(trace) \in Nat /\ Numbers \subseteq more /\ Len(trace) + 1 \in more
  BY TypesSay
<1> HIDE DEF more
<1>3. \A s \in Seq(Numbers) : s \in Seq(more)
  BY <1>2, SeqMonotonic
<1>4. ring \in Seq(more) /\ \A l \in Logs : pipe[l] \in Seq(more)
  BY <1>3, TypesSay
<1>5. ring' \in Seq(more) /\ Len(ring') <= RingCap
  <2>1. CASE Len(ring) < RingCap /\ ring' = Append(ring, Len(trace'))
    BY <1>1, <1>2, <1>4, <2>1, AppendProperties, TypesSay
  <2>2. CASE Len(ring) = RingCap /\ ring' = Append(Tail(ring), Len(trace'))
    <3>1. ring # <<>>
      BY <2>2, EmptySeq
    <3>2. Tail(ring) \in Seq(more) /\ Len(Tail(ring)) = Len(ring) - 1
      BY <1>4, <3>1, HeadTailProperties
    <3>3. ring' \in Seq(more) /\ Len(ring') = Len(Tail(ring)) + 1
      BY <1>1, <1>2, <2>2, <3>2, AppendProperties
    <3> QED BY <2>2, <3>2, <3>3
  <2> QED BY <2>1, <2>2 DEF Emit
<1>6. log' = log \/ log' = Shared(Logs)
  BY DEF Emit
<1>7. /\ log' \in [Logs -> LogType]
      /\ \A l \in Logs : /\ log'[l].at = log[l].at /\ log'[l].n = log[l].n
                         /\ log'[l].out = log[l].out
  <2>1. log \in [Logs -> LogType]
    BY DEF LogTypeOK, LogType, Numbers
  <2> QED BY <1>6, <2>1, SharedLogs
<1>8. log' \in [Logs -> LogType']
  <2>1. 1..(Len(trace) + 1) \subseteq 1..(Len(trace') + 1)
    BY <1>1, <1>2
  <2>2. LogType \subseteq LogType'
    <3> SUFFICES ASSUME NEW r \in LogType PROVE r \in LogType'
      OBVIOUS
    <3>1. r.out \in Seq(more) /\ r.from \in 1..(Len(trace') + 1)
      BY <1>3, <2>1 DEF LogType
    <3> QED BY <1>1, <3>1 DEF LogType, Numbers
  <2> QED BY <1>7, <2>2
<1>9. pipe' \in [Logs -> Seq(more)]
  BY <1>4 DEF Emit, LogTypeOK
<1>10. \A l \in Logs : Bounded(l)'
  BY <1>7, TypesSay DEF Emit, Bounded, Tailing
<1>11. Len(trace') <= MaxLines
  BY <1>1, <1>2 DEF Emit
<1>12. cats' \subseteq Logs
  BY DEF Emit, LogTypeOK
<1> QED BY <1>1, <1>5, <1>8, <1>9, <1>10, <1>11, <1>12 DEF LogTypeOK, LogType, Numbers, Bounded

\* One log changes, the others stay as they are.
LEMMA OneLog ==
    ASSUME LogTypeOK, NEW l \in Logs, NEW r \in LogType, NEW p \in Seq(Numbers),
           trace' = trace, ring' \in Seq(Numbers), Len(ring') <= RingCap, cats' \subseteq Logs,
           log' = [log EXCEPT ![l] = r], pipe' = [pipe EXCEPT ![l] = p],
           Len(p) <= PipeCap,
           r.n > 0 => Len(r.out) <= r.n,
           r.n > 0 /\ r.at = "reading" => Len(r.out) < r.n
    PROVE  LogTypeOK'
<1>1. log \in [Logs -> LogType] /\ pipe \in [Logs -> Seq(Numbers)]
  BY DEF LogTypeOK, LogType, Numbers
<1>2. log' \in [Logs -> LogType] /\ pipe' \in [Logs -> Seq(Numbers)]
  BY <1>1
<1>3. log'[l] = r /\ pipe'[l] = p
  BY <1>1
<1>4. \A k \in Logs : Bounded(k)'
  <2> TAKE k \in Logs
  <2>1. CASE k = l
    BY <1>3, <2>1 DEF Bounded, Tailing
  <2>2. CASE k # l
    <3>1. log'[k] = log[k] /\ pipe'[k] = pipe[k]
      BY <1>1, <2>2
    <3> QED BY <3>1, TypesSay DEF Bounded, Tailing
  <2> QED BY <2>1, <2>2
<1> QED BY <1>2, <1>4, SameTrace

LEMMA ReturnTypes ==
    ASSUME LogTypeOK, NEW l \in Logs, NEW out \in Seq(Numbers), NEW remaining \in SUBSET Logs,
           Return(l, out, remaining), UNCHANGED <<trace, ring>>,
           log[l].n > 0 => Len(out) <= log[l].n
    PROVE  LogTypeOK'
<1> DEFINE r == [log[l] EXCEPT !.at = "done", !.out = out]
<1>1. log \in [Logs -> LogType] /\ log[l] \in LogType
  BY DEF LogTypeOK, LogType, Numbers
<1>2. r \in LogType /\ r.at = "done" /\ r.n = log[l].n /\ r.out = out
  BY <1>1 DEF LogType
<1>3. log' = [log EXCEPT ![l] = r]
  BY <1>1 DEF Return, LogType
<1>4. <<>> \in Seq(Numbers) /\ Len(<<>>) <= PipeCap
  BY EmptySeq, LogAssumption
<1>5. ring \in Seq(Numbers) /\ Len(ring) <= RingCap
  BY DEF LogTypeOK, Numbers
<1> HIDE DEF r
<1> QED BY <1>2, <1>3, <1>4, <1>5, OneLog DEF Return

\* The line a log has at hand, and what is behind it.
LEMMA AtHand ==
    ASSUME LogTypeOK, NEW l \in Logs, pipe[l] # <<>>
    PROVE  /\ Head(pipe[l]) \in Numbers /\ Head(pipe[l]) = pipe[l][1]
           /\ Tail(pipe[l]) \in Seq(Numbers)
           /\ Len(Tail(pipe[l])) = Len(pipe[l]) - 1
           /\ \A i \in 1..Len(Tail(pipe[l])) : Tail(pipe[l])[i] = pipe[l][i + 1]
           /\ Append(log[l].out, Head(pipe[l])) \in Seq(Numbers)
           /\ Len(Append(log[l].out, Head(pipe[l]))) = Len(log[l].out) + 1
           /\ \A i \in 1..Len(log[l].out) :
                 Append(log[l].out, Head(pipe[l]))[i] = log[l].out[i]
           /\ Append(log[l].out, Head(pipe[l]))[Len(log[l].out) + 1] = Head(pipe[l])
<1>1. pipe[l] \in Seq(Numbers) /\ log[l].out \in Seq(Numbers)
  BY TypesSay
<1>2. /\ Head(pipe[l]) \in Numbers /\ Tail(pipe[l]) \in Seq(Numbers)
      /\ Len(Tail(pipe[l])) = Len(pipe[l]) - 1
      /\ \A i \in 1..Len(Tail(pipe[l])) : Tail(pipe[l])[i] = pipe[l][i + 1]
  BY <1>1, HeadTailProperties
<1>3. Head(pipe[l]) = pipe[l][1]
  BY <1>1
<1> QED BY <1>1, <1>2, <1>3, AppendProperties

LEMMA NextLineTypes ==
    ASSUME LogTypeOK, NEW l \in Logs, NextLine(l)
    PROVE  LogTypeOK'
<1> DEFINE out == Append(log[l].out, Head(pipe[l]))
<1>1. pipe[l] # <<>> /\ UNCHANGED <<trace, ring>> /\ Tailing(l)
  BY DEF NextLine
<1>2. out \in Seq(Numbers) /\ Len(out) = Len(log[l].out) + 1
      /\ Tail(pipe[l]) \in Seq(Numbers) /\ Len(Tail(pipe[l])) <= PipeCap
  <2>1. Len(Tail(pipe[l])) = Len(pipe[l]) - 1 /\ Len(pipe[l]) \in Nat /\ Len(pipe[l]) <= PipeCap
    BY <1>1, AtHand, TypesSay DEF Bounded
  <2> QED BY <1>1, <2>1, AtHand, LogAssumption
<1>3. /\ log[l].n \in Nat /\ Len(log[l].out) \in Nat
      /\ log[l].n > 0 => Len(log[l].out) < log[l].n
      /\ log[l].out \in Seq(Numbers) /\ cats \subseteq Logs
  BY <1>1, TypesSay DEF Bounded, LogTypeOK
<1>4. log[l].n > 0 => Len(out) <= log[l].n
  BY <1>2, <1>3
<1>5. ring \in Seq(Numbers) /\ Len(ring) <= RingCap
      /\ log \in [Logs -> LogType] /\ log[l] \in LogType /\ pipe \in [Logs -> Seq(Numbers)]
  BY DEF LogTypeOK, Numbers, LogType
<1> HIDE DEF out
<1>6. CASE BreakLoop(l)
  BY <1>1, <1>3, <1>6, ReturnTypes DEF BreakLoop
<1>7. CASE Return(l, out, cats) \/ Return(l, out, cats \ {l})
  BY <1>1, <1>2, <1>3, <1>4, <1>7, ReturnTypes
<1>8. CASE /\ ~Enough(l, Len(out))
           /\ log' = [log EXCEPT ![l].out = out]
           /\ pipe' = [pipe EXCEPT ![l] = Tail(@)]
           /\ UNCHANGED cats
  <2> DEFINE r == [log[l] EXCEPT !.out = out]
  <2>1. r \in LogType /\ r.at = log[l].at /\ r.n = log[l].n /\ r.out = out
    BY <1>2, <1>5 DEF LogType
  <2>2. log' = [log EXCEPT ![l] = r] /\ pipe' = [pipe EXCEPT ![l] = Tail(pipe[l])]
    BY <1>5, <1>8
  <2>3. r.n > 0 => Len(r.out) < r.n
    BY <1>2, <1>3, <1>8, <2>1 DEF Enough
  <2>4. r.n > 0 => Len(r.out) <= r.n
    BY <1>4, <2>1
  <2> HIDE DEF r
  <2> QED BY <1>1, <1>2, <1>3, <1>5, <1>8, <2>1, <2>2, <2>3, <2>4, OneLog
<1>9. CASE pipe' = [pipe EXCEPT ![l] = Tail(@)] /\ UNCHANGED <<log, cats>>
  <2>1. pipe' \in [Logs -> Seq(Numbers)] /\ pipe'[l] = Tail(pipe[l])
        /\ \A k \in Logs \ {l} : pipe'[k] = pipe[k]
    BY <1>2, <1>5, <1>9
  <2>2. \A k \in Logs : Bounded(k)'
    BY <1>2, <1>9, <2>1, TypesSay DEF Bounded, Tailing
  <2> QED BY <1>1, <1>3, <1>5, <1>9, <2>1, <2>2, SameTrace
<1> QED BY <1>6, <1>7, <1>8, <1>9 DEF NextLine, out

LEMMA CatReadsTypes ==
    ASSUME LogTypeOK, NEW l \in Logs, CatReads(l)
    PROVE  LogTypeOK'
<1>1. PICK k \in 1..Len(ring) :
         /\ Len(pipe[l]) + k <= PipeCap
         /\ pipe' = [pipe EXCEPT ![l] = pipe[l] \o SubSeq(ring, 1, k)]
         /\ ring' = SubSeq(ring, k + 1, Len(ring))
  BY DEF CatReads
<1>2. Len(ring) \in Nat /\ ring \in Seq(Numbers) /\ pipe[l] \in Seq(Numbers)
      /\ k \in 0..Len(ring) /\ Len(ring) <= RingCap
  BY TypesSay DEF LogTypeOK
<1>3. ring' \in Seq(Numbers) /\ Len(ring') = Len(ring) - k
  BY <1>1, <1>2, Dropped
<1>4. SubSeq(ring, 1, k) \in Seq(Numbers) /\ Len(SubSeq(ring, 1, k)) = k
  BY <1>2, Taken
<1>5. /\ pipe[l] \o SubSeq(ring, 1, k) \in Seq(Numbers)
      /\ Len(pipe[l] \o SubSeq(ring, 1, k)) = Len(pipe[l]) + k
  BY <1>2, <1>4, ConcatProperties
<1>6. pipe \in [Logs -> Seq(Numbers)] /\ log \in [Logs -> LogType] /\ cats \subseteq Logs
  BY DEF LogTypeOK, LogType, Numbers
<1>7. /\ pipe' \in [Logs -> Seq(Numbers)]
      /\ Len(pipe'[l]) <= PipeCap
      /\ \A j \in Logs \ {l} : pipe'[j] = pipe[j]
  BY <1>1, <1>5, <1>6
<1>8. \A j \in Logs : Bounded(j)'
  BY <1>7, TypesSay DEF CatReads, Bounded, Tailing
<1>9. Len(ring') <= RingCap
  BY <1>2, <1>3, LogAssumption
<1> QED BY <1>3, <1>6, <1>7, <1>8, <1>9, SameTrace DEF CatReads

LEMMA CatDiesTypes ==
    ASSUME LogTypeOK, NEW l \in Logs, CatDies(l)
    PROVE  LogTypeOK'
<1>1. PICK k \in 1..Len(ring) : ring' = SubSeq(ring, k + 1, Len(ring))
  BY DEF CatDies
<1>2. Len(ring) \in Nat /\ ring \in Seq(Numbers) /\ k \in 0..Len(ring) /\ Len(ring) <= RingCap
  BY TypesSay DEF LogTypeOK
<1>3. ring' \in Seq(Numbers) /\ Len(ring') = Len(ring) - k
  BY <1>1, <1>2, Dropped
<1>4. Len(ring') <= RingCap
  BY <1>2, <1>3, LogAssumption
<1>5. /\ pipe \in [Logs -> Seq(Numbers)] /\ log \in [Logs -> LogType] /\ cats' \subseteq Logs
      /\ \A j \in Logs : Bounded(j)
  BY TypesSay DEF LogTypeOK, LogType, Numbers, CatDies
<1>6. trace' = trace /\ pipe' = pipe /\ log' = log
  BY DEF CatDies
<1>7. \A j \in Logs : Bounded(j)'
  BY <1>5, <1>6 DEF Bounded, Tailing
<1> QED BY <1>3, <1>4, <1>5, <1>6, <1>7, SameTrace

\* Where a log begins, and what it knows then.
LEMMA Begun ==
    ASSUME LogTypeOK, NEW l \in Logs, NEW n \in Counts, LogBegin(l, n)
    PROVE  /\ log' \in [Logs -> LogType]
           /\ log'[l].at = "reading" /\ log'[l].n = n /\ log'[l].out = <<>>
           /\ log'[l].alone = (cats = {})
           /\ log'[l].from = IF ring = <<>> THEN Len(trace) + 1 ELSE Head(ring)
           /\ \A k \in Logs \ {l} :
                 /\ log'[k].at = log[k].at /\ log'[k].n = log[k].n
                 /\ log'[k].out = log[k].out /\ ~log'[k].alone
<1> DEFINE first == IF ring = <<>> THEN Len(trace) + 1 ELSE Head(ring)
           only == cats = {}
           r == [at |-> "reading", n |-> n, out |-> <<>>, alone |-> only, from |-> first]
<1>1. first \in 1..(Len(trace) + 1)
  <2>1. CASE ring = <<>>
    BY <2>1, TypesSay
  <2>2. CASE ring # <<>>
    <3>1. Head(ring) \in Numbers
      BY <2>2, TypesSay, HeadTailProperties
    <3> QED BY <2>2, <3>1, TypesSay
  <2> QED BY <2>1, <2>2
<1>2. log' = [Shared(Logs) EXCEPT ![l] = r]
  BY Zenon DEF LogBegin
<1> HIDE DEF first
<1>3. r \in LogType
  <2>1. <<>> \in Seq(Numbers) /\ n \in Counts \cup {0} /\ only \in BOOLEAN
    BY EmptySeq
  <2> QED BY <1>1, <2>1 DEF LogType
<1>4. /\ r.at = "reading" /\ r.n = n /\ r.out = <<>>
      /\ r.from = first /\ r.alone = only
  OBVIOUS
<1> HIDE DEF r
<1>5. Shared(Logs) \in [Logs -> LogType]
  BY SharedLogs
<1>6. log' \in [Logs -> LogType] /\ log'[l] = r /\ \A k \in Logs \ {l} : log'[k] = Shared(Logs)[k]
  BY <1>2, <1>3, <1>5
<1>7. \A k \in Logs : /\ Shared(Logs)[k].at = log[k].at /\ Shared(Logs)[k].n = log[k].n
                      /\ Shared(Logs)[k].out = log[k].out /\ ~Shared(Logs)[k].alone
  BY SharedLogs
<1> QED BY <1>4, <1>6, <1>7 DEF first, only

LEMMA LogBeginTypes ==
    ASSUME LogTypeOK, NEW l \in Logs, NEW n \in Counts, LogBegin(l, n)
    PROVE  LogTypeOK'
<1>1. trace' = trace /\ ring' = ring /\ pipe' = pipe /\ cats' \subseteq Logs
  BY DEF LogBegin, LogTypeOK
<1>2. /\ pipe \in [Logs -> Seq(Numbers)] /\ ring \in Seq(Numbers) /\ Len(ring) <= RingCap
  BY DEF LogTypeOK, Numbers
<1>3. \A k \in Logs : Bounded(k)'
  <2> TAKE k \in Logs
  <2>1. Bounded(k)
    BY TypesSay
  <2>2. CASE k = l
    <3>1. Len(log'[l].out) = 0 /\ log'[l].n = n /\ n \in Nat
      BY Begun, LogAssumption
    <3> QED BY <1>1, <2>1, <2>2, <3>1 DEF Bounded
  <2>3. CASE k # l
    <3>1. log'[k].at = log[k].at /\ log'[k].n = log[k].n /\ log'[k].out = log[k].out
      BY <2>3, Begun
    <3> QED BY <1>1, <2>1, <3>1 DEF Bounded, Tailing
  <2> QED BY <2>2, <2>3
<1> QED BY <1>1, <1>2, <1>3, Begun, SameTrace

LEMMA LogStepTypes == LogTypeOK /\ [LogNext]_lvars => LogTypeOK'
<1> SUFFICES ASSUME LogTypeOK, [LogNext]_lvars PROVE LogTypeOK'
  OBVIOUS
<1>1. ASSUME NEW l \in Logs PROVE log[l].out \in Seq(Numbers) /\ cats \subseteq Logs
                                /\ (log[l].n > 0 => Len(log[l].out) <= log[l].n)
  BY TypesSay DEF Bounded, LogTypeOK
<1>2. ASSUME NEW line \in Lines, Emit(line) PROVE LogTypeOK'
  BY <1>2, EmitTypes
<1>3. ASSUME NEW l \in Logs, NEW n \in Counts, LogBegin(l, n) PROVE LogTypeOK'
  BY <1>3, LogBeginTypes
<1>4. ASSUME NEW l \in Logs, CatReads(l) PROVE LogTypeOK'
  BY <1>4, CatReadsTypes
<1>5. ASSUME NEW l \in Logs, CatDies(l) PROVE LogTypeOK'
  BY <1>5, CatDiesTypes
<1>6. ASSUME NEW l \in Logs, NextLine(l) PROVE LogTypeOK'
  BY <1>6, NextLineTypes
<1>7. ASSUME NEW l \in Logs, Eof(l) PROVE LogTypeOK'
  BY <1>1, <1>7, ReturnTypes DEF Eof
<1>8. ASSUME NEW l \in Logs, Interrupt(l) PROVE LogTypeOK'
  <2>1. cats \ {l} \in SUBSET Logs
    BY <1>1
  <2> QED BY <1>1, <1>8, <2>1, ReturnTypes DEF Interrupt
<1>9. CASE UNCHANGED lvars
  BY <1>9 DEF lvars, LogTypeOK, Tailing
<1> QED BY <1>2, <1>3, <1>4, <1>5, <1>6, <1>7, <1>8, <1>9 DEF LogNext

\* tail_trace_pipe: the buffers stay within their sizes, and a log prints at most
\* as many lines as it was asked for, which it never has while it still reads.
THEOREM LogTypes == LogSpec => []LogTypeOK
BY LogInitTypes, LogStepTypes, PTL DEF LogSpec

-----------------------------------------------------------------------------
(* Order *)

\* The last line that a log has looked at, when what it has yet to read is what
\* its pipe and the ring hold; and the last that it has printed.
Judged(l)  == Len(trace) - Len(ring) - Len(pipe[l])
Printed(l) == IF log[l].out = <<>> THEN log[l].from - 1 ELSE log[l].out[Len(log[l].out)]

\* The ring holds the newest lines, without a gap.
RingInOrder == \A i \in 1..Len(ring) : ring[i] = Len(trace) - Len(ring) + i

\* So does the pipe of a log that is alone, behind what it has judged, and after
\* the last line it has printed it has judged none of ours.
FollowsAll(l) ==
    /\ \A i \in 1..Len(pipe[l]) : pipe[l][i] = Judged(l) + i
    /\ Printed(l) <= Judged(l)
    /\ \A k \in (Printed(l) + 1)..Judged(l) : ~trace[k].ours

\* What is printed is in order; only the log itself has a cat then.
PrintsAll(l) ==
    /\ cats \subseteq {l}
    /\ \A i \in 1..Len(log[l].out) :
          NextOurs(IF i = 1 THEN log[l].from - 1 ELSE log[l].out[i - 1], log[l].out[i])

InOrder(l) ==
    /\ ~Tailing(l) => pipe[l] = <<>>
    /\ log[l].alone => PrintsAll(l)
    /\ log[l].alone /\ Tailing(l) => FollowsAll(l)

LogInv == RingInOrder /\ \A l \in Logs : InOrder(l)

LEMMA LogInvInit == LogInit => LogInv
<1> SUFFICES ASSUME LogInit PROVE LogInv
  OBVIOUS
<1>1. ring = <<>> /\ Len(ring) = 0
  BY DEF LogInit
<1>2. \A l \in Logs : pipe[l] = <<>> /\ ~log[l].alone
  BY DEF LogInit, NoLog
<1> QED BY <1>1, <1>2 DEF LogInv, RingInOrder, InOrder

\* What has been printed was the next of ours, and still is when more lines come.
LEMMA PrintedKept ==
    ASSUME LogTypeOK, NEW l \in Logs, PrintsAll(l),
           \A k \in Numbers : trace'[k] = trace[k], cats' \subseteq {l},
           log'[l].out = log[l].out, log'[l].from = log[l].from
    PROVE  PrintsAll(l)'
<1> DEFINE out == log[l].out
           Before(i) == IF i = 1 THEN log[l].from - 1 ELSE out[i - 1]
<1>1. /\ Len(trace) \in Nat /\ Numbers = 1..Len(trace)
      /\ out \in Seq(Numbers) /\ Len(out) \in Nat /\ log[l].from \in 1..(Len(trace) + 1)
  BY TypesSay
<1>2. ASSUME NEW i \in 1..Len(out) PROVE NextOurs(Before(i), out[i])'
  <2>1. out[i] \in Numbers /\ Before(i) \in Nat
    <3>1. out[i] \in Numbers
      BY <1>1, ElementOfSeq
    <3>2. CASE i = 1
      BY <1>1, <3>1, <3>2
    <3>3. CASE i # 1
      <4>1. i - 1 \in 1..Len(out)
        BY <1>1, <3>3
      <4>2. out[i - 1] \in Numbers
        BY <1>1, <4>1, ElementOfSeq
      <4> QED BY <1>1, <3>1, <3>3, <4>2
    <3> QED BY <3>2, <3>3
  <2>2. NextOurs(Before(i), out[i])
    BY DEF PrintsAll
  <2>3. (Before(i))' = Before(i) /\ (out[i])' = out[i]
    OBVIOUS
  <2> DEFINE a == Before(i)
             b == out[i]
  <2>4. NextOurs(a, b) /\ b \in Numbers /\ a \in Nat
    BY <2>1, <2>2
  <2> HIDE DEF a, b
  <2>5. \A k \in (a + 1)..(b - 1) : k \in Numbers
    BY <1>1, <2>4
  <2>6. /\ a < b /\ trace'[b].ours
        /\ \A k \in (a + 1)..(b - 1) : ~trace'[k].ours
    BY <2>4, <2>5 DEF NextOurs
  <2> QED BY <2>3, <2>6 DEF NextOurs, a, b
<1> QED BY <1>2 DEF PrintsAll

\* A log that is alone has everything between what it has judged and the newest
\* line in its pipe and in the ring.
LEMMA JudgedSays ==
    ASSUME LogTypeOK, NEW l \in Logs
    PROVE  /\ Judged(l) \in Int /\ Judged(l) <= Len(trace)
           /\ Printed(l) \in Nat
<1>1. /\ Len(trace) \in Nat /\ Numbers = 1..Len(trace) /\ Len(ring) \in Nat
      /\ Len(pipe[l]) \in Nat
      /\ log[l].out \in Seq(Numbers) /\ log[l].from \in 1..(Len(trace) + 1)
  BY TypesSay
<1>2. CASE log[l].out = <<>>
  BY <1>1, <1>2 DEF Printed, Judged
<1>3. CASE log[l].out # <<>>
  <2>1. Len(log[l].out) \in 1..Len(log[l].out)
    BY <1>1, <1>3, EmptySeq
  <2>2. log[l].out[Len(log[l].out)] \in Numbers
    BY <1>1, <2>1, ElementOfSeq
  <2> QED BY <1>1, <1>3, <2>2 DEF Printed, Judged
<1> QED BY <1>2, <1>3

LEMMA FollowsKept ==
    ASSUME LogTypeOK, NEW l \in Logs, FollowsAll(l),
           \A k \in Numbers : trace'[k] = trace[k],
           log'[l].out = log[l].out, log'[l].from = log[l].from,
           pipe'[l] = pipe[l], Judged(l)' = Judged(l)
    PROVE  FollowsAll(l)'
<1>1. Printed(l)' = Printed(l)
  BY DEF Printed
<1>2. Judged(l) \in Int /\ Judged(l) <= Len(trace) /\ Printed(l) \in Nat
      /\ Len(trace) \in Nat /\ Numbers = 1..Len(trace)
  BY JudgedSays, TypesSay
<1>3. \A k \in (Printed(l) + 1)..Judged(l) : k \in Numbers
  BY <1>2
<1> QED BY <1>1, <1>3 DEF FollowsAll

\* Nothing happens to a log when the ring and the trace stay, it stays, and no
\* cat comes.
LEMMA Elsewhere ==
    ASSUME LogTypeOK, NEW l \in Logs, InOrder(l), trace' = trace, ring' = ring,
           pipe'[l] = pipe[l], log'[l] = log[l], cats' \subseteq cats
    PROVE  InOrder(l)'
<1>1. Tailing(l)' = Tailing(l) /\ Judged(l)' = Judged(l)
  BY DEF Tailing, Judged
<1>2. PrintsAll(l) => PrintsAll(l)'
  <2> SUFFICES ASSUME PrintsAll(l) PROVE PrintsAll(l)'
    OBVIOUS
  <2>1. cats' \subseteq {l}
    BY DEF PrintsAll
  <2> QED BY <2>1, PrintedKept
<1>3. FollowsAll(l) => FollowsAll(l)'
  BY <1>1, FollowsKept
<1> QED BY <1>1, <1>2, <1>3 DEF InOrder

LEMMA EmitInOrder ==
    ASSUME LogTypeOK, LogInv, NEW line \in Lines, Emit(line)
    PROVE  LogInv'
<1>1. /\ Len(trace') = Len(trace) + 1 /\ \A k \in Numbers : trace'[k] = trace[k]
  BY AppendProperties, TypesSay DEF Emit, LogTypeOK
<1>2. Len(trace) \in Nat /\ Len(ring) \in Nat /\ ring \in Seq(Nat)
  <2>1. Numbers \subseteq Nat
    BY TypesSay
  <2> QED BY <2>1, TypesSay, SeqMonotonic
<1>3. Len(trace') \in Nat
  BY <1>1, <1>2
<1>4. pipe' = pipe /\ cats' = cats
  BY DEF Emit
<1>5. CASE ring' = Append(ring, Len(trace')) /\ log' = log
  <2> DEFINE n == Len(ring)
  <2>1. /\ Len(ring') = n + 1
        /\ \A i \in 1..n : ring'[i] = ring[i]
        /\ ring'[n + 1] = Len(trace) + 1
    BY <1>1, <1>2, <1>3, <1>5, AppendProperties
  <2>2. n \in Nat /\ \A i \in 1..n : ring[i] = Len(trace) - n + i
    BY <1>2 DEF LogInv, RingInOrder
  <2> HIDE DEF n
  <2>3. RingInOrder'
    <3> SUFFICES ASSUME NEW i \in 1..(n + 1)
                 PROVE  ring'[i] = Len(trace') - (n + 1) + i
      BY <2>1 DEF RingInOrder
    <3>1. CASE i \in 1..n
      BY <1>1, <1>2, <2>1, <2>2, <3>1
    <3>2. CASE i = n + 1
      BY <1>1, <1>2, <2>1, <2>2, <3>2
    <3> QED BY <2>2, <3>1, <3>2
  <2>4. \A l \in Logs : Judged(l)' = Judged(l)
    <3> TAKE l \in Logs
    <3>1. Len(pipe[l]) \in Nat
      BY TypesSay
    <3> QED BY <1>1, <1>2, <1>4, <2>1, <3>1 DEF Judged, n
  <2>5. ASSUME NEW l \in Logs PROVE InOrder(l)'
    <3>1. Tailing(l)' = Tailing(l) /\ InOrder(l)
      BY <1>5 DEF Tailing, LogInv
    <3>2. PrintsAll(l) => PrintsAll(l)'
      <4> SUFFICES ASSUME PrintsAll(l) PROVE PrintsAll(l)'
        OBVIOUS
      <4>1. cats' \subseteq {l}
        BY <1>4 DEF PrintsAll
      <4> QED BY <1>1, <1>5, <4>1, PrintedKept
    <3>3. FollowsAll(l) => FollowsAll(l)'
      BY <1>1, <1>4, <1>5, <2>4, FollowsKept
    <3> QED BY <1>4, <1>5, <3>1, <3>2, <3>3 DEF InOrder
  <2> QED BY <2>3, <2>5 DEF LogInv
<1>6. CASE /\ Len(ring) = RingCap
           /\ ring' = Append(Tail(ring), Len(trace'))
           /\ log' = Shared(Logs)
  <2>1. ring # <<>>
    BY <1>6, EmptySeq, LogAssumption
  <2> DEFINE n == Len(Tail(ring))
  <2>2. /\ Tail(ring) \in Seq(Nat) /\ n = Len(ring) - 1
        /\ \A i \in 1..n : Tail(ring)[i] = ring[i + 1]
    BY <1>2, <2>1, HeadTailProperties
  <2>3. n \in Nat
    BY <2>2, LenProperties
  <2>4. /\ Len(ring') = n + 1
        /\ \A i \in 1..n : ring'[i] = Tail(ring)[i]
        /\ ring'[n + 1] = Len(trace) + 1
    BY <1>1, <1>3, <1>6, <2>2, AppendProperties
  <2>5. \A i \in 1..Len(ring) : ring[i] = Len(trace) - Len(ring) + i
    BY DEF LogInv, RingInOrder
  <2> HIDE DEF n
  <2>6. RingInOrder'
    <3> SUFFICES ASSUME NEW i \in 1..(n + 1)
                 PROVE  ring'[i] = Len(trace') - (n + 1) + i
      BY <2>4 DEF RingInOrder
    <3>1. CASE i \in 1..n
      <4>1. i + 1 \in 1..Len(ring) /\ ring'[i] = ring[i + 1]
        BY <1>2, <2>2, <2>3, <2>4, <3>1
      <4>2. ring[i + 1] = Len(trace) - Len(ring) + (i + 1)
        BY <2>5, <4>1
      <4> QED BY <1>1, <1>2, <2>2, <2>3, <4>1, <4>2
    <3>2. CASE i = n + 1
      BY <1>1, <1>2, <2>3, <2>4, <3>2
    <3> QED BY <2>3, <3>1, <3>2
  <2>7. \A l \in Logs : ~log'[l].alone /\ log'[l].at = log[l].at
    BY <1>6, SharedLogs
  <2> QED BY <1>4, <2>6, <2>7 DEF LogInv, InOrder, Tailing
<1> QED BY <1>5, <1>6 DEF Emit

\* Lines that leave the ring at its old end.
LEMMA RingDrops ==
    ASSUME LogTypeOK, RingInOrder, NEW k \in 1..Len(ring), trace' = trace,
           ring' = SubSeq(ring, k + 1, Len(ring))
    PROVE  RingInOrder' /\ Len(ring') = Len(ring) - k
<1> DEFINE n == Len(ring)
<1>1. n \in Nat /\ ring \in Seq(Numbers) /\ Len(trace) \in Nat /\ k \in 0..n /\ k \in Nat
  BY TypesSay
<1>2. /\ Len(ring') = n - k
      /\ \A i \in 1..Len(ring') : ring'[i] = ring[k + i]
  BY <1>1, Dropped
<1>3. \A i \in 1..n : ring[i] = Len(trace) - n + i
  BY DEF RingInOrder
<1> HIDE DEF n
<1>4. ASSUME NEW i \in 1..Len(ring') PROVE ring'[i] = Len(trace) - Len(ring') + i
  <2>1. i \in Nat /\ k + i \in 1..n
    BY <1>1, <1>2
  <2>2. ring'[i] = Len(trace) - n + (k + i)
    BY <1>2, <1>3, <2>1
  <2>3. Len(ring') = n - k
    BY <1>2
  <2>4. Len(trace) - Len(ring') + i = Len(trace) - n + (k + i)
    BY ONLY <1>1, <2>1, <2>3
  <2> QED BY <2>2, <2>4, Zenon
<1> QED BY <1>2, <1>4 DEF RingInOrder, n

LEMMA CatReadsInOrder ==
    ASSUME LogTypeOK, LogInv, NEW l \in Logs, CatReads(l)
    PROVE  LogInv'
<1>1. PICK k \in 1..Len(ring) :
         /\ pipe' = [pipe EXCEPT ![l] = pipe[l] \o SubSeq(ring, 1, k)]
         /\ ring' = SubSeq(ring, k + 1, Len(ring))
  BY DEF CatReads
<1>2. trace' = trace /\ log' = log /\ cats' = cats /\ l \in cats /\ Tailing(l)
  BY DEF CatReads
<1>3. RingInOrder' /\ Len(ring') = Len(ring) - k
  BY <1>1, <1>2, RingDrops DEF LogInv
<1>4. /\ Len(ring) \in Nat /\ ring \in Seq(Numbers) /\ pipe[l] \in Seq(Numbers)
      /\ Len(trace) \in Nat /\ Len(pipe[l]) \in Nat /\ k \in 0..Len(ring)
  BY TypesSay
<1>5. /\ SubSeq(ring, 1, k) \in Seq(Numbers) /\ Len(SubSeq(ring, 1, k)) = k
      /\ \A i \in 1..k : SubSeq(ring, 1, k)[i] = ring[i]
  BY <1>4, Taken
<1>6. /\ Len(pipe[l] \o SubSeq(ring, 1, k)) = Len(pipe[l]) + k
      /\ \A i \in 1..(Len(pipe[l]) + k) :
            (pipe[l] \o SubSeq(ring, 1, k))[i] =
                IF i <= Len(pipe[l]) THEN pipe[l][i] ELSE SubSeq(ring, 1, k)[i - Len(pipe[l])]
  BY <1>4, <1>5, ConcatProperties
<1>7. pipe'[l] = pipe[l] \o SubSeq(ring, 1, k) /\ \A j \in Logs \ {l} : pipe'[j] = pipe[j]
  BY <1>1 DEF LogTypeOK
<1>8. Judged(l)' = Judged(l)
  <2>1. Len(pipe'[l]) = Len(pipe[l]) + k
    BY <1>6, <1>7
  <2>2. Judged(l)' = Len(trace) - Len(ring') - Len(pipe'[l])
    BY <1>2 DEF Judged
  <2> QED BY <1>3, <1>4, <2>1, <2>2 DEF Judged
<1>9. \A j \in Logs : PrintsAll(j) => PrintsAll(j)'
  <2> SUFFICES ASSUME NEW j \in Logs, PrintsAll(j) PROVE PrintsAll(j)'
    OBVIOUS
  <2>1. cats' \subseteq {j}
    BY <1>2 DEF PrintsAll
  <2> QED BY <1>2, <2>1, PrintedKept
<1>10. InOrder(l)'
  <2> SUFFICES ASSUME log[l].alone, FollowsAll(l) PROVE FollowsAll(l)'
    BY <1>2, <1>9 DEF LogInv, InOrder, Tailing
  <2> DEFINE m == Len(pipe[l])
             rest == SubSeq(ring, 1, k)
  <2>1. /\ Printed(l)' = Printed(l) /\ Printed(l) <= Judged(l)
        /\ \A i \in (Printed(l) + 1)..Judged(l) : ~trace[i].ours
        /\ \A i \in 1..m : pipe[l][i] = Judged(l) + i
    BY <1>2 DEF FollowsAll, Printed
  <2>2. \A i \in 1..Len(ring) : ring[i] = Len(trace) - Len(ring) + i
    BY DEF LogInv, RingInOrder
  <2>3. Judged(l) = Len(trace) - Len(ring) - m
    BY DEF Judged
  <2>4. Len(pipe'[l]) = m + k /\ m \in Nat /\ k \in Nat
    BY <1>4, <1>6, <1>7
  <2>5. \A i \in 1..(m + k) : pipe'[l][i] = IF i <= m THEN pipe[l][i] ELSE rest[i - m]
    BY <1>6, <1>7
  <2> HIDE DEF m, rest
  <2>6. ASSUME NEW i \in 1..(m + k) PROVE pipe'[l][i] = Judged(l) + i
    <3>1. CASE i <= m
      BY <2>1, <2>4, <2>5, <3>1
    <3>2. CASE ~(i <= m)
      <4>1. i - m \in 1..k /\ i - m \in 1..Len(ring)
        BY <1>4, <2>4, <3>2
      <4>2. pipe'[l][i] = ring[i - m]
        BY <1>5, <2>5, <3>2, <4>1 DEF rest
      <4>3. ring[i - m] = Len(trace) - Len(ring) + (i - m)
        BY <2>2, <4>1
      <4> QED BY <1>4, <2>3, <2>4, <4>2, <4>3
    <3> QED BY <3>1, <3>2
  <2> QED BY <1>2, <1>8, <2>1, <2>4, <2>6 DEF FollowsAll
<1>11. ASSUME NEW j \in Logs, j # l PROVE InOrder(j)'
  <2>1. log[j].alone => l \in {j}
    BY <1>2 DEF LogInv, InOrder, PrintsAll
  <2>2. ~log[j].alone
    BY <1>11, <2>1
  <2> QED BY <1>2, <1>7, <1>11, <2>2 DEF LogInv, InOrder, Tailing
<1> QED BY <1>3, <1>10, <1>11 DEF LogInv

LEMMA CatDiesInOrder ==
    ASSUME LogTypeOK, LogInv, NEW l \in Logs, CatDies(l)
    PROVE  LogInv'
<1>1. trace' = trace /\ log' = log /\ pipe' = pipe /\ cats' \subseteq cats
      /\ l \in cats /\ ~Tailing(l)
  BY DEF CatDies
<1>2. PICK k \in 1..Len(ring) : ring' = SubSeq(ring, k + 1, Len(ring))
  BY DEF CatDies
<1>3. RingInOrder'
  BY <1>1, <1>2, RingDrops DEF LogInv
<1>4. ASSUME NEW j \in Logs PROVE InOrder(j)'
  <2>1. log[j].alone => ~Tailing(j)
    <3>1. log[j].alone => l \in {j}
      BY <1>1 DEF LogInv, InOrder, PrintsAll
    <3> QED BY <1>1, <3>1
  <2>2. PrintsAll(j) => PrintsAll(j)'
    <3> SUFFICES ASSUME PrintsAll(j) PROVE PrintsAll(j)'
      OBVIOUS
    <3>1. cats' \subseteq {j}
      BY <1>1 DEF PrintsAll
    <3> QED BY <1>1, <3>1, PrintedKept
  <2> QED BY <1>1, <2>1, <2>2 DEF LogInv, InOrder, Tailing
<1> QED BY <1>3, <1>4 DEF LogInv

\* A log that begins has judged what it cannot get any more.
LEMMA LogBeginInOrder ==
    ASSUME LogTypeOK, LogInv, NEW l \in Logs, NEW n \in Counts, LogBegin(l, n)
    PROVE  LogInv'
<1>1. trace' = trace /\ ring' = ring /\ pipe' = pipe /\ cats' \in {cats \cup {l}, cats}
      /\ ~Tailing(l)
  BY DEF LogBegin, Tailing
<1>2. RingInOrder'
  BY <1>1 DEF LogInv, RingInOrder
<1>3. \A j \in Logs \ {l} : InOrder(j)'
  BY <1>1, Begun DEF LogInv, InOrder, Tailing
<1>4. InOrder(l)'
  <2> SUFFICES ASSUME cats = {} PROVE PrintsAll(l)' /\ FollowsAll(l)'
    BY <1>1, Begun DEF InOrder, Tailing
  <2>1. pipe'[l] = <<>> /\ log'[l].out = <<>> /\ Len(pipe'[l]) = 0
    BY <1>1, Begun DEF LogInv, InOrder
  <2>2. cats' \subseteq {l}
    BY <1>1
  <2>3. PrintsAll(l)'
    <3>1. Len(log'[l].out) = 0
      BY <2>1
    <3> QED BY <2>2, <3>1 DEF PrintsAll
  <2>4. log'[l].from = Len(trace) - Len(ring) + 1
    <3>1. Len(ring) \in Nat /\ Len(trace) \in Nat /\ ring \in Seq(Numbers)
      BY TypesSay
    <3>2. CASE ring = <<>>
      BY <3>1, <3>2, Begun
    <3>3. CASE ring # <<>>
      <4>1. 1 \in 1..Len(ring)
        BY <3>1, <3>3, EmptySeq
      <4>2. ring[1] = Len(trace) - Len(ring) + 1
        BY <4>1 DEF LogInv, RingInOrder
      <4>3. Head(ring) = ring[1]
        BY <3>1, <3>3
      <4> QED BY <3>3, <4>2, <4>3, Begun
    <3> QED BY <3>2, <3>3
  <2>5. Printed(l)' = Judged(l)' /\ Judged(l)' \in Int
    <3>1. Judged(l)' = Len(trace) - Len(ring) - Len(pipe'[l])
      BY <1>1 DEF Judged
    <3>2. Printed(l)' = log'[l].from - 1
      BY <2>1 DEF Printed
    <3>3. Len(ring) \in Nat /\ Len(trace) \in Nat
      BY TypesSay
    <3> QED BY <2>1, <2>4, <3>1, <3>2, <3>3
  <2>6. FollowsAll(l)'
    <3> DEFINE a == Printed(l)'
               b == Judged(l)'
    <3>1. a = b /\ b \in Int
      BY <2>5
    <3> HIDE DEF a, b
    <3>2. a <= b /\ (a + 1)..b = {}
      BY <3>1
    <3>3. Printed(l)' <= Judged(l)' /\ (Printed(l)' + 1)..Judged(l)' = {}
      BY <3>2 DEF a, b
    <3>4. 1..Len(pipe'[l]) = {}
      BY <2>1
    <3> QED BY <3>3, <3>4 DEF FollowsAll
  <2> QED BY <2>3, <2>6
<1> QED BY <1>2, <1>3, <1>4 DEF LogInv

\* The line at hand is the one after what has been judged; if it is ours, it is
\* the next to print.
LEMMA NextPrinted ==
    ASSUME LogTypeOK, NEW l \in Logs, InOrder(l), log[l].alone, Tailing(l), pipe[l] # <<>>
    PROVE  /\ Head(pipe[l]) = Judged(l) + 1
           /\ trace[Head(pipe[l])].ours => NextOurs(Printed(l), Head(pipe[l]))
<1>1. /\ \A i \in 1..Len(pipe[l]) : pipe[l][i] = Judged(l) + i
      /\ Printed(l) <= Judged(l)
      /\ \A k \in (Printed(l) + 1)..Judged(l) : ~trace[k].ours
  BY DEF InOrder, FollowsAll
<1>2. 1 \in 1..Len(pipe[l]) /\ Head(pipe[l]) = pipe[l][1]
  BY TypesSay, AtHand, EmptySeq
<1>3. Head(pipe[l]) = Judged(l) + 1
  BY <1>1, <1>2
<1>4. Judged(l) \in Int /\ Printed(l) \in Nat
  BY JudgedSays
<1>5. Printed(l) < Judged(l) + 1 /\ (Judged(l) + 1) - 1 = Judged(l)
  BY <1>1, <1>4
<1> QED BY <1>1, <1>3, <1>5 DEF NextOurs

LEMMA AppendedInOrder ==
    ASSUME LogTypeOK, NEW l \in Logs, PrintsAll(l), pipe[l] # <<>>,
           NextOurs(Printed(l), Head(pipe[l])),
           trace' = trace, cats' \subseteq {l},
           log'[l].out = Append(log[l].out, Head(pipe[l])), log'[l].from = log[l].from
    PROVE  PrintsAll(l)'
<1> DEFINE out  == log[l].out
           more == Append(out, Head(pipe[l]))
           Before(s, i) == IF i = 1 THEN log[l].from - 1 ELSE s[i - 1]
<1>1. Len(out) \in Nat /\ Len(more) = Len(out) + 1
      /\ \A i \in 1..Len(out) : more[i] = out[i]
      /\ more[Len(out) + 1] = Head(pipe[l])
      /\ out \in Seq(Numbers)
  BY TypesSay, AtHand
<1>2. ASSUME NEW i \in 1..Len(more) PROVE NextOurs(Before(more, i), more[i])
  <2>1. CASE i \in 1..Len(out)
    <3>1. NextOurs(Before(out, i), out[i])
      BY <2>1 DEF PrintsAll
    <3>2. i # 1 => i - 1 \in 1..Len(out)
      BY <1>1, <2>1
    <3>3. Before(more, i) = Before(out, i) /\ more[i] = out[i]
      BY <1>1, <2>1, <3>2
    <3> QED BY <3>1, <3>3
  <2>2. CASE i = Len(out) + 1
    <3>1. Before(more, i) = Printed(l)
      <4>1. CASE out = <<>>
        BY <2>2, <4>1 DEF Printed
      <4>2. CASE out # <<>>
        <5>1. Len(out) \in 1..Len(out) /\ i # 1 /\ i - 1 = Len(out)
          BY <1>1, <2>2, <4>2, EmptySeq
        <5> QED BY <1>1, <4>2, <5>1 DEF Printed
      <4> QED BY <4>1, <4>2
    <3> QED BY <1>1, <2>2, <3>1
  <2> QED BY <1>1, <1>2, <2>1, <2>2
<1>3. log'[l].out = more /\ log'[l].from = log[l].from
  OBVIOUS
<1> HIDE DEF more
<1>4. ASSUME NEW i \in 1..Len(log'[l].out)
      PROVE  NextOurs(IF i = 1 THEN log[l].from - 1 ELSE log[l].out[i - 1], log[l].out[i])'
  <2>1. NextOurs(IF i = 1 THEN log[l].from - 1 ELSE more[i - 1], more[i])
    BY <1>2, <1>3, <1>4
  <2> QED BY <1>3, <2>1 DEF NextOurs
<1> QED BY <1>4 DEF PrintsAll

\* A log returns with the lines that it has printed, or with one more.
LEMMA ReturnInOrder ==
    ASSUME LogTypeOK, LogInv, NEW l \in Logs, NEW remaining \in SUBSET cats,
           NEW out, Return(l, out, remaining), UNCHANGED <<trace, ring>>,
           \/ out = log[l].out
           \/ /\ pipe[l] # <<>> /\ trace[Head(pipe[l])].ours /\ Tailing(l)
              /\ out = Append(log[l].out, Head(pipe[l]))
    PROVE  LogInv'
<1>1. log \in [Logs -> LogType] /\ log[l] \in LogType /\ pipe \in [Logs -> Seq(Numbers)]
  BY DEF LogTypeOK, LogType, Numbers
<1>2. /\ log'[l].at = "done" /\ log'[l].out = out
      /\ log'[l].from = log[l].from /\ log'[l].alone = log[l].alone
      /\ pipe'[l] = <<>> /\ cats' = remaining
      /\ \A j \in Logs \ {l} : log'[j] = log[j] /\ pipe'[j] = pipe[j]
  BY <1>1 DEF Return, LogType
<1>3. RingInOrder'
  BY DEF LogInv, RingInOrder
<1>4. \A j \in Logs \ {l} : InOrder(j)'
  BY <1>2, Elsewhere DEF LogInv
<1>5. ASSUME log[l].alone PROVE PrintsAll(l)'
  <2>1. PrintsAll(l) /\ cats' \subseteq {l}
    BY <1>2, <1>5 DEF LogInv, InOrder, PrintsAll
  <2>2. CASE out = log[l].out
    BY <1>2, <2>1, <2>2, PrintedKept
  <2>3. CASE /\ pipe[l] # <<>> /\ trace[Head(pipe[l])].ours /\ Tailing(l)
             /\ out = Append(log[l].out, Head(pipe[l]))
    <3>1. NextOurs(Printed(l), Head(pipe[l]))
      BY <1>5, <2>3, NextPrinted DEF LogInv
    <3> QED BY <1>2, <2>1, <2>3, <3>1, AppendedInOrder
  <2> QED BY <2>2, <2>3
<1>6. InOrder(l)'
  BY <1>2, <1>5 DEF InOrder, Tailing
<1> QED BY <1>3, <1>4, <1>6 DEF LogInv

\* A log that goes on has judged the line it had at hand.
LEMMA JudgesOne ==
    ASSUME LogTypeOK, LogInv, NEW l \in Logs, Tailing(l), pipe[l] # <<>>,
           UNCHANGED <<trace, ring, cats>>,
           pipe' = [pipe EXCEPT ![l] = Tail(pipe[l])],
           \A j \in Logs \ {l} : log'[j] = log[j],
           log'[l].at = log[l].at, log'[l].from = log[l].from, log'[l].alone = log[l].alone,
           log'[l].out = IF trace[Head(pipe[l])].ours THEN Append(log[l].out, Head(pipe[l]))
                         ELSE log[l].out
    PROVE  LogInv'
<1> DEFINE line == Head(pipe[l])
<1>1. pipe'[l] = Tail(pipe[l]) /\ \A j \in Logs \ {l} : pipe'[j] = pipe[j]
  BY DEF LogTypeOK
<1>2. RingInOrder'
  BY DEF LogInv, RingInOrder
<1>3. \A j \in Logs \ {l} : InOrder(j)'
  BY <1>1, Elsewhere DEF LogInv
<1>4. Tailing(l)' = Tailing(l)
  BY DEF Tailing
<1>5. ASSUME log[l].alone PROVE PrintsAll(l)' /\ FollowsAll(l)'
  <2>1. /\ PrintsAll(l) /\ FollowsAll(l) /\ cats' \subseteq {l}
        /\ line = Judged(l) + 1
        /\ trace[line].ours => NextOurs(Printed(l), line)
    BY <1>5, NextPrinted DEF LogInv, InOrder, PrintsAll
  <2>2. PrintsAll(l)'
    <3>1. CASE trace[line].ours
      BY <2>1, <3>1, AppendedInOrder
    <3>2. CASE ~trace[line].ours
      BY <2>1, <3>2, PrintedKept
    <3> QED BY <3>1, <3>2
  <2>3. /\ Judged(l) \in Int /\ Printed(l) \in Nat
        /\ Len(trace) \in Nat /\ Len(ring) \in Nat /\ Len(pipe[l]) \in Nat
        /\ Len(log[l].out) \in Nat
    BY JudgedSays, TypesSay
  <2>4. Len(pipe'[l]) = Len(pipe[l]) - 1
        /\ \A i \in 1..Len(pipe'[l]) : pipe'[l][i] = pipe[l][i + 1]
    <3>1. /\ Len(Tail(pipe[l])) = Len(pipe[l]) - 1
          /\ \A i \in 1..Len(Tail(pipe[l])) : Tail(pipe[l])[i] = pipe[l][i + 1]
      BY AtHand
    <3> QED BY <1>1, <3>1, Zenon
  <2>5. Judged(l)' = Judged(l) + 1
    <3>1. Judged(l)' = Len(trace) - Len(ring) - Len(pipe'[l])
      BY DEF Judged
    <3>2. Judged(l) = Len(trace) - Len(ring) - Len(pipe[l])
      BY DEF Judged
    <3> QED BY ONLY <2>3, <2>4, <3>1, <3>2
  <2>6. \A i \in 1..Len(pipe[l]) : pipe[l][i] = Judged(l) + i
    BY <2>1 DEF FollowsAll
  <2> DEFINE a == Judged(l)
             m == Len(pipe[l])
             q == Printed(l)
  <2>7. ASSUME NEW i \in 1..Len(pipe'[l]) PROVE pipe'[l][i] = Judged(l)' + i
    <3>1. a \in Int /\ m \in Nat /\ Len(pipe'[l]) = m - 1
      BY <2>3, <2>4
    <3>2. pipe'[l][i] = pipe[l][i + 1] /\ Judged(l)' = a + 1
      BY <2>4, <2>5
    <3>3. \A k \in 1..m : pipe[l][k] = a + k
      BY <2>6
    <3> HIDE DEF a, m
    <3>4. i \in Nat /\ i + 1 \in 1..m
      BY <3>1
    <3>5. (a + 1) + i = a + (i + 1)
      BY <3>1, <3>4
    <3> QED BY <3>2, <3>3, <3>4, <3>5
  <2>8. /\ Printed(l)' <= Judged(l)'
        /\ \A k \in (Printed(l)' + 1)..Judged(l)' : ~trace[k].ours
    <3>1. CASE trace[line].ours
      <4>1. Printed(l)' = line
        <5>1. /\ Len(log'[l].out) = Len(log[l].out) + 1
              /\ log'[l].out[Len(log[l].out) + 1] = line
          BY <3>1, AtHand
        <5>2. log'[l].out # <<>>
          BY <2>3, <5>1
        <5> QED BY <5>1, <5>2 DEF Printed
      <4>2. Printed(l)' = a + 1 /\ Judged(l)' = a + 1 /\ a \in Int
        BY <2>1, <2>3, <2>5, <4>1
      <4> HIDE DEF a
      <4>3. a + 1 <= a + 1 /\ ((a + 1) + 1)..(a + 1) = {}
        BY <4>2
      <4> QED BY <4>2, <4>3
    <3>2. CASE ~trace[line].ours
      <4>1. Printed(l)' = q /\ Judged(l)' = a + 1 /\ line = a + 1
        BY <2>1, <2>5, <3>2 DEF Printed
      <4>2. q <= a /\ (\A k \in (q + 1)..a : ~trace[k].ours) /\ a \in Int /\ q \in Nat
        BY <2>1, <2>3 DEF FollowsAll
      <4> HIDE DEF a, q, line
      <4>3. q <= a + 1
        BY <4>2
      <4>4. ASSUME NEW k \in (q + 1)..(a + 1) PROVE ~trace[k].ours
        <5>1. k \in (q + 1)..a \/ k = a + 1
          BY <4>2
        <5> QED BY <3>2, <4>1, <4>2, <5>1
      <4> QED BY <4>1, <4>3, <4>4
    <3> QED BY <3>1, <3>2
  <2>9. FollowsAll(l)'
    BY <2>7, <2>8 DEF FollowsAll
  <2> QED BY <2>2, <2>9
<1>6. InOrder(l)'
  BY <1>4, <1>5 DEF InOrder
<1> QED BY <1>2, <1>3, <1>6 DEF LogInv

LEMMA NextLineInOrder ==
    ASSUME LogTypeOK, LogInv, NEW l \in Logs, NextLine(l)
    PROVE  LogInv'
<1> DEFINE line == trace[Head(pipe[l])]
           out  == Append(log[l].out, Head(pipe[l]))
<1>1. Tailing(l) /\ pipe[l] # <<>> /\ UNCHANGED <<trace, ring>>
  BY DEF NextLine
<1>2. log \in [Logs -> LogType] /\ log[l] \in LogType
  BY DEF LogTypeOK, LogType, Numbers
<1>3. cats \in SUBSET cats /\ cats \ {l} \in SUBSET cats
  OBVIOUS
<1>4. CASE BreakLoop(l)
  BY <1>1, <1>3, <1>4, ReturnInOrder DEF BreakLoop
<1>5. CASE line.ours /\ (Return(l, out, cats) \/ Return(l, out, cats \ {l}))
  BY <1>1, <1>3, <1>5, ReturnInOrder
<1>6. CASE /\ line.ours
           /\ log' = [log EXCEPT ![l].out = out]
           /\ pipe' = [pipe EXCEPT ![l] = Tail(@)]
           /\ UNCHANGED cats
  <2> HIDE DEF out
  <2>1. /\ log'[l].at = log[l].at /\ log'[l].from = log[l].from
        /\ log'[l].alone = log[l].alone /\ log'[l].out = out
        /\ \A j \in Logs \ {l} : log'[j] = log[j]
    BY <1>2, <1>6 DEF LogType
  <2> QED BY <1>1, <1>6, <2>1, JudgesOne DEF out
<1>7. CASE /\ ~line.ours
           /\ pipe' = [pipe EXCEPT ![l] = Tail(@)]
           /\ UNCHANGED <<log, cats>>
  BY <1>1, <1>7, JudgesOne
<1> QED BY <1>4, <1>5, <1>6, <1>7 DEF NextLine

LEMMA LogInvStep == LogTypeOK /\ LogInv /\ [LogNext]_lvars => LogInv'
<1> SUFFICES ASSUME LogTypeOK, LogInv, [LogNext]_lvars PROVE LogInv'
  OBVIOUS
<1>1. ASSUME NEW line \in Lines, Emit(line) PROVE LogInv'
  BY <1>1, EmitInOrder
<1>2. ASSUME NEW l \in Logs, NEW n \in Counts, LogBegin(l, n) PROVE LogInv'
  BY <1>2, LogBeginInOrder
<1>3. ASSUME NEW l \in Logs, CatReads(l) PROVE LogInv'
  BY <1>3, CatReadsInOrder
<1>4. ASSUME NEW l \in Logs, CatDies(l) PROVE LogInv'
  BY <1>4, CatDiesInOrder
<1>5. ASSUME NEW l \in Logs, NextLine(l) PROVE LogInv'
  BY <1>5, NextLineInOrder
<1>6. ASSUME NEW l \in Logs, Eof(l) PROVE LogInv'
  BY <1>6, ReturnInOrder DEF Eof
<1>7. ASSUME NEW l \in Logs, Interrupt(l) PROVE LogInv'
  <2>1. cats \ {l} \in SUBSET cats
    OBVIOUS
  <2> QED BY <1>7, <2>1, ReturnInOrder DEF Interrupt
<1>8. CASE UNCHANGED lvars
  <2>1. UNCHANGED <<trace, ring, cats, pipe, log>>
    BY <1>8 DEF lvars
  <2>2. RingInOrder'
    BY <2>1 DEF LogInv, RingInOrder
  <2>3. \A l \in Logs : InOrder(l)'
    BY <2>1, Elsewhere DEF LogInv
  <2> QED BY <2>2, <2>3 DEF LogInv
<1> QED BY <1>1, <1>2, <1>3, <1>4, <1>5, <1>6, <1>7, <1>8 DEF LogNext

\* tail_trace_pipe: however the hook, cat and the log interleave, and wherever the
\* log stops, a log that is the only reader of a ring that keeps up has printed
\* the denials one after the other, from the first it could get.
THEOREM NoneSkipped == LogSpec => []NoDenialSkipped
<1>1. LogInv => NoDenialSkipped
  BY DEF LogInv, InOrder, PrintsAll, NoDenialSkipped
<1> QED BY LogInitTypes, LogStepTypes, LogInvInit, LogInvStep, <1>1, PTL DEF LogSpec
=============================================================================
