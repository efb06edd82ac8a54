------------------------- MODULE PrefixMatchProofs -------------------------
(***************************************************************************)
(* The hook's walk over a path finds a profile's prefix exactly when the   *)
(* userspace evaluator does, for every path that fits into the hook's      *)
(* buffer and every profile whose prefixes do not end with a slash; and    *)
(* the PIDs and the mode that bpolicy hands to bpftool are what the hooks  *)
(* and the status take them for.                                           *)
(***************************************************************************)
EXTENDS PrefixMatch, Encodings, SequenceTheorems, WellFoundedInduction, TLAPS

-----------------------------------------------------------------------------
(* The evaluator *)

\* Some member of a non-empty set of numbers below a bound is the greatest.
LEMMA Greatest ==
    ASSUME NEW bound \in Nat, NEW some \in SUBSET (0..bound), some # {}
    PROVE  \E n \in some : \A k \in some : k <= n
<1> DEFINE Room == {bound - n : n \in some}
<1>1. Room \subseteq Nat
  OBVIOUS
<1>2. PICK m \in some : TRUE
  OBVIOUS
<1>3. bound - m \in Room
  BY <1>2
<1>4. PICK r \in Room : \A q \in Room : ~(<<q, r>> \in OpToRel(<, Nat))
  <2> HIDE DEF Room
  <2> QED  BY <1>1, <1>3, NatLessThanWellFounded, WFMin, Zenon
<1>5. \A q \in Room : ~(q < r)
  BY <1>1, <1>4 DEF OpToRel
<1>6. PICK n \in some : r = bound - n
  OBVIOUS
<1>7. ASSUME NEW k \in some  PROVE k <= n
  <2>1. bound - k \in Room
    OBVIOUS
  <2>2. ~(bound - k < bound - n)
    BY <1>5, <1>6, <2>1
  <2>3. k \in Int /\ n \in Int /\ bound \in Int
    OBVIOUS
  <2> QED
    <3> HIDE DEF Room
    <3> QED  BY <2>2, <2>3
<1> QED
  BY <1>7

\* What starts a path is not longer than the path.
LEMMA MatchIsShort ==
    ASSUME NEW path \in Seq(Chars), NEW prefix \in Seq(Chars),
           prefix_matches(prefix, path)
    PROVE  Len(prefix) \in 0..Len(path)
BY CharsAssumption DEF prefix_matches, starts_with

\* longest_prefix_match finds a prefix when there is any that matches.
LEMMA LongestExists ==
    ASSUME NEW path \in Seq(Chars), NEW prefixes \in SUBSET Seq(Chars)
    PROVE  longest_prefix_match(prefixes, path) # {}
               <=> \E p \in prefixes : prefix_matches(p, path)
<1> DEFINE matching == {p \in prefixes : prefix_matches(p, path)}
           lengths  == {Len(p) : p \in matching}
<1>1. ASSUME matching # {}
      PROVE  \E p \in matching : \A q \in matching : Len(q) <= Len(p)
  <2>1. \A p \in matching : Len(p) \in 0..Len(path)
    BY MatchIsShort
  <2>2. Len(path) \in Nat /\ lengths \in SUBSET (0..Len(path)) /\ lengths # {}
    BY <1>1, <2>1
  <2>3. PICK n \in lengths : \A k \in lengths : k <= n
    <3> HIDE DEF lengths
    <3> QED  BY <2>2, Greatest
  <2> QED
    BY <2>3
<1> QED
  BY <1>1 DEF longest_prefix_match

\* A prefix that matches is the beginning of the path.
LEMMA MatchIsBeginning ==
    ASSUME NEW path \in Seq(Chars), NEW prefix \in Seq(Chars),
           prefix_matches(prefix, path), NEW n \in 1..Len(prefix)
    PROVE  path[n] = prefix[n]
<1>1. CASE path = prefix
  BY <1>1
<1>2. CASE starts_with(path, prefix)
  <2>1. Len(prefix) \in Nat /\ Len(prefix) <= Len(path)
    BY <1>2 DEF starts_with
  <2>2. SubSeq(path, 1, Len(prefix))[n] = path[n]
    BY <2>1
  <2> QED  BY <1>2, <2>2 DEF starts_with
<1>3. CASE starts_with(path, Append(prefix, Slash))
  <2>1. Len(Append(prefix, Slash)) = Len(prefix) + 1 /\ Len(prefix) \in Nat
    OBVIOUS
  <2>2. /\ Len(prefix) + 1 <= Len(path)
        /\ SubSeq(path, 1, Len(prefix) + 1) = Append(prefix, Slash)
    BY <1>3, <2>1 DEF starts_with
  <2>3. SubSeq(path, 1, Len(prefix) + 1)[n] = path[n]
    BY <2>1, <2>2
  <2>4. Append(prefix, Slash)[n] = prefix[n]
    BY <2>1
  <2> QED  BY <2>2, <2>3, <2>4
<1> QED
  BY <1>1, <1>2, <1>3 DEF prefix_matches

\* policy.rs, longest_prefix_match: Option<&str>.  The set of the longest prefixes
\* that match a path has one member at most, so `policy check` has one answer to
\* give, however the profile orders or repeats its entries.
THEOREM OneLongest ==
    ASSUME NEW path \in Seq(Chars), NEW prefixes \in SUBSET Seq(Chars),
           NEW p \in longest_prefix_match(prefixes, path),
           NEW q \in longest_prefix_match(prefixes, path)
    PROVE  p = q
<1>1. /\ p \in Seq(Chars) /\ prefix_matches(p, path)
      /\ q \in Seq(Chars) /\ prefix_matches(q, path)
      /\ Len(q) <= Len(p) /\ Len(p) <= Len(q)
  BY DEF longest_prefix_match
<1>2. Len(p) = Len(q)
  <2>1. Len(p) \in Nat /\ Len(q) \in Nat
    BY <1>1
  <2> QED  BY <1>1, <2>1
<1>3. \A n \in 1..Len(p) : p[n] = q[n]
  <2> TAKE n \in 1..Len(p)
  <2>1. path[n] = p[n]
    BY <1>1, MatchIsBeginning
  <2>2. path[n] = q[n]
    BY <1>1, <1>2, MatchIsBeginning
  <2> QED  BY <2>1, <2>2
<1> QED
  BY <1>1, <1>2, <1>3

-----------------------------------------------------------------------------
(* The walk *)

\* policy.rs, header: both sides implement the same rule.  On its own, the walk
\* of path_allowed_dynamic hits an entry exactly when longest_prefix_match finds
\* one, if no entry ends with a slash and the path fits into the buffer.
THEOREM WalkFindsLongest ==
    ASSUME NEW path \in Seq(Chars), NEW prefixes \in SUBSET Seq(Chars),
           path # <<>>, DPathFits(path),
           \A p \in prefixes : p # <<>> /\ ~ends_with_slash(p)
    PROVE  path_allowed_dynamic(path, prefixes)
               <=> longest_prefix_match(prefixes, path) # {}
<1>1. Len(path) \in Nat /\ Len(path) <= MaxPrefix
  BY MaxPrefixAssumption DEF DPathFits
<1>2. ASSUME NEW p \in prefixes, prefix_matches(p, path)
      PROVE  path_allowed_dynamic(path, prefixes)
  <2>1. Len(p) \in 1..Len(path)
    BY <1>2, MatchIsShort
  <2>2. Len(p) \in 1..WalkEnd(path)
    BY <1>1, <2>1, MaxPrefixAssumption DEF WalkEnd, PathLen
  <2>3. p = SubSeq(path, 1, Len(p)) /\ Boundary(path, Len(p))
    <3>1. CASE path = p
      BY <3>1, <2>1 DEF Boundary, CharAt
    <3>2. CASE path # p
      <4>1. starts_with(path, Append(p, Slash))
        BY <1>2, <3>2 DEF prefix_matches
      <4>2. /\ Len(p) + 1 <= Len(path)
            /\ SubSeq(path, 1, Len(p) + 1) = Append(p, Slash)
        BY <4>1, CharsAssumption DEF starts_with
      <4>3. path[Len(p) + 1] = Slash
        BY <4>2, <2>1, CharsAssumption
      <4>4. ASSUME NEW n \in 1..Len(p)  PROVE path[n] = p[n]
        <5>1. SubSeq(path, 1, Len(p) + 1)[n] = path[n]
          BY <4>2, <2>1
        <5>2. Append(p, Slash)[n] = p[n]
          BY <2>1
        <5> QED  BY <4>2, <5>1, <5>2
      <4>5. p = SubSeq(path, 1, Len(p))
        BY <4>4, <2>1
      <4> QED
        BY <4>2, <4>3, <4>5, <2>1 DEF Boundary, CharAt
    <3> QED  BY <3>1, <3>2
  <2>4. Candidate(path, Len(p)) = prefix_to_key_bytes(p)
    BY <2>1, <2>3 DEF Candidate, prefix_to_key_bytes
  <2> QED
    BY <2>2, <2>3, <2>4 DEF path_allowed_dynamic
<1>3. ASSUME path_allowed_dynamic(path, prefixes)
      PROVE  \E p \in prefixes : prefix_matches(p, path)
  <2>1. PICK i \in 1..WalkEnd(path), p \in prefixes :
            Boundary(path, i) /\ Candidate(path, i) = prefix_to_key_bytes(p)
    BY <1>3 DEF path_allowed_dynamic
  <2>2. i \in Nat /\ i >= 1
    BY <1>1, MaxPrefixAssumption DEF WalkEnd, PathLen
  <2>3. /\ i = Len(p)
        /\ p = IF i <= Len(path) THEN SubSeq(path, 1, i) ELSE path
    BY <2>1 DEF Candidate, prefix_to_key_bytes
  <2>4. i <= Len(path)
    BY <2>2, <2>3, <1>1
  <2>5. CASE i = Len(path)
    <3>1. p = path
      BY <2>3, <2>5
    <3> QED  BY <3>1 DEF prefix_matches
  <2>6. CASE i < Len(path)
    <3>1. path[i + 1] = Slash
      <4>1. path[i + 1] \in Chars
        BY <2>2, <2>6, ElementOfSeq
      <4> QED
        BY <2>1, <2>6, <4>1, CharsAssumption DEF Boundary, CharAt
    <3>2. SubSeq(path, 1, i + 1) = Append(p, Slash)
      BY <3>1, <2>2, <2>3, <2>6, CharsAssumption
    <3>3. starts_with(path, Append(p, Slash))
      BY <3>2, <2>2, <2>3, <2>6, CharsAssumption DEF starts_with
    <3> QED  BY <3>3 DEF prefix_matches
  <2> QED  BY <1>1, <2>2, <2>4, <2>5, <2>6
<1> QED
  BY <1>2, <1>3, LongestExists

-----------------------------------------------------------------------------
(* Bytes *)

LEMMA Division ==
    ASSUME NEW x \in Nat
    PROVE  /\ Shift(x) \in Nat
           /\ x % 256 \in Byte
           /\ x = (x % 256) + 256 * Shift(x)
BY SMT DEF Shift, Byte

\* The digits of a u32 are bytes, and the machine reads the number back.
LEMMA DigitsReadBack ==
    ASSUME NEW x \in U32
    PROVE  /\ \A i \in 1..4 : le_bytes(x)[i] \in Byte
           /\ FromLe(le_bytes(x)) = x
<1> DEFINE q == Shift(x)
           r == Shift(q)
           s == Shift(r)
<1>1. /\ x \in Nat /\ q \in Nat /\ r \in Nat /\ s \in Nat
      /\ x = (x % 256) + 256 * q /\ x % 256 \in Byte
      /\ q = (q % 256) + 256 * r /\ q % 256 \in Byte
      /\ r = (r % 256) + 256 * s /\ r % 256 \in Byte
  <2>1. x \in Nat
    BY SMT DEF U32
  <2>2. q \in Nat /\ x = (x % 256) + 256 * q /\ x % 256 \in Byte
    BY <2>1, Division
  <2>3. r \in Nat /\ q = (q % 256) + 256 * r /\ q % 256 \in Byte
    BY <2>2, Division
  <2>4. s \in Nat /\ r = (r % 256) + 256 * s /\ r % 256 \in Byte
    BY <2>3, Division
  <2> QED BY <2>1, <2>2, <2>3, <2>4
<1>2. le_bytes(x) = <<x % 256, q % 256, r % 256, s % 256>>
  BY DEF le_bytes
<1> HIDE DEF q, r, s
<1>3. s \in Byte
  BY <1>1, SMT DEF U32, Word, Byte
<1>4. s % 256 = s
  BY <1>3, SMT DEF Byte
<1>5. FromLe(le_bytes(x)) = x
  BY <1>1, <1>2, <1>4, SMT DEF FromLe, Byte
<1> QED BY <1>1, <1>2, <1>3, <1>4, <1>5, SMT

\* pids.rs: the key of an enforce or release is read back by the fork hook, the
\* exit hook and the write-open hook as the same PID; two PIDs never share a key.
THEOREM KeyIsPid ==
    /\ \A pid \in U32 : FromLe(pid_to_key_bytes(pid)) = pid
    /\ \A p1, p2 \in U32 : pid_to_key_bytes(p1) = pid_to_key_bytes(p2) => p1 = p2
BY DigitsReadBack, Zenon DEF pid_to_key_bytes

\* audit.rs: the eight bytes of either mode are that mode to the hook, which
\* looks at one of them, and to the status, which compares all.
THEOREM ModeIsRead ==
    \A mode \in {MODE_ENFORCE, MODE_AUDIT} :
        /\ Value64(mode_map_bytes(mode)) = mode
        /\ HookAudits(mode_map_bytes(mode)) <=>
               mode_label(Value64(mode_map_bytes(mode))) = "audit"
<1> TAKE mode \in {MODE_ENFORCE, MODE_AUDIT}
<1>1. mode \in {0, 1} /\ mode % 256 = mode /\ 0 % 256 = 0
  BY SMT DEF MODE_ENFORCE, MODE_AUDIT
<1>2. Shift(mode) = 0 /\ Shift(0) = 0
  BY <1>1, SMT DEF Shift
<1>3. le_bytes(mode) = <<mode, 0, 0, 0>> /\ le_bytes(0) = <<0, 0, 0, 0>>
  BY <1>1, <1>2 DEF le_bytes
<1>4. FromLe(<<mode, 0, 0, 0>>) = mode /\ FromLe(<<0, 0, 0, 0>>) = 0
  BY <1>1, SMT DEF FromLe
<1>5. Value64(mode_map_bytes(mode)) = mode
  BY <1>1, <1>3, <1>4, SMT DEF Value64, mode_map_bytes, Word
<1> QED BY <1>1, <1>3, <1>5, SMT DEF HookAudits, mode_map_bytes, mode_label, MODE_AUDIT
=============================================================================
