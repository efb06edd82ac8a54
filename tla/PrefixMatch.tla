---------------------------- MODULE PrefixMatch ----------------------------
(***************************************************************************)
(* The allow-list rule, twice: as src/src/policy.rs evaluates it for       *)
(* `bpolicy policy check`, and as bpf/bpolicy.bpf.c does for a write-open.  *)
(*                                                                         *)
(* A path is a sequence of characters; the alphabet is a parameter.  The   *)
(* compiled defaults are grouped by how the hook tests them: directories   *)
(* it compares in full (/tmp/, /proc/self/), and names below one device    *)
(* directory (/dev/) of which it compares the first character only.        *)
(***************************************************************************)
EXTENDS Integers, Sequences, FiniteSets

CONSTANTS
    Chars,       \* the characters of paths and prefixes
    Slash,       \* '/'
    Nul,         \* '\0', which ends a path in the hook's buffer
    DirDefaults, \* compiled defaults that are directories: end with '/'
    Dev,         \* "/dev/"
    DevNames,    \* what follows "/dev/" in the other compiled defaults
    MaxPrefix    \* ALLOWLIST_MAX_PREFIX = MAX_PREFIX_LEN; the buffer has one more

ASSUME CharsAssumption ==
    /\ Slash \in Chars
    /\ Nul \notin Chars
ASSUME DefaultsAssumption ==
    /\ DirDefaults \subseteq Seq(Chars)
    /\ Dev \in Seq(Chars)
    /\ DevNames \subseteq Seq(Chars) \ {<<>>}
    /\ \A d \in DirDefaults : d # <<>> /\ d[Len(d)] = Slash
ASSUME MaxPrefixAssumption == MaxPrefix \in Nat \ {0}

starts_with(path, prefix) ==
    Len(prefix) <= Len(path) /\ SubSeq(path, 1, Len(prefix)) = prefix

ends_with_slash(prefix) == Len(prefix) > 0 /\ prefix[Len(prefix)] = Slash

-----------------------------------------------------------------------------
(* policy.rs *)

COMPILED_DEFAULTS == DirDefaults \cup {Dev \o name : name \in DevNames}

prefix_matches(prefix, path) ==
    \/ path = prefix
    \/ ends_with_slash(prefix) /\ starts_with(path, prefix)
    \/ ~ends_with_slash(prefix) /\ starts_with(path, Append(prefix, Slash))

is_default_allowed(path) == \E d \in COMPILED_DEFAULTS : prefix_matches(d, path)

\* The matching prefixes of greatest length: empty, or the answer Some(p).
longest_prefix_match(prefixes, path) ==
    LET matching == {p \in prefixes : prefix_matches(p, path)}
    IN  {p \in matching : \A q \in matching : Len(q) <= Len(p)}

is_allowed(path, prefixes) ==
    is_default_allowed(path) \/ longest_prefix_match(prefixes, path) # {}

\* What `load` accepts as a prefix: validate_prefix and prefix_to_key_bytes.
validate_prefix(prefix)    == prefix # <<>> /\ prefix[1] = Slash
prefix_to_key_bytes(prefix) == [len |-> Len(prefix), data |-> prefix]
HasKey(prefix)             == Len(prefix) <= MaxPrefix

-----------------------------------------------------------------------------
(* bpolicy.bpf.c *)

\* bpf_d_path fails when the path and its NUL do not fit into the buffer, and
\* returns the length with the NUL otherwise.
DPathFits(path) == Len(path) + 1 <= MaxPrefix + 1
PathLen(path)   == Len(path) + 1

path_allowed_defaults(path) ==
    \/ \E d \in DirDefaults : starts_with(path, d)
    \/ /\ starts_with(path, Dev)
       /\ Len(path) > Len(Dev)
       /\ \E name \in DevNames : path[Len(Dev) + 1] = name[1]

\* path[i] of the C code.  What follows the NUL is never part of a key.
CharAt(path, i) == IF i < Len(path) THEN path[i + 1] ELSE Nul

\* The loop of path_allowed_dynamic stops here.  Mutant: at the end of the path,
\* whatever the key can hold.
WalkToTheEnd(path) == PathLen(path)
WalkEnd(path) == IF PathLen(path) < MaxPrefix THEN PathLen(path) ELSE MaxPrefix

\* It looks up a key at each of these.  Mutant: only at '/', so that a path
\* which is itself an allow-list entry is missed.
SeparatorOnly(path, i) == CharAt(path, i) = Slash
Boundary(path, i)      == CharAt(path, i) \in {Slash, Nul}

\* The candidate key of i bytes.  Its data is padded with zeroes, so a NUL that
\* is copied with the path does not show in it, but counts in its length.
Candidate(path, i) ==
    [len |-> i, data |-> IF i <= Len(path) THEN SubSeq(path, 1, i) ELSE path]

\* path_allowed_dynamic, run alone.
path_allowed_dynamic(path, prefixes) ==
    \E i \in 1..WalkEnd(path), prefix \in prefixes :
        Boundary(path, i) /\ Candidate(path, i) = prefix_to_key_bytes(prefix)

=============================================================================
