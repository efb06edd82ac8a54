----------------------------- MODULE Encodings -----------------------------
(***************************************************************************)
(* The bytes that commands hand to bpftool, and what the hook and the      *)
(* status take them for: PIDs as keys of protected_pids                    *)
(* (src/src/pids.rs), the mode as value of bpolicy_config                  *)
(* (src/src/audit.rs, bpf/bpolicy.bpf.c).  The decimal digits that stand   *)
(* for each byte on bpftool's command line are left out.                   *)
(***************************************************************************)
EXTENDS Integers

Byte == 0..255
Word == 65536 * 65536
U32  == {x \in Nat : x < Word}

\* to_le_bytes of a u32.
Shift(x)    == x \div 256
le_bytes(x) == <<x % 256, Shift(x) % 256, Shift(Shift(x)) % 256, Shift(Shift(Shift(x))) % 256>>

\* What the machine reads back from four bytes.
FromLe(b) == b[1] + 256 * (b[2] + 256 * (b[3] + 256 * b[4]))

\* The key of an enforce or a release; the hooks look the tgid up, a u32 too.
pid_to_key_bytes(pid) == le_bytes(pid)

MODE_ENFORCE == 0
MODE_AUDIT   == 1

\* The eight bytes of the u64, in two halves; that of either mode is in the lower.
mode_map_bytes(mode) == <<le_bytes(mode), le_bytes(0)>>

\* The hook tests the lowest byte; the status compares the value, of which
\* bpftool prints all eight.
HookAudits(halves) == halves[1][1] = MODE_AUDIT
Value64(halves)    == FromLe(halves[1]) + Word * FromLe(halves[2])
mode_label(value)  == IF value = MODE_AUDIT THEN "audit" ELSE "enforce"
=============================================================================
