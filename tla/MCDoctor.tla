------------------------------ MODULE MCDoctor ------------------------------
(* Values of Doctor's constants for TLC. *)
EXTENDS Doctor

ProfilesMC == {"tight"}
AllowMC    == [f \in ProfilesMC |-> <<>>]

\* root on a machine that has all it takes, and a user who sees bpf on the
\* kernel's command line and may read next to nothing else.
CallersMC ==
    {[lsm |-> "bpf", cmdline |-> "unread", btf |-> "present", caps |-> "either", root |-> TRUE],
     [lsm |-> "unread", cmdline |-> "bpf", btf |-> "unread", caps |-> "unread", root |-> FALSE]}
=============================================================================
