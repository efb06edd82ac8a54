----------------------------- MODULE StatusTtl -----------------------------
(***************************************************************************)
(* The `ttl_remaining_s` of a `bpolicy status` (src/src/status.rs), beside *)
(* the commands and the deadman of ControlPlane.                           *)
(*                                                                         *)
(* The status asks is_loaded, dumps three maps, and only then reads        *)
(* deadman.json; what it prints of it the operator goes by until a later   *)
(* command changes the arm.  A record may belong to another arm, or be     *)
(* ahead of the timer, as a renew beside a pending timer leaves it: the    *)
(* property says when the seconds can be relied on.                        *)
(***************************************************************************)
EXTENDS ControlPlane

VARIABLE said \* the status under way, or what the last one said

svars == <<vars, said>>

\* left: the seconds that were reported, counted down since, 0 when none were.
\* sound is history: no command of a shell was under way during the status, and
\* none had failed since the program was attached.
NoReport == [at |-> "idle", left |-> 0, sound |-> FALSE]

StatusBegin ==
    /\ said.at \in {"idle", "printed"}
    /\ SaysLoaded(TRUE)
    /\ said' = [NoReport EXCEPT !.at = "asked", !.sound = AtRest]
    /\ UNCHANGED vars

\* read_state and ttl_remaining; null for a permanent record and for none.
\* Mutant: the TTL of the record instead of what is left of it.
FullTtl       == state.ttl
ttl_remaining == IF state.here /\ state.ttl # 0 THEN state.left ELSE 0

ReadRecord ==
    /\ said.at = "asked"
    /\ said' = [said EXCEPT !.at = "printed", !.left = ttl_remaining,
                            !.sound = @ /\ ~trouble]
    /\ UNCHANGED vars

-----------------------------------------------------------------------------

SInit == Init /\ said = NoReport

\* A step of a shell, of the deadman or of the environment, seen by the operator
\* who waits for the status, or has it before him.  What it said no longer
\* counts when the program is gone, or when a load or renew has promised anew.
Commands ==
    /\ \/ \E c \in Clients : Start(c) \/ ClientStep(c) \/ UnloadStep(c)
       \/ UnloadCheck(Deadman) \/ UnloadStep(Deadman)
       \/ \E p \in Procs : Kill(p)
       \/ Fire \/ Reboot \/ Logout
    /\ \/ /\ attached' /\ arm' = arm
          /\ said' = [said EXCEPT !.sound = @ /\ (said.at = "asked" => AtRest')]
       \/ /\ ~attached' \/ arm' # arm
          /\ said' = NoReport

Second == Tick /\ said' = Pass(said)

SNext == Commands \/ Second \/ StatusBegin \/ ReadRecord

SSpec == SInit /\ [][SNext]_svars

-----------------------------------------------------------------------------
(* Properties *)

\* The deadman does not take the program away before the seconds are over that
\* the last status reported, if no command of a shell ran while it was put
\* together and the commands since the attach had all reported success: not for
\* a record of an earlier arm, nor for a timer that an earlier arm has left.
SecondsAreKept ==
    attached /\ pc[Deadman] \in {"check", "rm"} /\ said.sound => said.left = 0

=============================================================================
