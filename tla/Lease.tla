------------------------------- MODULE Lease -------------------------------
(***************************************************************************)
(* What arming bpolicy promises an operator who runs one command at a time *)
(* and gives every arm a TTL: the enforcer is held on a lease.             *)
(*                                                                         *)
(* Once a term has been promised the enforcer stays on for the whole term, *)
(* unless the operator asks for its removal or the machine goes down; and  *)
(* when nothing is left of the term, it is taken down without anybody      *)
(* asking.  This is CHANGELOG.md's "arming the enforcer cannot strand you" *)
(* with README.md's default deadman, and says nothing of files, timers,    *)
(* units or processes.                                                     *)
(***************************************************************************)
EXTENDS Naturals

CONSTANT Terms  \* the TTLs that can be promised, none of them 0

VARIABLES
    phase, \* "on"; "removed" while a removal winds up; otherwise "off"
    left,  \* what is left of the promised term; 0 before the first promise
    asked  \* the operator has asked for removal, which is under way

vars == <<phase, left, asked>>

On   == phase = "on"
Down == {"off", "removed"}

TypeOK == phase \in Down \cup {"on"} /\ left \in Nat /\ asked \in BOOLEAN

Init == phase = "off" /\ left = 0 /\ asked = FALSE

Grant == /\ ~On /\ ~asked
         /\ phase' = "on"
         /\ UNCHANGED <<left, asked>>

\* A load or a renew acknowledges a term, which starts now.
Promise(term) == /\ On /\ ~asked
                 /\ left' = term
                 /\ UNCHANGED <<phase, asked>>

Ask == /\ On /\ ~asked
       /\ asked' = TRUE
       /\ UNCHANGED <<phase, left>>

\* The only two reasons to be removed: somebody asked, or the term is over.  An
\* expiry that overtakes the operator's removal leaves that one to be answered.
TurnOff == /\ On
           /\ asked \/ left = 0
           /\ phase' = "removed"
           /\ left' = 0
           /\ asked' \in {FALSE, asked}

\* A removal that finds the enforcer down has nothing to take off.
Answer == /\ ~On /\ asked
          /\ phase' = "removed"
          /\ asked' = FALSE
          /\ UNCHANGED left

\* While the enforcer is down, removals by others come and go.
Settle == /\ ~On
          /\ phase' \in Down
          /\ UNCHANGED <<left, asked>>

\* The machine goes down: no removal, and the only other way off.
PowerLoss == phase' = "off" /\ left' = 0 /\ asked' = FALSE

Tick == /\ left > 0
        /\ left' = left - 1
        /\ UNCHANGED <<phase, asked>>

Next == \/ Grant
        \/ \E term \in Terms : Promise(term)
        \/ Ask
        \/ TurnOff
        \/ Answer
        \/ Settle
        \/ PowerLoss
        \/ Tick

SafeSpec == Init /\ [][Next]_vars

Spec == SafeSpec /\ WF_vars(TurnOff) /\ WF_vars(Tick)
=============================================================================
