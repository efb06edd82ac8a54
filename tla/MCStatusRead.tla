---------------------------- MODULE MCStatusRead ----------------------------
(* Values of StatusRead's constants for TLC: two tasks with CPUs of their own. *)
EXTENDS StatusRead

\* "/", the first letters of "tmp", "dev" and "null", and one more.
CharsMC       == {"/", "t", "d", "n", "a"}
DirDefaultsMC == {<<"/", "t", "/">>}
DevMC         == <<"/", "d", "/">>
DevNamesMC    == {<<"n">>}
CpuOfMC       == [t \in Tasks |-> t]

\* A path below a compiled default, and one as long as a key can be.  The
\* second profile has that path itself and the directory it is in, and holds
\* either one alone while the load is adding them.
PathsMC    == {<<"/", "t", "/", "a">>, <<"/", "a", "/", "a">>}
ProfilesMC == {{}, {<<"/", "a">>, <<"/", "a", "/", "a">>}}
=============================================================================
