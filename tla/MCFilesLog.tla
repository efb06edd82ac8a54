----------------------------- MODULE MCFilesLog -----------------------------
(* Files and TraceLog for TLC, in one run: they share nothing, so a behaviour is
   about the object, about the record or about the log. *)
EXTENDS Files, TraceLog

VARIABLE part

mcvars == <<fvars, lvars, part>>

MCInit == FilesInit /\ LogInit /\ part \in {"object", "record", "log"}

MCNext ==
    /\ UNCHANGED part
    /\ \/ /\ part = "object"
          /\ BuildNext \/ Reading("object")
          /\ UNCHANGED lvars
       \/ /\ part = "record"
          /\ RecordNext \/ Reading("record")
          /\ UNCHANGED lvars
       \/ /\ part = "log"
          /\ LogNext
          /\ UNCHANGED fvars

MCSpec == MCInit /\ [][MCNext]_mcvars /\ LogFairness
=============================================================================
