------------------------------- MODULE MCSync --------------------------------
(* RhinoSync with bounded counters.                                         *)
EXTENDS RhinoSync

CONSTANTS MaxNested, MaxCount

Bound == /\ \A m \in Mutex : nested[m] <= MaxNested
         /\ \A s \in Sem : count[s] <= MaxCount

MCSpec == SInit /\ [][SNext /\ Bound']_svars
=============================================================================
