----------------------------- MODULE MCWorkqueue -----------------------------
(* Two queues, two works of which one is delayed, two callers.             *)
EXTENDS RhinoWorkqueue
=============================================================================
