------------------------------- MODULE MCTimer -------------------------------
(* Three timers, two periodic and one that fires once.                      *)
EXTENDS RhinoTimer, TLC
CONSTANTS t1, t2, t3

ThreeFirst == (t1 :> 1) @@ (t2 :> 1) @@ (t3 :> 2)
ThreeRound == (t1 :> 3) @@ (t2 :> 2) @@ (t3 :> 0)
NewTimesSet == {<<2, 0>>}
=============================================================================
