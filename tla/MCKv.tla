--------------------------------- MODULE MCKv ---------------------------------
(***************************************************************************)
(* The key-value store on small instances: two or three blocks that hold a *)
(* few items each, so that a handful of updates fills a block and starts a *)
(* collection.                                                             *)
(***************************************************************************)
EXTENDS KvDurable
CONSTANTS v1, v2

OneSize == [v \in Val |-> 2]
TwoSizes == (v1 :> 2) @@ (v2 :> 3)
AllKeys == {Key}
SymKey == Permutations(Key)
=============================================================================
