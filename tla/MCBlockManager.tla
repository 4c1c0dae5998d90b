--------------------------- MODULE MCBlockManager ---------------------------
(***************************************************************************)
(* Instances of BlockManager: two sequences that share their first block   *)
(* and then diverge.                                                       *)
(***************************************************************************)
EXTENDS BlockManager, TLC

CONSTANTS s1, s2, r1

PoolSizes == [gpu |-> 4, host |-> 2]

ForkSeqs == {s1, s2}
ForkHashes == {11, 21, 22}
ForkBlockHash == (s1 :> <<11, 21>>) @@ (s2 :> <<11, 22>>)
=============================================================================
