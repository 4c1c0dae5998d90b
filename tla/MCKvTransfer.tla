---------------------------- MODULE MCKvTransfer ----------------------------
(***************************************************************************)
(* Three requests; a and b share their first block, a and c nothing.       *)
(***************************************************************************)
EXTENDS KvTransfer, TLC

CONSTANTS a, b, c

MCBlockHash == (a :> <<11, 21>>) @@ (b :> <<11, 22>>) @@ (c :> <<12, 23>>)
MCHashes == {11, 12, 21, 22, 23}
MCPromptLen == (a :> 3) @@ (b :> 2) @@ (c :> 4)
=============================================================================
