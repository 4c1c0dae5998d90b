---------------------------- MODULE MCScheduler ----------------------------
(***************************************************************************)
(* Instances of Scheduler.  a, b and c arrive in this order (but may reach *)
(* the scheduler in any order); they share their first block or two.      *)
(***************************************************************************)
EXTENDS Scheduler

CONSTANTS a, b, c

MCRegions == {"in", "out"} \X Seqs

MCArrival == [s \in Seqs |-> CASE s = a -> 1 [] s = b -> 2 [] s = c -> 3]

\* Up to three full blocks each; a and c share two, b shares one with them.
MCBlockHash == (a :> <<11, 21, 31>>) @@ (b :> <<11, 22, 32>>) @@ (c :> <<11, 21, 33>>)
MCHashes == {11, 21, 22, 31, 32, 33}

Mode(reorder, overtaking, tokens, lens) ==
    [reorder |-> reorder, overtaking |-> overtaking, tokens |-> tokens, lens |-> lens]
\* Arrival-order scheduling of requests that overtake each other, with chunks
\* of up to three tokens; reordering, with one token at a time.
OrderModes == {Mode(FALSE, TRUE, 3, {1, 3, 4}), Mode(TRUE, FALSE, 1, {1, 3, 5})}
\* For all three tiers: whole prompts in a batch, and chunks again.
TierModes == {Mode(FALSE, FALSE, 4, {4})}
DiskModes == {Mode(FALSE, FALSE, 3, {1, 3, 4})}
=============================================================================
