----------------------------- MODULE MCStartUp -----------------------------
(***************************************************************************)
(* An instance of StartUp: two workers on GPUs of equal or different size, *)
(* caches of zero, one or two blocks.                                      *)
(***************************************************************************)
EXTENDS StartUp

\* A token budget below, between and above what the batch can hold.
MCLimits == {[batch |-> 2, seq |-> 3, tokens |-> 1],
             [batch |-> 3, seq |-> 2, tokens |-> 4],
             [batch |-> 2, seq |-> 2, tokens |-> 5]}
=============================================================================
