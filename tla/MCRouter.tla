------------------------------ MODULE MCRouter ------------------------------
(***************************************************************************)
(* Instances of Router: nodes n1 and n2, of any kind each, and the         *)
(* requests a and b.                                                       *)
(***************************************************************************)
EXTENDS Router

CONSTANTS n1, n2, a, b

TwoNodes == <<n1, n2>>
=============================================================================
