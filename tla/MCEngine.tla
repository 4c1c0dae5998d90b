------------------------------ MODULE MCEngine ------------------------------
(***************************************************************************)
(* Instances of Engine: requests with session ids of their own.            *)
(***************************************************************************)
EXTENDS Engine

CONSTANTS a, b, c

OwnSession == [r \in Reqs |-> r]
=============================================================================
