---------------------------- MODULE MCLayerSync ----------------------------
(* Instances of LayerSync: its constants are numbers, given by the cfg. *)
EXTENDS LayerSync
=============================================================================
