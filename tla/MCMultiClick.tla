---------------------------- MODULE MCMultiClick ----------------------------
(* TLC instance of MultiClick. *)
EXTENDS MultiClick
=============================================================================
