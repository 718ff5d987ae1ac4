--------------------------------- MODULE MCCrm ---------------------------------
(* Instances of Crm for TLC: one record. *)
EXTENDS Crm, TLC
CONSTANTS x1, w1, w2
=============================================================================
