---------------------------- MODULE MCNsMapping ----------------------------
(* Instances of NsMapping for TLC: the constants are given in the configs. *)
EXTENDS NsMapping
=============================================================================
