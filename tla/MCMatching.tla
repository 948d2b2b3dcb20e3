------------------------------ MODULE MCMatching ------------------------------
(* Matching for TLC. *)
EXTENDS Matching, MCClusters
=============================================================================
