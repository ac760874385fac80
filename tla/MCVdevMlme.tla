----------------------------- MODULE MCVdevMlme -----------------------------
(* Instances of VdevMlme for TLC. *)
EXTENDS VdevMlme
=============================================================================
