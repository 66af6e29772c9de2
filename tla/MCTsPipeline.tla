---------------------------- MODULE MCTsPipeline ----------------------------
(***************************************************************************)
(* Bounded instances of TsPipeline for TLC: the five configurations differ *)
(* in their bounds, event threads and faults.                              *)
(***************************************************************************)
EXTENDS TsPipeline
=============================================================================
