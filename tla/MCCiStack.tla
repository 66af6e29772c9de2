------------------------------ MODULE MCCiStack ------------------------------
(* A bounded instance of CiStack for TLC. *)
EXTENDS CiStack
=============================================================================
