------------------------------- MODULE MCDevice -------------------------------
(* A bounded instance of Device for TLC. *)
EXTENDS Device

MCMaxOps == [reset |-> 2, i2c |-> 1, ci |-> 1]
=============================================================================
