------------------------------- MODULE MCCaPmt -------------------------------
(* Values for the constants of CaPmt that a .cfg can't write. *)
EXTENDS CaPmt

\* Two sections, one of them with the fields a program has before its first PMT:
\* pmt_update takes that one for unchanged until the other was seen.
MCSections == {<<0, 0>>, <<1, 1>>}
=============================================================================
