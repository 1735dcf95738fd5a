---------------------------- MODULE MCCardChannel ----------------------------
(***************************************************************************)
(* CardChannel on small instances.  Commands that differ in nothing the    *)
(* model looks at are interchangeable.                                     *)
(***************************************************************************)
EXTENDS CardChannel, TLC

CommandSymmetry == Permutations(Ops)
=============================================================================
