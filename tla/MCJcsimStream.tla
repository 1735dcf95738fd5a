-------------------------- MODULE MCJcsimStream --------------------------
(* Instances of JcsimStream.  A byte is a bit and a length has three of     *)
(* them: an answer of three bits is too long for RAPDU_MAX, a command of    *)
(* four for the bridge.  The strings are chosen so that the middle of a     *)
(* frame can be read as a length of every kind.                             *)
EXTENDS JcsimStream

MCCApdus == {<<0, 1>>, <<1, 1, 0, 1>>}
MCRApdus == {<<1, 0>>, <<0, 1, 1>>}
==========================================================================
