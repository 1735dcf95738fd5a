-------------------------- MODULE MCDemoLifecycles --------------------------
(***************************************************************************)
(* DemoLifecycles on cards of both kinds, with the factory keyset at the   *)
(* simulator's version, at 255 or at a demo version.                       *)
(***************************************************************************)
EXTENDS DemoLifecycles

CONSTANTS isd, ssd, app, pkg, own, ks1, ks2

FactoryCards ==
  {[life |-> "SECURED", home |-> [x \in Objects |-> Absent],
    keys |-> [d \in Domains |-> [k \in Kvns |-> IF d = Isd /\ k = factory THEN own ELSE NoKey]],
    default |-> factory, virgin |-> TRUE, quirky |-> q] : factory \in {48, 50, 255}, q \in BOOLEAN}
=============================================================================
