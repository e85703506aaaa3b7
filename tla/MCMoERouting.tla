----------------------------- MODULE MCMoERouting -----------------------------
(***************************************************************************)
(* The routers TLC tries: a softmax router, which has no bias, and a       *)
(* sigmoid one whose bias overrules the scores.                            *)
(***************************************************************************)
EXTENDS MoERouting

SomeBiases == {[e \in Experts |-> 0], [e \in Experts |-> IF e = NumExperts THEN 1 ELSE 0]}
=============================================================================
