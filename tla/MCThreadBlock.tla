---------------------------- MODULE MCThreadBlock ----------------------------
(***************************************************************************)
(* The launches TLC tries on a block of four threads: lengths below, at    *)
(* and above the number of threads, with and without a window that bites,  *)
(* and groups that the vectorized product must refuse.                     *)
(***************************************************************************)
EXTENDS ThreadBlock

HalvingFour == <<2, 1>>

Attentions ==
  UNION {[kernel : {"attention"}, len : {n}, window : {0, 2, 5}, headDim : {3, 5},
          score : [1 .. n -> {1, 2}]] : n \in 1 .. ScoreCap}

\* What te_model_load_tensor_w4 lets in: even, and whole groups.
W4Shapes == {kg \in {4, 8, 24, 40} \X {2, 4, 8} : kg[1] % kg[2] = 0}
Products ==
  {[kernel |-> "w4", version |-> v, k |-> kg[1], group |-> kg[2]] : v \in {1, 2}, kg \in W4Shapes}

Norms == [kernel : {"norm"}, hidden : {1, 3, 4, 6, 9}, fused : BOOLEAN]

SomeLaunches == Attentions \cup Products \cup Norms
=============================================================================
