------------------------------ MODULE MoERouting ------------------------------
(***************************************************************************)
(* moe_forward of backend/model.cu: one layer's mixture of experts, step   *)
(* after step over the same device buffers.  The router picks TopK experts *)
(* for each token on the device; the host sorts the picks by expert; rows  *)
(* are gathered, each expert's segment goes through its MLP, and a kernel  *)
(* adds the rows back to their tokens with atomics, in any order.          *)
(*                                                                         *)
(* Tokens, experts, rows and slots count from one.  A hidden state is the  *)
(* call and token it belongs to, an expert's output the expert and what it *)
(* was applied to, a sum the bag of its terms, and a weight the pair of a  *)
(* score and the scores it is normalized by.                               *)
(***************************************************************************)
EXTENDS Integers, Sequences, FiniteSets, Bags, Functions

CONSTANTS
  NumExperts, TopK,
  MaxTokens,      \* max_seq: what the buffers are sized for
  Scores,         \* the scores a router may give, as numbers
  Biases,         \* e_score_correction_bias; all zero for a softmax router
  MaxCalls        \* bound: the forwards

Experts == 1 .. NumExperts
MaxRows == MaxTokens * TopK

ASSUME MoEAssumption ==
  /\ NumExperts \in Nat \ {0} /\ TopK \in 1 .. NumExperts
  /\ MaxTokens \in Nat \ {0} /\ MaxCalls \in Nat
  /\ Scores \subseteq Nat /\ Biases \subseteq [Experts -> Int]

VARIABLES
  at,         \* where moe_forward is
  call,       \* the forwards so far
  bias,
  scores,     \* scores[t][e]: the router's scores of this call
  topk,       \* d_topk_idx and d_topk_w: topk[slot], TopK slots a token
  perm,       \* d_perm_tok and d_perm_w: perm[row]
  seg,        \* seg_size[e], on the host
  xg,         \* d_xg[row]
  down,       \* d_moe_down[row]
  expert,     \* the loop over experts, and its offset
  off,
  out,        \* mlp_out[t]
  scattering  \* the rows whose block of scatter_add has still to run

buffers == <<topk, perm, seg, xg, down>>
moeVars == <<at, call, bias, scores, buffers, expert, off, out, scattering>>

NumTokens == Len(scores)
Rows == 1 .. NumTokens * TopK

\* The token of a slot, and which of its picks it is.
TokenOf(s) == ((s - 1) \div TopK) + 1
PickOf(s) == ((s - 1) % TopK) + 1

Nothing == [call |-> 0]

\* Device memory holds whatever it held.
MoEInit ==
  /\ at = "idle" /\ call = 0 /\ bias \in Biases /\ scores = <<>>
  /\ topk = [r \in 1 .. MaxRows |-> Nothing]
  /\ perm = [r \in 1 .. MaxRows |-> Nothing]
  /\ seg = [e \in Experts |-> 0]
  /\ xg = [r \in 1 .. MaxRows |-> Nothing]
  /\ down = [r \in 1 .. MaxRows |-> Nothing]
  /\ expert = 1 /\ off = 0
  /\ out = [t \in 1 .. MaxTokens |-> EmptyBag]
  /\ scattering = {}

Forward ==
  /\ at = "idle"
  /\ call < MaxCalls
  /\ \E n \in 1 .. MaxTokens : scores' \in [1 .. n -> [Experts -> Scores]]
  /\ call' = call + 1
  /\ at' = "route"
  /\ UNCHANGED <<bias, buffers, expert, off, out, scattering>>

-----------------------------------------------------------------------------
(* The router. *)

Metric(row, e) == row[e] + bias[e]

\* Mutant: nothing remembers what was picked.
BestOfAll(row, used) ==
  LET scan[e \in 0 .. NumExperts] ==
        IF e = 0 THEN 0
        ELSE LET b == scan[e - 1]
             IN  IF b = 0 \/ Metric(row, e) > Metric(row, b) THEN e ELSE b
  IN  scan[NumExperts]

\* The scan for the best expert not yet used; 0 while there is none.
Best(row, used) ==
  LET scan[e \in 0 .. NumExperts] ==
        IF e = 0 THEN 0
        ELSE LET b == scan[e - 1]
             IN  IF e \notin used /\ (b = 0 \/ Metric(row, e) > Metric(row, b)) THEN e ELSE b
  IN  scan[NumExperts]

Picks(row) ==
  LET picked[i \in 0 .. TopK] ==
        IF i = 0 THEN <<>>
        ELSE Append(picked[i - 1], Best(row, Range(picked[i - 1])))
  IN  picked[TopK]

\* Selection is by the biased score; the weight is the plain one, over the sum
\* of those picked.
Weight(row, picks, i) ==
  LET term(j) == <<picks[j], row[picks[j]]>>
  IN  [num |-> term(i),
       den |-> [v \in {term(j) : j \in 1 .. TopK} |->
                  Cardinality({j \in 1 .. TopK : term(j) = v})]]

\* route_kernel: one thread per token, each writing its own slots.
Route ==
  /\ at = "route"
  /\ LET slot(s) ==
           LET row == scores[TokenOf(s)]
               picks == Picks(row)
           IN  [expert |-> picks[PickOf(s)], w |-> Weight(row, picks, PickOf(s))]
     IN  topk' = [s \in DOMAIN topk |-> IF s \in Rows THEN slot(s) ELSE topk[s]]
  /\ at' = "permute"
  /\ UNCHANGED <<call, bias, scores, perm, seg, xg, down, expert, off, out, scattering>>

-----------------------------------------------------------------------------
(* The permutation, on the host. *)

\* The loops take the slots expert by expert and, for one expert, in order: so
\* many slots come to a row before s does.
Place(s) ==
  Cardinality({u \in Rows : \/ topk[u].expert < topk[s].expert
                            \/ topk[u].expert = topk[s].expert /\ u < s}) + 1
SlotAt(r) == CHOOSE s \in Rows : Place(s) = r

Permute ==
  /\ at = "permute"
  /\ LET row(s) == [tok |-> TokenOf(s), w |-> topk[s].w]
     IN  perm' = [r \in DOMAIN perm |-> IF r \in Rows THEN row(SlotAt(r)) ELSE perm[r]]
  /\ seg' = [e \in Experts |-> Cardinality({s \in Rows : topk[s].expert = e})]
  /\ at' = "gather"
  /\ UNCHANGED <<call, bias, scores, topk, xg, down, expert, off, out, scattering>>

\* gather_rows_kernel, over the hidden states of this call.
Hidden(t) == [call |-> call, tok |-> t]

Gather ==
  /\ at = "gather"
  /\ xg' = [r \in DOMAIN xg |-> IF r \in Rows THEN Hidden(perm[r].tok) ELSE xg[r]]
  /\ expert' = 1
  /\ off' = 0
  /\ at' = "experts"
  /\ UNCHANGED <<call, bias, scores, topk, perm, seg, down, out, scattering>>

-----------------------------------------------------------------------------
(* The experts and the sum. *)

\* The next expert's segment through w1, w3, silu and w2.
ExpertMLP ==
  /\ at = "experts"
  /\ expert <= NumExperts
  /\ down' = [r \in DOMAIN down |->
                IF r \in off + 1 .. off + seg[expert]
                THEN [call |-> call, expert |-> expert, of |-> xg[r]]
                ELSE down[r]]
  /\ off' = off + seg[expert]
  /\ expert' = expert + 1
  /\ UNCHANGED <<at, call, bias, scores, topk, perm, seg, xg, out, scattering>>

\* Mutant: the sums of the last call are added to.
ClearedNot == out

\* cudaMemset of the rows of this call.
Cleared == [t \in DOMAIN out |-> IF t \in 1 .. NumTokens THEN EmptyBag ELSE out[t]]

Clear ==
  /\ at = "experts"
  /\ expert > NumExperts
  /\ out' = Cleared
  /\ scattering' = Rows
  /\ at' = "scatter"
  /\ UNCHANGED <<call, bias, scores, buffers, expert, off>>

\* One block of scatter_add_kernel; the blocks come in any order.
Scatter(r) ==
  /\ at = "scatter"
  /\ r \in scattering
  /\ out' = [out EXCEPT ![perm[r].tok] = @ (+) SetToBag({[w |-> perm[r].w, row |-> down[r]]})]
  /\ scattering' = scattering \ {r}
  /\ UNCHANGED <<at, call, bias, scores, buffers, expert, off>>

\* moe_forward returns; what follows reads mlp_out.
Return ==
  /\ at = "scatter"
  /\ scattering = {}
  /\ at' = "idle"
  /\ UNCHANGED <<call, bias, scores, buffers, expert, off, out, scattering>>

MoEDone == at = "idle" /\ call = MaxCalls /\ UNCHANGED moeVars

MoENext ==
  \/ Forward \/ Route \/ Permute \/ Gather \/ ExpertMLP \/ Clear
  \/ \E r \in 1 .. MaxRows : Scatter(r)
  \/ Return
  \/ MoEDone

MoESpec == MoEInit /\ [][MoENext]_moeVars

-----------------------------------------------------------------------------
\* A token's experts: those that fewer than TopK others are ahead of, by
\* metric and, at a tie, by number.
Ahead(row, f, e) ==
  Metric(row, f) > Metric(row, e) \/ (Metric(row, f) = Metric(row, e) /\ f < e)
Chosen(row) == {e \in Experts : Cardinality({f \in Experts : Ahead(row, f, e)}) < TopK}

\* When the loop comes to an expert, the rows from its offset on that it takes
\* for the expert's segment are of the tokens that chose it, and no token is
\* there twice or left out: the permutation loses nobody (moe_forward).
SegmentsRight ==
  at = "experts" /\ expert <= NumExperts =>
    LET segment == off + 1 .. off + seg[expert]
        tokens == {perm[r].tok : r \in segment}
    IN  /\ tokens = {t \in 1 .. NumTokens : expert \in Chosen(scores[t])}
        /\ Cardinality(segment) = Cardinality(tokens)

\* An expert's share in a token: its score over those of the token's experts.
Share(row, e) ==
  [num |-> <<e, row[e]>>, den |-> SetToBag({<<f, row[f]>> : f \in Chosen(row)})]

\* What a token gets: each of its experts applied to its own hidden state of
\* this call, once, with its share.
Mixture(t) ==
  {[w |-> Share(scores[t], e), row |-> [call |-> call, expert |-> e, of |-> Hidden(t)]] :
     e \in Chosen(scores[t])}

\* mlp_out is that mixture for every token, whatever ran before in the same
\* buffers and in whatever order the rows were added (moe_forward,
\* docs/theory/07-mixture-of-experts.md).
OutIsMixture ==
  at = "idle" /\ call > 0 => \A t \in 1 .. NumTokens : out[t] = SetToBag(Mixture(t))
=============================================================================
