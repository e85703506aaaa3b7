----------------------------- MODULE MCLifecycle -----------------------------
(***************************************************************************)
(* The checkpoints TLC tries: one or two of each kind of configuration,    *)
(* complete, with one tensor missing, quantized, in both forms, misshapen  *)
(* or of another type.                                                     *)
(***************************************************************************)
EXTENDS LifecycleClaims, SequencesExt

NoRope == [form |-> "none", full |-> NoEntry, slide |-> NoEntry]
ScaledRope == [form |-> "keyed", full |-> [given |-> TRUE, theta |-> TRUE, scaled |-> TRUE],
               slide |-> NoEntry]

Llama ==
  [gemma |-> FALSE, layers |-> 1, heads |-> 2, kvHeads |-> 0, window |-> 0, pattern |-> 0,
   types |-> <<>>, experts |-> 0, perTok |-> 0, sigmoid |-> FALSE, tanh |-> TRUE,
   scaling |-> FALSE, rope |-> NoRope]
MoE == [Llama EXCEPT !.experts = 2, !.perTok = 1, !.kvHeads = 1]
SigmoidMoE == [MoE EXCEPT !.sigmoid = TRUE]
Gemma == [Llama EXCEPT !.gemma = TRUE, !.layers = 2, !.window = 4]
GemmaTypes == [Gemma EXCEPT !.types = <<"full", "sliding">>]
GemmaPattern == [Gemma EXCEPT !.pattern = 2]
GemmaBoth == [GemmaTypes EXCEPT !.pattern = 2]

Refused ==
  {[Llama EXCEPT !.kvHeads = 3], [MoE EXCEPT !.perTok = 3],
   [Llama EXCEPT !.types = <<"full", "full">>], Gemma, [GemmaTypes EXCEPT !.layers = 1],
   [Llama EXCEPT !.rope = ScaledRope]}

Accepted == {Llama, MoE, SigmoidMoE, GemmaTypes, GemmaPattern, GemmaBoth}
Odd == {[Gemma EXCEPT !.layers = 1, !.types = <<"full">>, !.experts = 1, !.perTok = 1],
        [Llama EXCEPT !.window = 4, !.pattern = 2],
        [Llama EXCEPT !.scaling = TRUE]}

\* The names of the weights, in one order.
NameOrder ==
  LET needed(c) == {n.name : n \in FinalizeNeeds(BackendConfig(Loaded(c)))}
  IN  FoldSet(LAMBDA n, s : Append(s, n), <<>>, UNION {needed(c) : c \in Accepted \cup Odd})

\* The tensors of a checkpoint that has what finalize asks for; dropped and
\* extra name parts, quantized parts are there as W4, twice those in both forms.
TensorsFor(c, dropped, quantized, twice, misshapen) ==
  LET needs == {n.name : n \in FinalizeNeeds(BackendConfig(Loaded(c)))}
      forms(n) == IF n[2] \in twice THEN {"w4", "f32"}
                  ELSE IF n[2] \in quantized THEN {"w4"} ELSE {"f32"}
  IN  UNION {{[name |-> n, form |-> form, fits |-> n[2] \notin misshapen] : form \in forms(n)}
             : n \in {m \in needs : m[2] \notin dropped}}

\* Of a name in both forms, the dense one has another shape than the quantized.
DenseMisshapen(tensors) ==
  LET two(t) == [t EXCEPT !.form = "w4"] \in tensors
  IN  {IF t.form = "f32" /\ two(t) THEN [t EXCEPT !.fits = ~ t.fits] ELSE t : t \in tensors}

Whole(c) == [config |-> c, tensors |-> TensorsFor(c, {}, {}, {}, {})]
Without(c, p) == [config |-> c, tensors |-> TensorsFor(c, {p}, {}, {}, {})]

SomeCheckpoints ==
  {Whole(c) : c \in Accepted \cup Refused}
    \cup {Without(Llama, p) : p \in {"norm", "q_proj", "down_proj"}}
    \cup {Without(SigmoidMoE, p) : p \in {"gate", "bias", "w2"}}
    \cup {Without(GemmaTypes, p) : p \in {"k_norm", "up_proj"}}
    \cup {[config |-> Llama, tensors |-> TensorsFor(Llama, {}, {"q_proj", "up_proj"}, {}, {})],
          [config |-> Llama, tensors |-> TensorsFor(Llama, {}, {"lm_head"}, {}, {})],
          [config |-> Llama, tensors |-> TensorsFor(Llama, {}, {}, {"q_proj"}, {})],
          [config |-> Llama, tensors |-> DenseMisshapen(TensorsFor(Llama, {}, {}, {"q_proj"}, {}))],
          [config |-> Llama, tensors |-> DenseMisshapen(TensorsFor(Llama, {}, {}, {"q_proj"}, {"q_proj"}))],
          [config |-> Llama, tensors |-> TensorsFor(Llama, {}, {"v_proj"}, {}, {"v_proj"})],
          [config |-> MoE, tensors |-> TensorsFor(MoE, {}, {"w1", "w2", "w3"}, {}, {})]}

AllCheckpoints == SomeCheckpoints \cup {Whole(c) : c \in Odd}
=============================================================================
