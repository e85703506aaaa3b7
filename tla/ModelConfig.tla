----------------------------- MODULE ModelConfig -----------------------------
(***************************************************************************)
(* models/config.go and the checks of backend/model.cu: how a checkpoint's *)
(* config.json becomes the backend's configuration, which weights the      *)
(* backend asks for, and which it uses.                                    *)
(*                                                                         *)
(* A config.json is a record: gemma (its model_type), layers, heads, kv    *)
(* heads, window, pattern, types (layer_types, "sliding" or "full" for     *)
(* each entry, empty when absent), experts, perTok, sigmoid, tanh (its     *)
(* activation is the one gemma3 is implemented with, or not given),        *)
(* scaling (rope_scaling is set), and rope (rope_parameters): its form and *)
(* the entries of the full and the sliding layers.                         *)
(***************************************************************************)
EXTENDS Integers, Sequences

RopeEntry == [given : BOOLEAN, theta : BOOLEAN, scaled : BOOLEAN]

HFConfig ==
  [gemma : BOOLEAN, layers : Int, heads : Int, kvHeads : Int, window : Int, pattern : Int,
   types : Seq(STRING), experts : Int, perTok : Int, sigmoid : BOOLEAN, tanh : BOOLEAN,
   scaling : BOOLEAN,
   rope : [form : {"none", "keyed", "flat"}, full : RopeEntry, slide : RopeEntry]]

\* One entry of rope_parameters: is theta given, and is its type a scaled one.
NoEntry == [given |-> FALSE, theta |-> FALSE, scaled |-> FALSE]

\* applyRopeParameters.  An entry is looked at only if it has a theta.
RopeOk(rope) ==
  LET plain(e) == e.given /\ e.theta => ~ e.scaled
  IN  \/ rope.form = "none"
      \/ rope.form = "keyed" /\ plain(rope.full) /\ plain(rope.slide)
      \/ rope.form = "flat" /\ rope.full.theta /\ ~ rope.full.scaled

\* LoadConfig: the HF defaults.
Loaded(c) == [c EXCEPT !.kvHeads = IF @ = 0 THEN c.heads ELSE @]
LoadOk(c) == c.layers > 0 /\ c.heads > 0 /\ RopeOk(c.rope)

ValidateOk(c) ==
  c.gemma =>
    /\ c.tanh
    /\ ~ c.scaling
    /\ c.types = <<>> \/ Len(c.types) = c.layers
    /\ c.window > 0 /\ c.types = <<>> => c.pattern > 0

\* HFConfig.Backend.
BackendConfig(c) ==
  [arch    |-> IF c.gemma THEN "gemma3" ELSE "llama",
   layers  |-> c.layers,
   heads   |-> c.heads,
   kvHeads |-> c.kvHeads,
   experts |-> c.experts,
   topK    |-> c.perTok,
   sigmoid |-> c.experts > 0 /\ c.sigmoid,
   window  |-> IF c.gemma THEN c.window ELSE 0,
   pattern |-> IF ~ c.gemma THEN 0
               ELSE IF c.pattern = 0 /\ c.types # <<>> THEN c.layers + 1
               ELSE c.pattern]

LayerSlidingFlags(c) == [l \in DOMAIN c.types |-> c.types[l] = "sliding"]

\* te_model_create.
MaxExperts == 64
CreateOk(b) ==
  /\ b.experts # 0 => b.experts \in 1 .. MaxExperts /\ b.topK \in 1 .. b.experts
  /\ b.layers > 0 /\ b.heads > 0 /\ b.kvHeads > 0
  /\ b.heads % b.kvHeads = 0
  /\ b.window > 0 => b.pattern > 0

\* layer_is_sliding, for layer l counted from one.
LayerIsSliding(b, flags, l) ==
  /\ b.window > 0
  /\ IF flags # <<>> THEN flags[l] ELSE b.pattern > 0 /\ l % b.pattern # 0

-----------------------------------------------------------------------------
(* The weights.  A name is a layer (0: none), a part, and an expert (0:    *)
(* none); a projection may be there dense or quantized.                    *)

Named(l, parts, kind) == {[name |-> <<l, p, 0>>, kind |-> kind] : p \in parts}

Globals == Named(0, {"embed_tokens", "norm", "lm_head"}, "dense")

LayerNorms == {"input_layernorm", "post_attention_layernorm"}
GemmaNorms == {"pre_feedforward_layernorm", "post_feedforward_layernorm", "q_norm", "k_norm"}

Attention(b, l) ==
  Named(l, LayerNorms, "dense")
    \cup Named(l, IF b.arch = "gemma3" THEN GemmaNorms ELSE {}, "dense")
    \cup Named(l, {"q_proj", "k_proj", "v_proj", "o_proj"}, "proj")

DenseMLP(l) == Named(l, {"gate_proj", "up_proj", "down_proj"}, "proj")

ExpertMLPs(b, l) ==
  {[name |-> <<l, w, e>>, kind |-> "proj"] : w \in {"w1", "w2", "w3"}, e \in 1 .. b.experts}

\* Mutant: the bias of the sigmoid router is forgotten.
RouterWithoutBias(b, l) == Named(l, {"gate"}, "dense")

\* What finalize asks of a layer's router, and what moe_forward reads.
Router(b, l) == Named(l, {"gate"} \cup (IF b.sigmoid THEN {"bias"} ELSE {}), "dense")
RouterRead(b, l) == Named(l, {"gate"} \cup (IF b.sigmoid THEN {"bias"} ELSE {}), "dense")

\* te_model_finalize: what has to be there.
FinalizeNeeds(b) ==
  Globals \cup
  UNION {Attention(b, l)
           \cup (IF b.experts = 0 THEN DenseMLP(l) ELSE Router(b, l) \cup ExpertMLPs(b, l))
           : l \in 1 .. b.layers}

\* te_forward_batch: what is read.  The gemma3 branch knows no experts.
ForwardNeeds(b) ==
  Globals \cup
  UNION {Attention(b, l)
           \cup (IF b.arch = "gemma3" \/ b.experts = 0 THEN DenseMLP(l)
                 ELSE RouterRead(b, l) \cup ExpertMLPs(b, l))
           : l \in 1 .. b.layers}
=============================================================================
