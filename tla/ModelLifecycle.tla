---------------------------- MODULE ModelLifecycle ----------------------------
(***************************************************************************)
(* engine.New, uploadWeights and Close over the model of backend/model.cu: *)
(* one model per process, created, given its tensors one by one, and       *)
(* finalized.  Any call may fail; New may be called again.                 *)
(***************************************************************************)
EXTENDS ModelConfig, FiniteSets, Functions

CONSTANTS
  Checkpoints,    \* what New may be pointed at: a config and its tensors
  Bases,          \* the names of the weights, without their suffix, in order
  MaxCalls        \* bound: the calls of New

\* The place of a name in their order.
Rank == [name \in Range(Bases) |-> CHOOSE i \in DOMAIN Bases : Bases[i] = name]

\* A tensor is a name, its form ("w4" for a .qweight with its .scales, "f32",
\* or "other" for what uploadWeights refuses), and whether its shape is the
\* configuration's.
ASSUME LifecycleAssumption ==
  /\ MaxCalls \in Nat
  /\ Bases \in Seq(Range(Bases))
  /\ \A k \in Checkpoints :
       /\ k.config \in HFConfig
       /\ \A t \in k.tensors : t.name \in DOMAIN Rank

VARIABLES
  at,       \* where New is: "out", "config", "create", "sliding", "open",
            \* "upload", and "serving" when it has returned an engine
  ckpt,     \* the checkpoint of this call
  calls,    \* the calls so far
  left,     \* the tensors still to upload
  model,    \* g_model: "none", "open", or "ready" once finalized
  bcfg,     \* its configuration
  flags,    \* its layer_sliding
  dense,    \* the tensors loaded as fp32 and as W4, with the call that
  quant     \* loaded them

engine == <<at, ckpt, calls, left>>
gmodel == <<model, bcfg, flags, dense, quant>>
lcVars == <<engine, gmodel>>

NoConfig == [arch |-> "none"]

LCInit ==
  /\ at = "out" /\ ckpt \in Checkpoints /\ calls = 0 /\ left = {}
  /\ model = "none" /\ bcfg = NoConfig /\ flags = <<>> /\ dense = {} /\ quant = {}

NewCalled ==
  /\ at = "out"
  /\ calls < MaxCalls
  /\ calls' = calls + 1
  /\ ckpt' \in Checkpoints
  /\ at' = "config"
  /\ left' = {}
  /\ UNCHANGED gmodel

Config == Loaded(ckpt.config)

\* LoadConfig, Validate and the loading of the library; a refusal is before
\* anything was created.
ConfigRefused ==
  /\ at = "config"
  /\ at' = "out"
  /\ UNCHANGED <<ckpt, calls, left, gmodel>>

ConfigAccepted ==
  /\ at = "config"
  /\ LoadOk(ckpt.config)
  /\ ValidateOk(Config)
  /\ at' = "create"
  /\ UNCHANGED <<ckpt, calls, left, gmodel>>

Unload == model' = "none" /\ bcfg' = NoConfig /\ flags' = <<>> /\ dense' = {} /\ quant' = {}

\* Handle.Close: nothing under cgo; elsewhere the library is released, and the
\* process-wide model goes if it is unloaded.
Close == UNCHANGED gmodel \/ Unload

\* An error return of New, after ModelCreate or later.
Fail == at' = "out" /\ left' = {} /\ UNCHANGED <<ckpt, calls>> /\ Close

\* Mutant: a model that is already there is built upon.
NoModelUnchecked == model # "ready"

NoModel == model = "none"

Create ==
  /\ at = "create"
  /\ NoModel
  /\ CreateOk(BackendConfig(Config))
  /\ model' = "open"
  /\ bcfg' = BackendConfig(Config)
  /\ at' = "sliding"
  /\ UNCHANGED <<ckpt, calls, left, flags, dense, quant>>

CreateFails ==
  /\ at = "create"
  /\ ~ (NoModel /\ CreateOk(BackendConfig(Config)))
  /\ Fail

\* Mutant: the flags are sent only where the formula has no pattern.
SentFlagsWithoutPattern == IF Config.pattern > 0 THEN <<>> ELSE LayerSlidingFlags(Config)

SentFlags == LayerSlidingFlags(Config)

\* SetLayerSliding, if the checkpoint has layer_types.
SetSliding ==
  /\ at = "sliding"
  /\ SentFlags = <<>> \/ Len(SentFlags) = bcfg.layers
  /\ flags' = IF SentFlags = <<>> THEN flags ELSE SentFlags
  /\ at' = "open"
  /\ UNCHANGED <<ckpt, calls, left, model, bcfg, dense, quant>>

\* The flags have another length.
SetSlidingFails == at = "sliding" /\ Fail

\* loader.OpenModel has read the shards (Loader).
OpenModel ==
  /\ at = "open"
  /\ left' = ckpt.tensors
  /\ at' = "upload"
  /\ UNCHANGED <<ckpt, calls, gmodel>>

OpenFails == at = "open" /\ Fail

Loads(t) == [name |-> t.name, fits |-> t.fits, call |-> calls]
NamesOf(loaded) == {x.name : x \in loaded}

\* Tensors come in the order of their names, and x.qweight is before x.weight.
Comes(t) ==
  /\ t \in left
  /\ \A u \in left :
       /\ Rank[t.name] <= Rank[u.name]
       /\ u.name = t.name /\ u.form = "w4" => t.form = "w4"

\* te_model_load_tensor: a duplicate is one that was loaded dense.
UploadDense ==
  /\ at = "upload"
  /\ \E t \in left :
       /\ Comes(t) /\ t.form = "f32"
       /\ t.name \notin NamesOf(dense)
       /\ dense' = dense \cup {Loads(t)}
       /\ left' = left \ {t}
  /\ UNCHANGED <<at, ckpt, calls, model, bcfg, flags, quant>>

\* te_model_load_tensor_w4: a duplicate is one loaded in either form.
UploadW4 ==
  /\ at = "upload"
  /\ \E t \in left :
       /\ Comes(t) /\ t.form = "w4"
       /\ t.name \notin NamesOf(dense) \cup NamesOf(quant)
       /\ quant' = quant \cup {Loads(t)}
       /\ left' = left \ {t}
  /\ UNCHANGED <<at, ckpt, calls, model, bcfg, flags, dense>>

\* A tensor uploadWeights or the backend refuses, or a failed copy.
UploadFails == at = "upload" /\ left # {} /\ Fail

\* require: there, dense, in its shape.
Require(n) == \E x \in dense : x.name = n.name /\ x.fits

\* require_proj: a quantized form is looked at, and else the dense one.
RequireProj(n) ==
  IF n.name \in NamesOf(quant)
  THEN \E x \in quant : x.name = n.name /\ x.fits
  ELSE Require(n)

\* What finalize makes of a weight.
Has(n) == IF n.kind = "proj" THEN RequireProj(n) ELSE Require(n)

\* Mutant: the product takes the dense form where there is one.
MmDenseFirst(n) ==
  IF n.name \in NamesOf(dense)
  THEN \E x \in dense : x.name = n.name /\ x.fits
  ELSE \E x \in quant : x.name = n.name /\ x.fits

\* mm, the product of the forward: which form it takes, and in its shape.
Mm(n) ==
  \/ \E x \in quant : x.name = n.name /\ x.fits
  \/ n.name \notin NamesOf(quant) /\ Require(n)

\* What the forward makes of a weight.
Finds(n) == IF n.kind = "proj" THEN Mm(n) ELSE Require(n)

\* te_model_finalize, when every allocation succeeds: New returns.
Finalize ==
  /\ at = "upload"
  /\ left = {}
  /\ \A n \in FinalizeNeeds(bcfg) : Has(n)
  /\ model' = "ready"
  /\ at' = "serving"
  /\ UNCHANGED <<ckpt, calls, left, bcfg, flags, dense, quant>>

\* A weight is missing or misshapen, or the device has no memory left.
FinalizeFails == at = "upload" /\ left = {} /\ Fail

\* Engine.Close.
EngineClose == at = "serving" /\ Fail

\* The last call of New has returned.
LCDone == at = "out" /\ calls = MaxCalls /\ UNCHANGED lcVars

LCNext ==
  \/ NewCalled \/ ConfigRefused \/ ConfigAccepted
  \/ Create \/ CreateFails
  \/ SetSliding \/ SetSlidingFails
  \/ OpenModel \/ OpenFails
  \/ UploadDense \/ UploadW4 \/ UploadFails
  \/ Finalize \/ FinalizeFails
  \/ EngineClose
  \/ LCDone

LCSpec == LCInit /\ [][LCNext]_lcVars

-----------------------------------------------------------------------------
\* The states of New and of the model, and how they go together: New uploads
\* into an open model only, and where there is no model there is nothing of one.
LCTypeOK ==
  /\ at \in {"out", "config", "create", "sliding", "open", "upload", "serving"}
  /\ ckpt \in Checkpoints
  /\ calls \in 0 .. MaxCalls
  /\ model \in {"none", "open", "ready"}
  /\ at \in {"sliding", "open", "upload"} => model = "open"
  /\ at = "serving" => model = "ready"
  /\ model = "none" => bcfg = NoConfig /\ flags = <<>> /\ dense = {} /\ quant = {}

\* An engine is built from one checkpoint only: its configuration, its flags
\* and each of its weights were sent by the call of New that returned it, and
\* none of the checkpoint's tensors was left out, whatever calls failed before
\* (engine.New, te_model_create).
ServesItsOwn ==
  at = "serving" =>
    /\ model = "ready"
    /\ bcfg = BackendConfig(Config)
    /\ flags = LayerSlidingFlags(Config)
    /\ \A x \in dense \cup quant : x.call = calls
    /\ \A t \in ckpt.tensors : t.name \in NamesOf(dense) \cup NamesOf(quant)

\* What the code is written for: gemma3 has no experts.
Supported(b) == ~ (b.arch = "gemma3" /\ b.experts # 0)

\* A forward of an engine finds every weight it reads, in the form it takes of
\* one that came in two, so it cannot fail half way through the layers with the KV
\* of the step already written (te_model_finalize and te_forward_batch list the
\* weights separately, and look them up in require_proj and in mm).
ForwardFindsWeights ==
  model = "ready" /\ Supported(bcfg) => \A n \in ForwardNeeds(bcfg) : Finds(n)

\* Which layers the checkpoint says are sliding.
MeansSliding(c, l) ==
  /\ c.window > 0
  /\ IF c.types # <<>> THEN c.types[l] = "sliding" ELSE c.pattern > 0 /\ l % c.pattern # 0

\* Each gemma3 layer attends as the checkpoint says, layer_types before the
\* pattern (docs/JOURNAL.md), with the placeholder pattern never in effect.
SlidingAsConfigured ==
  at = "serving" /\ Config.gemma =>
    \A l \in 1 .. Config.layers : LayerIsSliding(bcfg, flags, l) <=> MeansSliding(Config, l)
=============================================================================
