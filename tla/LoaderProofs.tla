----------------------------- MODULE LoaderProofs -----------------------------
(***************************************************************************)
(* Proofs about engine.New, for every set of checkpoints and any number of *)
(* calls: first over the backend's model (ModelLifecycle), then about the  *)
(* handles it holds (Loader).                                              *)
(***************************************************************************)
EXTENDS Loader, WellFoundedInduction, TLAPS

-----------------------------------------------------------------------------
(* The model and its weights.                                              *)

\* What finalize asks for covers what a forward reads, for every configuration
\* the code is written for.
LEMMA FinalizeCoversForward ==
  ASSUME NEW b, Supported(b)
  PROVE  ForwardNeeds(b) \subseteq FinalizeNeeds(b)
<1>1. \A l : Router(b, l) = RouterRead(b, l)
  BY DEF Router, RouterRead
<1>2. CASE b.experts = 0
  BY <1>2 DEF ForwardNeeds, FinalizeNeeds
<1>3. CASE b.experts # 0
  <2>1. b.arch # "gemma3"
    BY <1>3 DEF Supported
  <2>2. QED
    BY <1>1, <1>3, <2>1 DEF ForwardNeeds, FinalizeNeeds
<1>4. QED
  BY <1>2, <1>3

\* A ready model has what finalize asked for.
ReadyIsChecked == model = "ready" => \A n \in FinalizeNeeds(bcfg) : Has(n)

\* The product takes the form finalize has looked at.
LEMMA CheckedIsFound ==
  ASSUME NEW n, Has(n)
  PROVE  Finds(n)
<1>1. CASE n.kind = "proj"
  BY <1>1 DEF Has, RequireProj, Finds, Mm
<1>2. CASE n.kind # "proj"
  BY <1>2 DEF Has, Finds
<1>3. QED
  BY <1>1, <1>2

\* What this call of New has done so far.
OwnSoFar ==
  /\ at \in {"sliding", "open", "upload", "serving"} => bcfg = BackendConfig(Config)
  /\ at \in {"sliding", "open"} => dense = {} /\ quant = {}
  /\ at \in {"upload", "serving"} => \A x \in dense \cup quant : x.call = calls

\* Each tensor of the checkpoint is loaded or still to come.
NoneLeftOut ==
  at \in {"upload", "serving"} =>
    \A t \in ckpt.tensors : t \in left \/ t.name \in NamesOf(dense) \cup NamesOf(quant)

ServedIsUploaded == at = "serving" => left = {}

LCInv == LCTypeOK /\ ReadyIsChecked /\ OwnSoFar /\ NoneLeftOut /\ ServedIsUploaded

LEMMA LCInitInv == LCInit => LCInv
BY LifecycleAssumption DEF LCInit, LCInv, LCTypeOK, ReadyIsChecked, OwnSoFar, NoneLeftOut, ServedIsUploaded,
       LifecycleAssumption

\* Any error return, whatever Close does to the model.
LEMMA FailKeepsInv ==
  ASSUME LCInv, Fail
  PROVE  LCInv'
<1>. USE DEF LCInv, Fail
<1>1. LCTypeOK' /\ ReadyIsChecked'
  <2>1. CASE UNCHANGED gmodel
    BY <2>1 DEF gmodel, LCTypeOK, ReadyIsChecked, Has, Require, RequireProj, NamesOf
  <2>2. CASE Unload
    BY <2>2 DEF Unload, LCTypeOK, ReadyIsChecked
  <2>3. QED
    BY <2>1, <2>2 DEF Close
<1>2. (OwnSoFar /\ NoneLeftOut /\ ServedIsUploaded)'
  BY DEF OwnSoFar, NoneLeftOut, ServedIsUploaded
<1>3. QED
  BY <1>1, <1>2

\* A step that leaves the model alone and is not yet, or no longer, uploading.
LEMMA OutsideKeepsInv ==
  ASSUME LCInv, UNCHANGED gmodel, LCTypeOK', at' \in {"out", "config", "create"}
  PROVE  LCInv'
<1>1. ReadyIsChecked'
  BY DEF LCInv, gmodel, ReadyIsChecked, Has, Require, RequireProj, NamesOf
<1>2. (OwnSoFar /\ NoneLeftOut /\ ServedIsUploaded)'
  BY DEF OwnSoFar, NoneLeftOut, ServedIsUploaded
<1>3. QED
  BY <1>1, <1>2 DEF LCInv

\* One tensor is taken off the list and loaded.
LEMMA UploadKeepsInv ==
  ASSUME LCInv, at = "upload", NEW t \in left, left' = left \ {t},
         UNCHANGED <<at, ckpt, calls, model, bcfg, flags>>,
         \/ dense' = dense \cup {Loads(t)} /\ quant' = quant
         \/ quant' = quant \cup {Loads(t)} /\ dense' = dense
  PROVE  LCInv'
<1>1. model = "open"
  BY DEF LCInv, LCTypeOK
<1>2. LCTypeOK' /\ ReadyIsChecked' /\ ServedIsUploaded'
  BY <1>1 DEF LCInv, LCTypeOK, ReadyIsChecked, ServedIsUploaded
<1>3. OwnSoFar'
  BY DEF LCInv, OwnSoFar, Loads, Config
<1>4. t.name \in NamesOf(dense') \cup NamesOf(quant')
  BY DEF NamesOf, Loads
<1>5. NamesOf(dense) \cup NamesOf(quant) \subseteq NamesOf(dense') \cup NamesOf(quant')
  BY DEF NamesOf
<1>6. NoneLeftOut'
  BY <1>4, <1>5 DEF LCInv, NoneLeftOut, NamesOf
<1>7. QED
  BY <1>2, <1>3, <1>6 DEF LCInv

LEMMA LCNextInv ==
  ASSUME LCInv, [LCNext]_lcVars
  PROVE  LCInv'
<1>. USE DEF engine, gmodel, lcVars
<1>1. CASE NewCalled
  <2>1. LCTypeOK'
    BY <1>1, LifecycleAssumption DEF NewCalled, LCInv, LCTypeOK, LifecycleAssumption
  <2>2. QED
    BY <1>1, <2>1, OutsideKeepsInv DEF NewCalled
<1>2. CASE ConfigRefused \/ ConfigAccepted
  <2>1. LCTypeOK'
    BY <1>2 DEF ConfigRefused, ConfigAccepted, LCInv, LCTypeOK
  <2>2. QED
    BY <1>2, <2>1, OutsideKeepsInv DEF ConfigRefused, ConfigAccepted
<1>3. CASE Create
  <2>1. LCTypeOK' /\ ReadyIsChecked' /\ ServedIsUploaded'
    BY <1>3 DEF Create, NoModel, LCInv, LCTypeOK, ReadyIsChecked, ServedIsUploaded
  <2>2. OwnSoFar' /\ NoneLeftOut'
    BY <1>3 DEF Create, NoModel, LCInv, LCTypeOK, OwnSoFar, NoneLeftOut, Config
  <2>3. QED
    BY <2>1, <2>2 DEF LCInv
<1>4. CASE SetSliding
  <2>1. LCTypeOK' /\ ReadyIsChecked' /\ ServedIsUploaded'
    BY <1>4 DEF SetSliding, LCInv, LCTypeOK, ReadyIsChecked, ServedIsUploaded
  <2>2. OwnSoFar' /\ NoneLeftOut'
    BY <1>4 DEF SetSliding, LCInv, OwnSoFar, NoneLeftOut, Config
  <2>3. QED
    BY <2>1, <2>2 DEF LCInv
<1>5. CASE OpenModel
  <2>1. LCTypeOK' /\ ReadyIsChecked' /\ ServedIsUploaded'
    BY <1>5 DEF OpenModel, LCInv, LCTypeOK, ReadyIsChecked, ServedIsUploaded
  <2>2. OwnSoFar'
    BY <1>5 DEF OpenModel, LCInv, OwnSoFar, Config
  <2>3. NoneLeftOut'
    BY <1>5 DEF OpenModel, NoneLeftOut
  <2>4. QED
    BY <2>1, <2>2, <2>3 DEF LCInv
<1>6. CASE UploadDense \/ UploadW4
  BY <1>6, UploadKeepsInv DEF UploadDense, UploadW4
<1>7. CASE Finalize
  <2>1. LCTypeOK' /\ ServedIsUploaded'
    BY <1>7 DEF Finalize, LCInv, LCTypeOK, ServedIsUploaded
  <2>2. ReadyIsChecked'
    BY <1>7 DEF Finalize, ReadyIsChecked, Has, Require, RequireProj, NamesOf
  <2>3. OwnSoFar' /\ NoneLeftOut'
    BY <1>7 DEF Finalize, LCInv, OwnSoFar, NoneLeftOut, NamesOf, Config
  <2>4. QED
    BY <2>1, <2>2, <2>3 DEF LCInv
<1>8. CASE CreateFails \/ SetSlidingFails \/ OpenFails \/ UploadFails \/ FinalizeFails \/ EngineClose
  BY <1>8, FailKeepsInv DEF CreateFails, SetSlidingFails, OpenFails, UploadFails, FinalizeFails, EngineClose
<1>9. CASE UNCHANGED lcVars
  BY <1>9 DEF LCInv, LCTypeOK, ReadyIsChecked, OwnSoFar, NoneLeftOut, ServedIsUploaded,
              Has, Require, RequireProj, NamesOf, Config
<1>10. QED
  BY <1>1, <1>2, <1>3, <1>4, <1>5, <1>6, <1>7, <1>8, <1>9 DEF LCNext, LCDone

LEMMA LCInductive == LCSpec => []LCInv
<1>1. LCInit => LCInv
  BY LCInitInv
<1>2. LCInv /\ [LCNext]_lcVars => LCInv'
  BY LCNextInv
<1>3. QED
  BY <1>1, <1>2, PTL DEF LCSpec

\* New only ever builds on a model it created itself, and a model that is not
\* there has nothing.
THEOREM LifecycleTypeCorrect == LCSpec => []LCTypeOK
<1>1. LCInv => LCTypeOK
  BY DEF LCInv
<1>2. QED
  BY LCInductive, <1>1, PTL

\* A forward of a ready model finds every weight it reads, in the right shape
\* and in whichever form it came, for every configuration but gemma3 with
\* experts.
THEOREM ForwardComplete == LCSpec => []ForwardFindsWeights
<1>1. \A n : Has(n) => Finds(n)
  BY CheckedIsFound
<1>2. LCInv => ForwardFindsWeights
  BY <1>1, FinalizeCoversForward DEF LCInv, ReadyIsChecked, ForwardFindsWeights
<1>3. QED
  BY LCInductive, <1>2, PTL

-----------------------------------------------------------------------------
\* The flags in effect are those of the checkpoint, and its configuration is
\* one that Validate accepts.
FlagsInv ==
  /\ at \in {"create", "sliding", "open", "upload", "serving"} => ValidateOk(Config)
  /\ at = "sliding" => flags = <<>>
  /\ at \in {"open", "upload", "serving"} => flags = SentFlags

LEMMA FlagsNext ==
  ASSUME LCInv, FlagsInv, [LCNext]_lcVars
  PROVE  FlagsInv'
<1>. USE DEF engine, gmodel, lcVars, Config, SentFlags
<1>1. CASE NewCalled \/ ConfigRefused
  BY <1>1 DEF NewCalled, ConfigRefused, FlagsInv
<1>2. CASE ConfigAccepted
  BY <1>2 DEF ConfigAccepted, FlagsInv
<1>3. CASE Create
  BY <1>3 DEF Create, NoModel, LCInv, LCTypeOK, FlagsInv
<1>4. CASE SetSliding
  BY <1>4 DEF SetSliding, FlagsInv
<1>5. CASE OpenModel \/ UploadDense \/ UploadW4 \/ Finalize
  BY <1>5 DEF OpenModel, UploadDense, UploadW4, Finalize, FlagsInv
<1>6. CASE CreateFails \/ SetSlidingFails \/ OpenFails \/ UploadFails \/ FinalizeFails \/ EngineClose
  BY <1>6 DEF CreateFails, SetSlidingFails, OpenFails, UploadFails, FinalizeFails, EngineClose,
              Fail, FlagsInv
<1>7. CASE UNCHANGED lcVars
  BY <1>7 DEF FlagsInv
<1>8. QED
  BY <1>1, <1>2, <1>3, <1>4, <1>5, <1>6, <1>7 DEF LCNext, LCDone

LEMMA FlagsInductive == LCSpec => []FlagsInv
<1>1. LCInit => FlagsInv
  BY DEF LCInit, FlagsInv
<1>2. LCInv /\ FlagsInv /\ [LCNext]_lcVars => FlagsInv'
  BY FlagsNext
<1>3. QED
  BY <1>1, <1>2, LCInductive, PTL DEF LCSpec

\* An engine has the configuration, the flags and all the tensors of its own
\* checkpoint, and none that an earlier, failed call of New sent.
THEOREM EngineIsOwn == LCSpec => []ServesItsOwn
<1>1. ASSUME LCInv, FlagsInv PROVE ServesItsOwn
  BY <1>1 DEF LCInv, LCTypeOK, OwnSoFar, NoneLeftOut, ServedIsUploaded, ServesItsOwn, FlagsInv, SentFlags
<1>2. QED
  BY LCInductive, FlagsInductive, <1>1, PTL

\* What the backend does with the flags, or without any, is what the
\* configuration means.
LEMMA FlagsMean ==
  ASSUME NEW c \in HFConfig, c.gemma, ValidateOk(c), NEW l \in 1 .. c.layers
  PROVE  LayerIsSliding(BackendConfig(c), LayerSlidingFlags(c), l) <=> MeansSliding(c, l)
<1>. DEFINE b == BackendConfig(c)
            f == LayerSlidingFlags(c)
<1>1. b.window = c.window /\ (c.types = <<>> => b.pattern = c.pattern)
  BY DEF BackendConfig
<1>2. c.types \in Seq(STRING) /\ c.window \in Int /\ c.pattern \in Int
  BY DEF HFConfig
<1>3. DOMAIN f = DOMAIN c.types /\ \A i \in DOMAIN c.types : f[i] = (c.types[i] = "sliding")
  BY DEF LayerSlidingFlags
<1>4. CASE c.types = <<>>
  <2>1. f = <<>>
    BY <1>3, <1>4 DEF LayerSlidingFlags
  <2>2. QED
    BY <1>1, <1>2, <1>4, <2>1 DEF LayerIsSliding, MeansSliding, ValidateOk
<1>5. CASE c.types # <<>>
  <2>1. Len(c.types) = c.layers
    BY <1>5 DEF ValidateOk
  <2>2. l \in DOMAIN c.types
    BY <1>2, <2>1
  <2>3. f # <<>>
    BY <1>3, <2>2
  <2>4. f[l] = (c.types[l] = "sliding")
    BY <1>3, <2>2
  <2>5. QED
    BY <1>1, <1>5, <2>3, <2>4 DEF LayerIsSliding, MeansSliding
<1>6. QED
  BY <1>4, <1>5

LEMMA LoadedIsConfig ==
  ASSUME NEW k \in HFConfig PROVE Loaded(k) \in HFConfig
<1>1. k.heads \in Int /\ k.kvHeads \in Int
  BY DEF HFConfig
<1>2. ASSUME NEW n \in Int PROVE [k EXCEPT !.kvHeads = n] \in HFConfig
  BY DEF HFConfig
<1>3. QED
  BY <1>1, <1>2 DEF Loaded

\* In an engine each gemma3 layer attends as its checkpoint says, whether by
\* layer_types or by the pattern.
THEOREM LayersAttendAsConfigured == LCSpec => []SlidingAsConfigured
<1>1. ASSUME LCInv, FlagsInv, at = "serving", Config.gemma, NEW l \in 1 .. Config.layers
      PROVE  LayerIsSliding(bcfg, flags, l) <=> MeansSliding(Config, l)
  <2>1. Config \in HFConfig
    BY <1>1, LifecycleAssumption, LoadedIsConfig DEF LCInv, LCTypeOK, LifecycleAssumption, Config
  <2>2. bcfg = BackendConfig(Config) /\ flags = LayerSlidingFlags(Config) /\ ValidateOk(Config)
    BY <1>1 DEF LCInv, OwnSoFar, FlagsInv, SentFlags
  <2>3. QED
    BY <1>1, <2>1, <2>2, FlagsMean
<1>2. LCInv /\ FlagsInv => SlidingAsConfigured
  BY <1>1 DEF SlidingAsConfigured
<1>3. QED
  BY <1>2, LCInductive, FlagsInductive, PTL

-----------------------------------------------------------------------------
(* Numbers.                                                                 *)

LEMMA FitsByDivision ==
  ASSUME NEW m \in Nat, NEW x \in Nat, NEW d \in Nat \ {0}
  PROVE  x > m \div d <=> x * d > m
<1>. DEFINE q == m \div d
            r == m % d
<1>1. q \in Nat /\ r \in 0 .. d - 1 /\ m = d * q + r
  OBVIOUS
<1>. HIDE DEF q, r
<1>2. CASE x > q
  <2>1. (q + 1) * d <= x * d
    BY <1>1, <1>2
  <2>2. (q + 1) * d = d * q + d
    BY <1>1
  <2>3. QED
    BY <1>1, <1>2, <2>1, <2>2 DEF q
<1>3. CASE x <= q
  <2>1. x * d <= q * d
    BY <1>1, <1>3
  <2>2. QED
    BY <1>1, <1>3, <2>1 DEF q
<1>4. QED
  BY <1>1, <1>2, <1>3

LEMMA DivisionExact ==
  ASSUME NEW g \in Nat, NEW s \in Nat \ {0}
  PROVE  (g * s) \div s = g /\ (g * s) % s = 0
OBVIOUS

\* A set of naturals has a least element.
LEMMA LeastOf ==
  ASSUME NEW T \in SUBSET Nat, T # {}
  PROVE  \E x \in T : \A y \in T : x <= y
<1>. DEFINE R == {ss \in Nat \X Nat : ss[1] < ss[2]}
<1>1. IsWellFoundedOn(R, Nat)
  <2>1. IsWellFoundedOn(OpToRel(<, Nat), Nat)
    BY NatLessThanWellFounded
  <2>2. QED
    BY <2>1, Zenon DEF OpToRel
<1>2. PICK x \in T : \A y \in T : ~ (<<y, x>> \in R)
  BY <1>1, WFMin, Zenon
<1>3. ASSUME NEW y \in T PROVE x <= y
  <2>1. ~ (<<y, x>> \in R)
    BY <1>2
  <2>2. x \in Nat /\ y \in Nat /\ ~ (y < x)
    BY <2>1
  <2>3. QED
    BY <2>2
<1>4. QED
  BY <1>3
\* A set with 0 that with a number below n has the next has all up to n.
LEMMA UpTo ==
  ASSUME NEW n \in Nat, NEW S, 0 \in S, \A i \in 1 .. n : i - 1 \in S => i \in S
  PROVE  0 .. n \subseteq S
<1>. DEFINE T == (0 .. n) \ S
<1>1. ASSUME T # {} PROVE FALSE
  <2>. T \in SUBSET Nat
    OBVIOUS
  <2>. HIDE DEF T
  <2>1. PICK x \in T : \A y \in T : x <= y
    BY <1>1, LeastOf
  <2>. USE DEF T
  <2>2. x \in 1 .. n
    OBVIOUS
  <2>3. x - 1 \notin T
    BY <2>1, <2>2
  <2>4. QED
    BY <2>2, <2>3
<1>2. QED
  BY <1>1

\* A function can be defined by its first value and by each from the one before.
LEMMA StepByStep ==
  ASSUME NEW n \in Nat, NEW a \in Int, NEW g \in [1 .. n -> [Int -> Int]]
  PROVE  \E f \in [0 .. n -> Int] : f[0] = a /\ \A i \in 1 .. n : f[i] = g[i][f[i - 1]]
<1>. DEFINE Rule(f, m) == f \in [0 .. m -> Int] /\ f[0] = a /\ \A i \in 1 .. m : f[i] = g[i][f[i - 1]]
            S == {m \in 0 .. n : \E f : Rule(f, m)}
<1>1. 0 \in S
  <2>1. Rule([i \in 0 .. 0 |-> a], 0)
    OBVIOUS
  <2>2. \E f : Rule(f, 0)
    BY <2>1
  <2>3. 0 \in 0 .. n
    OBVIOUS
  <2>4. QED
    BY <2>2, <2>3
<1>2. ASSUME NEW m \in 1 .. n, m - 1 \in S PROVE m \in S
  <2>1. PICK f : Rule(f, m - 1)
    BY <1>2
  <2>. DEFINE h == [i \in 0 .. m |-> IF i = m THEN g[m][f[m - 1]] ELSE f[i]]
  <2>2. Rule(h, m)
    <3>1. m - 1 \in 0 .. m - 1 /\ m \in Nat /\ m > 0
      OBVIOUS
    <3>2. h \in [0 .. m -> Int]
      BY <2>1, <3>1
    <3>3. ASSUME NEW i \in 1 .. m PROVE h[i] = g[i][h[i - 1]]
      <4>1. i - 1 \in 0 .. m - 1 /\ i \in 0 .. m /\ i - 1 \in 0 .. m /\ i - 1 # m
        BY <3>1
      <4>2. h[i - 1] = f[i - 1]
        BY <4>1
      <4>3. CASE i = m
        BY <4>1, <4>2, <4>3
      <4>4. CASE i # m
        <5>1. h[i] = f[i] /\ i \in 1 .. m - 1
          BY <4>1, <4>4
        <5>2. QED
          BY <2>1, <4>2, <5>1
      <4>5. QED
        BY <4>3, <4>4
    <3>4. h[0] = a
      BY <2>1, <3>1
    <3>5. QED
      BY <3>2, <3>3, <3>4
  <2>. HIDE DEF h, Rule
  <2>3. \E x : Rule(x, m)
    BY <2>2
  <2>4. QED
    BY <2>3
<1>3. n \in S
  <2>. HIDE DEF S
  <2>1. 0 .. n \subseteq S
    BY <1>1, <1>2, UpTo
  <2>2. QED
    BY <2>1
<1>4. QED
  BY <1>3

-----------------------------------------------------------------------------
(* The handles.                                                            *)

\* What is open is what m.Files has and the shard being parsed.
InHand == files \cup (IF cur = 0 THEN {} ELSE {cur})

HandleInv ==
  /\ ckpt \in Checkpoints
  /\ fds = InHand
  /\ step = "shards" => at = "open" /\ paths \subseteq Nat \ {0}
  /\ step \in {"exports", "init"} => at = "config"
  /\ step \in {"start", "shards", "exports", "init"}
  /\ step # "shards" => cur = 0
  /\ step # "shards" /\ at # "upload" => files = {}
  /\ at = "out" => lib = 0
  /\ at = "config" => lib = (IF step = "start" THEN 0 ELSE 1)
  /\ at \notin {"out", "config"} => lib = 1

\* Any error return from ModelCreate on.
LEMMA GiveUpClosesAll ==
  ASSUME HandleInv, NEW why, GiveUp(why), at \notin {"out", "config"}, fds' = {}
  PROVE  HandleInv'
<1>1. lib' = 0
  BY DEF HandleInv, GiveUp
<1>2. fds' = InHand'
  BY DEF GiveUp, InHand
<1>3. QED
  BY <1>1, <1>2 DEF HandleInv, GiveUp, Fail

\* The least of some shards is one of them.
LEMMA LeastOfShards ==
  ASSUME NEW S \in SUBSET (Nat \ {0}), S # {}
  PROVE  Min(S) \in S
<1>1. PICK x \in S : \A y \in S : x <= y
  BY LeastOf
<1>2. QED
  BY <1>1 DEF Min

LEMMA HandleInit == LoaderInit => HandleInv
BY DEF LoaderInit, LCInit, HandleInv, InHand

LEMMA HandleNext ==
  ASSUME HandleInv, [LoaderNext]_loaderVars
  PROVE  HandleInv'
<1>. USE DEF shards, loaderVars, lcVars, engine, gmodel
<1>1. CASE Called
  BY <1>1 DEF Called, NewCalled, HandleInv, InHand
<1>2. CASE NewRefused
  BY <1>2 DEF NewRefused, ConfigRefused, HandleInv, InHand
<1>3. CASE LibraryLoaded
  <2>1. fds' = InHand'
    BY <1>3 DEF LibraryLoaded, HandleInv, InHand
  <2>2. lib' = 1
    BY <1>3 DEF LibraryLoaded, HandleInv
  <2>3. QED
    BY <1>3, <2>1, <2>2 DEF LibraryLoaded, HandleInv
<1>4. CASE ExportsFound
  <2>1. fds' = InHand'
    BY <1>4 DEF ExportsFound, HandleInv, InHand
  <2>2. QED
    BY <1>4, <2>1 DEF ExportsFound, HandleInv
<1>5. CASE LibraryUnfit
  <2>1. fds' = InHand'
    BY <1>5 DEF LibraryUnfit, HandleInv, InHand
  <2>2. lib' = 0
    BY <1>5 DEF LibraryUnfit, ConfigRefused, HandleInv
  <2>3. QED
    BY <1>5, <2>1, <2>2 DEF LibraryUnfit, ConfigRefused, HandleInv
<1>6. CASE LibraryReady
  <2>1. fds' = InHand'
    BY <1>6 DEF LibraryReady, HandleInv, InHand
  <2>2. QED
    BY <1>6, <2>1 DEF LibraryReady, ConfigAccepted, HandleInv
<1>7. CASE Created
  <2>1. fds' = InHand'
    BY <1>7 DEF Created, HandleInv, InHand
  <2>2. QED
    BY <1>7, <2>1 DEF Created, Create, SetSliding, HandleInv
<1>8. CASE NotCreated \/ NoShards \/ Closed
  <2>1. step = "start" /\ files = {} /\ cur = 0 /\ at \notin {"out", "config"}
    BY <1>8 DEF NotCreated, NoShards, Closed, CreateFails, SetSlidingFails, EngineClose, HandleInv
  <2>2. fds' = {}
    BY <1>8, <2>1 DEF NotCreated, NoShards, Closed, HandleInv, InHand
  <2>3. GiveUp("else") \/ GiveUp("files") \/ GiveUp("none")
    BY <1>8 DEF NotCreated, NoShards, Closed
  <2>4. QED
    BY <2>1, <2>2, <2>3, GiveUpClosesAll
<1>9. CASE FindShards
  <2>1. fds' = InHand'
    BY <1>9 DEF FindShards, HandleInv, InHand
  <2>2. paths' \subseteq Nat \ {0}
    BY <1>9, LoaderAssumption DEF FindShards, Shards, Dir, HandleInv, LoaderAssumption
  <2>3. QED
    BY <1>9, <2>1, <2>2 DEF FindShards, HandleInv
<1>10. CASE OpenShard
  <2>1. Min(paths) \in paths /\ Min(paths) # 0
    BY <1>10, LeastOfShards DEF OpenShard, HandleInv
  <2>2. fds' = InHand'
    BY <1>10, <2>1 DEF OpenShard, HandleInv, InHand
  <2>3. QED
    BY <1>10, <2>2 DEF OpenShard, HandleInv
<1>11. CASE ShardMissing \/ ParseFails \/ NameTaken
  <2>1. at \notin {"out", "config"}
    BY <1>11 DEF ShardMissing, ParseFails, NameTaken, HandleInv
  <2>2. fds' = {}
    BY <1>11 DEF ShardMissing, ParseFails, NameTaken, ModelClosed, ClosedAfterAppend, HandleInv, InHand
  <2>3. GiveUp("else") \/ GiveUp("files")
    BY <1>11 DEF ShardMissing, ParseFails, NameTaken
  <2>4. QED
    BY <2>1, <2>2, <2>3, GiveUpClosesAll
<1>12. CASE Merge
  <2>1. fds' = InHand'
    BY <1>12 DEF Merge, HandleInv, InHand
  <2>2. step = "shards"
    BY <1>12 DEF Merge, HandleInv
  <2>3. QED
    BY <1>12, <2>1, <2>2 DEF Merge, HandleInv
<1>13. CASE Opened
  <2>1. fds' = InHand'
    BY <1>13 DEF Opened, HandleInv, InHand
  <2>2. at = "open"
    BY <1>13 DEF Opened, HandleInv
  <2>3. QED
    BY <1>13, <2>1, <2>2 DEF Opened, HandleInv
<1>14. CASE Skip \/ Send
  <2>1. fds' = InHand'
    BY <1>14 DEF Skip, Send, HandleInv, InHand
  <2>2. QED
    BY <1>14, <2>1 DEF Skip, Send, HandleInv
<1>15. CASE SendFails \/ NotFinalized
  <2>1. at = "upload" /\ cur = 0
    BY <1>15 DEF SendFails, NotFinalized, FinalizeFails, HandleInv
  <2>2. fds' = {}
    BY <1>15, <2>1 DEF SendFails, NotFinalized, ModelClosed, HandleInv, InHand
  <2>3. GiveUp("else") \/ GiveUp("files")
    BY <1>15 DEF SendFails, NotFinalized
  <2>4. QED
    BY <2>1, <2>2, <2>3, GiveUpClosesAll
<1>16. CASE Finalized
  <2>1. at = "upload" /\ cur = 0
    BY <1>16 DEF Finalized, Finalize, HandleInv
  <2>2. fds' = {}
    BY <1>16, <2>1 DEF Finalized, ModelClosed, HandleInv, InHand
  <2>3. fds' = InHand'
    BY <1>16, <2>1, <2>2 DEF Finalized, InHand
  <2>4. QED
    BY <1>16, <2>1, <2>3 DEF Finalized, Finalize, HandleInv
<1>17. CASE UNCHANGED loaderVars
  BY <1>17 DEF HandleInv, InHand
<1>18. QED
  BY <1>1, <1>2, <1>3, <1>4, <1>5, <1>6, <1>7, <1>8, <1>9, <1>10, <1>11, <1>12, <1>13, <1>14,
     <1>15, <1>16, <1>17 DEF LoaderNext, LoaderDone

\* New closes every shard it opened and releases the library it loaded on each
\* of its returns, and an engine keeps the library until it is closed.
THEOREM HandlesClosed == LoaderSpec => []NothingLeftOpen
<1>1. LoaderInit => HandleInv
  BY HandleInit
<1>2. HandleInv /\ [LoaderNext]_loaderVars => HandleInv'
  BY HandleNext
<1>3. HandleInv => NothingLeftOpen
  BY DEF HandleInv, NothingLeftOpen, InHand
<1>4. QED
  BY <1>1, <1>2, <1>3, PTL DEF LoaderSpec

-----------------------------------------------------------------------------
(* Shapes.                                                                 *)

LEMMA WrapsFit == \A n \in 0 .. MaxInt : Wrap(n) = n
BY LoaderAssumption DEF Wrap, LoaderAssumption

\* The products of the leading dimensions.
LEMMA LeadingNext ==
  ASSUME NEW s \in Seq(Int)
  PROVE  /\ Leading(s) \in [0 .. Len(s) -> Int]
         /\ Leading(s)[0] = 1
         /\ \A i \in 1 .. Len(s) : Leading(s)[i] = Leading(s)[i - 1] * s[i]
<1>. DEFINE R(p) == [i \in 0 .. Len(s) |-> IF i = 0 THEN 1 ELSE p[i - 1] * s[i]]
            g == [i \in 1 .. Len(s) |-> [x \in Int |-> x * s[i]]]
<1>1. Len(s) \in Nat /\ \A i \in 1 .. Len(s) : s[i] \in Int
  OBVIOUS
<1>2. \A i \in 1 .. Len(s) : g[i] = [x \in Int |-> x * s[i]]
  OBVIOUS
<1>. HIDE DEF g
<1>3. ASSUME NEW i \in 1 .. Len(s) PROVE g[i] \in [Int -> Int]
  <2>1. \A x \in Int : x * s[i] \in Int
    BY <1>1
  <2>2. QED
    BY <1>2, <2>1
<1>4. g \in [1 .. Len(s) -> [Int -> Int]]
  BY <1>3 DEF g
<1>5. PICK f \in [0 .. Len(s) -> Int] : f[0] = 1 /\ \A i \in 1 .. Len(s) : f[i] = g[i][f[i - 1]]
  <2>1. 1 \in Int
    OBVIOUS
  <2>2. QED
    BY <1>1, <1>4, <2>1, StepByStep, Zenon
<1>6. ASSUME NEW i \in 1 .. Len(s) PROVE f[i] = f[i - 1] * s[i]
  <2>1. i - 1 \in 0 .. Len(s)
    BY <1>1
  <2>2. f[i - 1] \in Int
    BY <2>1, <1>5
  <2>3. g[i][f[i - 1]] = f[i - 1] * s[i]
    BY <1>2, <2>2
  <2>4. QED
    BY <1>5, <2>3
<1>7. f = R(f)
  BY <1>5, <1>6
<1>8. Leading(s) = CHOOSE p : p = R(p)
  BY DEF Leading
<1>. HIDE DEF R
<1>9. Leading(s) = R(Leading(s))
  BY <1>7, <1>8
<1>. DEFINE p == Leading(s)
<1>10. p = R(p)
  BY <1>9
<1>. HIDE DEF p
<1>11. p = [i \in 0 .. Len(s) |-> IF i = 0 THEN 1 ELSE p[i - 1] * s[i]]
  BY <1>10 DEF R
<1>12. p[0] = 1 /\ \A i \in 1 .. Len(s) : p[i] = p[i - 1] * s[i]
  <2>1. 0 \in 0 .. Len(s) /\ 1 .. Len(s) \subseteq 0 .. Len(s) /\ 0 \notin 1 .. Len(s)
    OBVIOUS
  <2>2. QED
    BY <1>11, <2>1, Zenon
<1>. DEFINE S == {n \in 0 .. Len(s) : p[n] \in Int}
<1>13. 0 .. Len(s) \subseteq S
  <2>1. 0 \in S
    BY <1>12
  <2>2. ASSUME NEW n \in 1 .. Len(s), n - 1 \in S PROVE n \in S
    BY <1>12, <2>2
  <2>. HIDE DEF S
  <2>3. QED
    BY <1>1, <2>1, <2>2, UpTo
<1>14. p \in [0 .. Len(s) -> Int]
  BY <1>11, <1>13
<1>15. QED
  BY <1>12, <1>14 DEF p

NextNumel(x, d) ==
  IF x = Bad \/ d < 0 \/ (d # 0 /\ x > MaxInt \div d) THEN Bad ELSE Wrap(x * d)

LEMMA WrapInt == \A x \in Int : Wrap(x) \in Int
BY LoaderAssumption DEF Wrap, LoaderAssumption

\* The loop that multiplies the dimensions.
LEMMA NumelLoop ==
  ASSUME NEW s \in Seq(Int)
  PROVE  \E f : /\ f[0] = 1
                /\ \A i \in 1 .. Len(s) : f[i] = NextNumel(f[i - 1], s[i])
                /\ Numel(s) = f[Len(s)]
<1>. DEFINE R(p) == [i \in 0 .. Len(s) |-> IF i = 0 THEN 1 ELSE NextNumel(p[i - 1], s[i])]
            g == [i \in 1 .. Len(s) |-> [x \in Int |-> NextNumel(x, s[i])]]
<1>1. \A x, d \in Int : NextNumel(x, d) \in Int
  <2>1. \A x, d \in Int : x * d \in Int
    OBVIOUS
  <2>2. QED
    BY <2>1, WrapInt DEF NextNumel, Bad
<1>2. Len(s) \in Nat /\ \A i \in 1 .. Len(s) : s[i] \in Int
  OBVIOUS
<1>3. \A i \in 1 .. Len(s) : g[i] = [x \in Int |-> NextNumel(x, s[i])]
  OBVIOUS
<1>. HIDE DEF g
<1>4. ASSUME NEW i \in 1 .. Len(s) PROVE g[i] \in [Int -> Int]
  BY <1>1, <1>2, <1>3
<1>5. g \in [1 .. Len(s) -> [Int -> Int]]
  BY <1>4 DEF g
<1>6. PICK f \in [0 .. Len(s) -> Int] : f[0] = 1 /\ \A i \in 1 .. Len(s) : f[i] = g[i][f[i - 1]]
  <2>1. 1 \in Int
    OBVIOUS
  <2>2. QED
    BY <1>2, <1>5, <2>1, StepByStep, Zenon
<1>7. ASSUME NEW i \in 1 .. Len(s) PROVE f[i] = NextNumel(f[i - 1], s[i])
  <2>1. i - 1 \in 0 .. Len(s)
    BY <1>2
  <2>2. f[i - 1] \in Int
    BY <2>1, <1>6
  <2>3. g[i][f[i - 1]] = NextNumel(f[i - 1], s[i])
    BY <1>3, <2>2
  <2>4. QED
    BY <1>6, <2>3
<1>8. f = R(f)
  BY <1>6, <1>7
<1>. DEFINE p == CHOOSE p : p = R(p)
<1>9. Numel(s) = p[Len(s)]
  BY DEF Numel, NextNumel
<1>. HIDE DEF R
<1>10. p = R(p)
  BY <1>8
<1>. HIDE DEF p
<1>11. p = [i \in 0 .. Len(s) |-> IF i = 0 THEN 1 ELSE NextNumel(p[i - 1], s[i])]
  BY <1>10 DEF R
<1>12. 0 \in 0 .. Len(s) /\ 1 .. Len(s) \subseteq 0 .. Len(s) /\ 0 \notin 1 .. Len(s)
  OBVIOUS
<1>13. p[0] = 1 /\ \A i \in 1 .. Len(s) : p[i] = NextNumel(p[i - 1], s[i])
  BY <1>11, <1>12, Zenon
<1>14. QED
  BY <1>9, <1>13

\* The dimensions of a shape up to the i-th are those of elements that fit.
Fits(s, i) == \A j \in 1 .. i : s[j] >= 0 /\ Leading(s)[j] <= MaxInt

\* The loop finds the elements of a shape, or that they do not fit.
LEMMA NumelRight ==
  ASSUME NEW s \in Seq(Int)
  PROVE  IF Fits(s, Len(s)) THEN Numel(s) = Leading(s)[Len(s)] /\ Numel(s) \in 0 .. MaxInt
         ELSE Numel(s) = Bad
<1>. DEFINE p == Leading(s)
<1>1. PICK f : /\ f[0] = 1
               /\ \A i \in 1 .. Len(s) : f[i] = NextNumel(f[i - 1], s[i])
               /\ Numel(s) = f[Len(s)]
  BY NumelLoop
<1>2. /\ p \in [0 .. Len(s) -> Int] /\ p[0] = 1
      /\ \A i \in 1 .. Len(s) : p[i] = p[i - 1] * s[i]
  BY LeadingNext
<1>. HIDE DEF p
<1>. DEFINE S == {i \in 0 .. Len(s) : IF Fits(s, i) THEN f[i] = p[i] /\ p[i] \in 0 .. MaxInt ELSE f[i] = Bad}
<1>3. 0 \in S
  BY <1>1, <1>2, LoaderAssumption DEF Fits, LoaderAssumption
<1>4. ASSUME NEW i \in 1 .. Len(s), i - 1 \in S PROVE i \in S
  <2>1. i \in 0 .. Len(s) /\ i - 1 \in 0 .. Len(s) /\ s[i] \in Int /\ MaxInt \in Nat
    BY LoaderAssumption DEF LoaderAssumption
  <2>2. f[i] = NextNumel(f[i - 1], s[i]) /\ p[i] = p[i - 1] * s[i] /\ p[i] \in Int
    BY <1>1, <1>2, <2>1
  <2>3. Fits(s, i) <=> Fits(s, i - 1) /\ s[i] >= 0 /\ p[i] <= MaxInt
    BY <2>1 DEF Fits, p
  <2>4. CASE ~ Fits(s, i - 1)
    <3>1. f[i - 1] = Bad
      BY <1>4, <2>4
    <3>2. QED
      BY <2>1, <2>2, <2>3, <2>4, <3>1 DEF NextNumel
  <2>5. CASE Fits(s, i - 1)
    <3>1. f[i - 1] = p[i - 1] /\ p[i - 1] \in 0 .. MaxInt /\ p[i - 1] # Bad
      BY <1>4, <2>5, <2>1 DEF Bad
    <3>2. CASE s[i] < 0
      BY <2>1, <2>2, <2>3, <3>1, <3>2 DEF NextNumel
    <3>3. CASE s[i] = 0
      <4>1. p[i] = 0 /\ f[i] = Wrap(0)
        BY <2>1, <2>2, <3>1, <3>3 DEF NextNumel
      <4>2. f[i] = 0
        BY <4>1, <2>1, WrapsFit
      <4>3. QED
        BY <2>1, <2>3, <2>5, <3>3, <4>1, <4>2
    <3>4. CASE s[i] > 0
      <4>1. p[i - 1] > MaxInt \div s[i] <=> p[i] > MaxInt
        BY <2>1, <2>2, <3>1, <3>4, FitsByDivision
      <4>2. p[i] >= 0
        BY <2>1, <2>2, <3>1, <3>4
      <4>3. f[i] = IF p[i] > MaxInt THEN Bad ELSE Wrap(p[i])
        BY <2>1, <2>2, <3>1, <3>4, <4>1 DEF NextNumel
      <4>4. p[i] <= MaxInt => Wrap(p[i]) = p[i]
        BY <2>1, <2>2, <4>2, WrapsFit
      <4>5. QED
        BY <2>1, <2>2, <2>3, <2>5, <3>4, <4>2, <4>3, <4>4
    <3>5. QED
      BY <2>1, <3>2, <3>3, <3>4
  <2>6. QED
    BY <2>4, <2>5
<1>5. Len(s) \in S
  <2>1. Len(s) \in Nat
    OBVIOUS
  <2>. HIDE DEF S
  <2>2. 0 .. Len(s) \subseteq S
    BY <1>3, <1>4, <2>1, UpTo
  <2>3. QED
    BY <2>1, <2>2
<1>6. QED
  BY <1>1, <1>5 DEF p

\* The entries parse accepts: the machine's product of elements and bytes is the
\* range's length if it is exact, or if it has come round to it.
LEMMA EntryIsAcceptable ==
  ASSUME NEW e \in Entry, NEW size \in 0 .. MaxInt
  PROVE  EntryOk(size, e) <=> Acceptable(size, e)
<1>. DEFINE known == e.dtype \in DOMAIN DtypeSize
            within == 0 <= e.begin /\ e.begin <= e.end /\ e.end <= size
            fit == Fits(e.shape, Len(e.shape))
<1>1. e.shape \in Seq(Int) /\ e.begin \in Int /\ e.end \in Int /\ MaxInt \in Nat
  BY LoaderAssumption DEF Entry, LoaderAssumption
<1>2. DOMAIN e.shape = 1 .. Len(e.shape)
  BY <1>1
<1>3. Numel(e.shape) # Bad <=> fit
  BY <1>1, NumelRight DEF Bad
<1>4. fit => Numel(e.shape) = Leading(e.shape)[Len(e.shape)] /\ Numel(e.shape) \in Nat
  BY <1>1, NumelRight
<1>5. known => DtypeSize[e.dtype] \in Nat
  BY DEF DtypeSize
<1>6. within => Bytes(e) \in 0 .. MaxInt
  BY <1>1 DEF Bytes
<1>7. known /\ fit => ShapeBytes(e) = Numel(e.shape) * DtypeSize[e.dtype] /\ ShapeBytes(e) \in Nat
  BY <1>4, <1>5 DEF ShapeBytes
<1>8. EntryOk(size, e) <=> known /\ fit /\ within /\ Bytes(e) = Wrap(Numel(e.shape) * DtypeSize[e.dtype])
  BY <1>3 DEF EntryOk
<1>9. Acceptable(size, e) <=> known /\ fit /\ within /\ (Exact(e) \/ ComesRound(e))
  BY <1>2 DEF Acceptable, Fits
<1>. HIDE DEF known, within, fit
<1>10. ASSUME known, fit, within PROVE Bytes(e) = Wrap(ShapeBytes(e)) <=> Exact(e) \/ ComesRound(e)
  <2>1. ShapeBytes(e) \in Nat /\ Bytes(e) \in 0 .. MaxInt
    BY <1>6, <1>7, <1>10
  <2>2. CASE ShapeBytes(e) <= MaxInt
    <3>1. Wrap(ShapeBytes(e)) = ShapeBytes(e)
      BY <1>1, <2>1, <2>2, WrapsFit
    <3>2. QED
      BY <1>1, <2>1, <2>2, <3>1 DEF Exact, ComesRound
  <2>3. CASE ShapeBytes(e) > MaxInt
    BY <1>1, <2>1, <2>3 DEF Exact, ComesRound
  <2>4. QED
    BY <1>1, <2>1, <2>2, <2>3
<1>11. QED
  BY <1>7, <1>8, <1>9, <1>10

-----------------------------------------------------------------------------
(* The files.                                                              *)

\* What a directory is known to have.
LEMMA OnDisk ==
  ASSUME ckpt \in Checkpoints, NEW f \in DOMAIN Dir.files
  PROVE  /\ f \in Nat \ {0}
         /\ \A n \in NamesIn(f) :
              /\ n \in (DOMAIN Rank) \X NameSuffixes
              /\ Dir.files[f].tensors[n] \in Entry
              /\ n[2] = "qweight" => 0 \notin Range(Dir.files[f].tensors[n].shape)
         /\ HeaderOk(f) <=> /\ Dir.files[f].header
                            /\ \A n \in NamesIn(f) : Acceptable(Dir.files[f].size, Dir.files[f].tensors[n])
<1>1. /\ f \in Nat \ {0} /\ Dir.files[f].size \in 0 .. MaxInt
      /\ \A n \in NamesIn(f) :
           /\ n \in (DOMAIN Rank) \X NameSuffixes
           /\ Dir.files[f].tensors[n] \in Entry
           /\ n[2] = "qweight" => 0 \notin Range(Dir.files[f].tensors[n].shape)
  BY LoaderAssumption DEF LoaderAssumption, Dir, NamesIn
<1>2. \A n \in NamesIn(f) :
        EntryOk(Dir.files[f].size, Dir.files[f].tensors[n]) <=> Acceptable(Dir.files[f].size, Dir.files[f].tensors[n])
  BY <1>1, EntryIsAcceptable
<1>3. QED
  BY <1>1, <1>2 DEF HeaderOk

\* No name is in two of the shards.
Apart(S) == \A f, g \in S : f # g => NamesIn(f) \cap NamesIn(g) = {}

\* All shards of an openable checkpoint have been opened.
AllOpen == ckpt \in Checkpoints /\ Openable(Dir) /\ files = Shards(Dir)

\* A name has its one entry.
LEMMA TheEntry ==
  ASSUME AllOpen, NEW f \in files, NEW n \in NamesIn(f)
  PROVE  n \in ByName /\ Tensor(n) = Dir.files[f].tensors[n]
<1>1. \A g \in files : n \in NamesIn(g) => g = f
  BY DEF AllOpen, Openable, NamesIn
<1>2. Holder(n) = f
  BY <1>1 DEF Holder
<1>3. QED
  BY <1>2 DEF Tensor, ByName

\* The entries are those of the names.
LEMMA EntriesAre ==
  ASSUME AllOpen
  PROVE  Entries(Dir) = {[name |-> n, is |-> Tensor(n)] : n \in ByName}
<1>1. ASSUME NEW x \in Entries(Dir) PROVE x \in {[name |-> n, is |-> Tensor(n)] : n \in ByName}
  <2>1. PICK f \in files : x \in {[name |-> n, is |-> Dir.files[f].tensors[n]] : n \in NamesIn(f)}
    BY DEF Entries, AllOpen, NamesIn
  <2>2. PICK n \in NamesIn(f) : x = [name |-> n, is |-> Dir.files[f].tensors[n]]
    BY <2>1
  <2>3. QED
    BY <2>2, TheEntry
<1>2. ASSUME NEW n \in ByName PROVE [name |-> n, is |-> Tensor(n)] \in Entries(Dir)
  <2>1. PICK f \in files : n \in NamesIn(f)
    BY DEF ByName
  <2>2. Tensor(n) = Dir.files[f].tensors[n]
    BY <2>1, TheEntry
  <2>3. QED
    BY <2>1, <2>2 DEF Entries, AllOpen, NamesIn
<1>3. QED
  BY <1>1, <1>2

\* What a name and its entry are.
LEMMA EntryIs ==
  ASSUME AllOpen, NEW n \in ByName
  PROVE  /\ n = <<n[1], n[2]>> /\ n[1] \in DOMAIN Rank /\ n[2] \in NameSuffixes
         /\ Tensor(n) \in Entry
         /\ \A i \in DOMAIN Tensor(n).shape : Tensor(n).shape[i] >= 0
         /\ n[2] = "qweight" => \A i \in DOMAIN Tensor(n).shape : Tensor(n).shape[i] # 0
<1>1. PICK f \in files : n \in NamesIn(f)
  BY DEF ByName
<1>2. Tensor(n) = Dir.files[f].tensors[n]
  BY <1>1, TheEntry
<1>3. f \in DOMAIN Dir.files /\ Acceptable(Dir.files[f].size, Dir.files[f].tensors[n])
  BY <1>1 DEF AllOpen, Openable, NamesIn
<1>4. /\ n \in (DOMAIN Rank) \X NameSuffixes /\ Tensor(n) \in Entry
      /\ n[2] = "qweight" => 0 \notin Range(Tensor(n).shape)
  BY <1>1, <1>2, <1>3, OnDisk DEF AllOpen
<1>5. \A i \in DOMAIN Tensor(n).shape : Tensor(n).shape[i] >= 0
  BY <1>2, <1>3 DEF Acceptable
<1>6. n[2] = "qweight" => \A i \in DOMAIN Tensor(n).shape : Tensor(n).shape[i] # 0
  BY <1>4 DEF Range
<1>7. QED
  BY <1>4, <1>5, <1>6

\* The groups of a row of q are of one even size if there are s of them.
LEMMA GroupsEven ==
  ASSUME NEW q \in Nat \ {0}, NEW s \in Nat
  PROVE  (s > 0 /\ (2 * q) % s = 0 /\ ((2 * q) \div s) % 2 = 0)
           <=> \E group \in 1 .. 2 * q : group % 2 = 0 /\ group * s = 2 * q
<1>1. ASSUME s > 0, (2 * q) % s = 0, ((2 * q) \div s) % 2 = 0
      PROVE  \E group \in 1 .. 2 * q : group % 2 = 0 /\ group * s = 2 * q
  <2>. DEFINE g == (2 * q) \div s
  <2>1. g \in Nat /\ 2 * q = s * g
    BY <1>1
  <2>. HIDE DEF g
  <2>2. g # 0
    BY <2>1
  <2>3. g <= s * g
    BY <1>1, <2>1
  <2>4. g \in 1 .. 2 * q /\ g * s = 2 * q
    BY <2>1, <2>2, <2>3
  <2>5. g % 2 = 0
    BY <1>1 DEF g
  <2>6. QED
    BY <2>4, <2>5
<1>2. ASSUME NEW group \in 1 .. 2 * q, group % 2 = 0, group * s = 2 * q
      PROVE  s > 0 /\ (2 * q) % s = 0 /\ ((2 * q) \div s) % 2 = 0
  <2>1. s # 0
    BY <1>2
  <2>2. (group * s) \div s = group /\ (group * s) % s = 0
    BY <2>1, DivisionExact
  <2>3. QED
    BY <1>2, <2>1, <2>2
<1>3. QED
  BY <1>1, <1>2

\* uploadWeights and the backend take the pairs that go together.
LEMMA W4IsPaired ==
  ASSUME AllOpen, NEW n \in ByName, n[2] = "qweight"
  PROVE  W4Ok(n) <=> IsW4(Dir, [name |-> n, is |-> Tensor(n)])
<1>. DEFINE m == <<n[1], "scales">>
            q == Tensor(n)
            s == Tensor(m)
<1>1. IsW4(Dir, [name |-> n, is |-> q]) <=> m \in ByName /\ Paired(q, s)
  <2>. DEFINE entry(k) == [name |-> k, is |-> Tensor(k)]
  <2>1. Entries(Dir) = {entry(k) : k \in ByName}
    BY EntriesAre
  <2>2. IsW4(Dir, entry(n)) <=> \E y \in Entries(Dir) : y.name = m /\ Paired(q, y.is)
    BY DEF IsW4
  <2>3. \A k : entry(k).name = k /\ entry(k).is = Tensor(k)
    OBVIOUS
  <2>. HIDE DEF entry
  <2>4. (\E y \in Entries(Dir) : y.name = m /\ Paired(q, y.is)) <=> m \in ByName /\ Paired(q, s)
    BY <2>1, <2>3
  <2>5. QED
    BY <2>2, <2>4 DEF entry
<1>2. W4Ok(n) <=> /\ q.dtype = "U8" /\ Len(q.shape) = 2
                  /\ m \in ByName /\ s.dtype = "F32" /\ Len(s.shape) = 2
                  /\ s.shape[1] = q.shape[1]
                  /\ s.shape[2] > 0 /\ (2 * q.shape[2]) % s.shape[2] = 0
                  /\ ((2 * q.shape[2]) \div s.shape[2]) % 2 = 0
  BY DEF W4Ok, HasScales
<1>3. ASSUME m \in ByName, Len(q.shape) = 2, Len(s.shape) = 2
      PROVE  q.shape[2] \in Nat \ {0} /\ s.shape[2] \in Nat
  <2>1. q \in Entry /\ s \in Entry
    BY <1>3, EntryIs
  <2>2. q.shape \in Seq(Int) /\ s.shape \in Seq(Int)
    BY <2>1 DEF Entry
  <2>3. 2 \in DOMAIN q.shape /\ 2 \in DOMAIN s.shape
    BY <1>3, <2>2
  <2>4. q.shape[2] \in Int /\ s.shape[2] \in Int
    BY <2>2, <2>3
  <2>5. q.shape[2] >= 0 /\ q.shape[2] # 0 /\ s.shape[2] >= 0
    BY <1>3, <2>3, EntryIs
  <2>6. QED
    BY <2>4, <2>5
<1>4. ASSUME m \in ByName, Len(q.shape) = 2, Len(s.shape) = 2
      PROVE  (/\ s.shape[2] > 0 /\ (2 * q.shape[2]) % s.shape[2] = 0
              /\ ((2 * q.shape[2]) \div s.shape[2]) % 2 = 0)
               <=> \E group \in 1 .. 2 * q.shape[2] : group % 2 = 0 /\ group * s.shape[2] = 2 * q.shape[2]
  BY <1>3, <1>4, GroupsEven
<1>. HIDE DEF q, s, m
<1>5. W4Ok(n) <=> m \in ByName /\ Paired(q, s)
  BY <1>2, <1>4, Zenon DEF Paired
<1>6. QED
  BY <1>1, <1>5 DEF q

LEMMA FormIs ==
  ASSUME AllOpen, NEW n \in ByName
  PROVE  LET x == [name |-> n, is |-> Tensor(n)]
         IN  FormOf(n) = IF IsW4(Dir, x) THEN "w4" ELSE IF IsF32(x) THEN "f32" ELSE "other"
<1>1. n[2] = "weight" => (F32Ok(n) <=> IsF32([name |-> n, is |-> Tensor(n)]))
  BY DEF F32Ok, IsF32
<1>2. QED
  BY <1>1, W4IsPaired DEF FormOf, IsW4, IsF32

\* What uploadWeights is given is what the files hold.
LEMMA FormsAreContents ==
  ASSUME AllOpen
  PROVE  Forms(ByName) = ckpt.tensors
<1>1. ckpt.tensors = Contents(Dir)
  BY ContentsAssumption DEF ContentsAssumption, AllOpen, Dir
<1>2. Contents(Dir) = {[name |-> n[1], form |-> FormOf(n), fits |-> Tensor(n).fits]
                       : n \in {m \in ByName : m[2] # "scales"}}
  <2>1. Entries(Dir) = {[name |-> n, is |-> Tensor(n)] : n \in ByName}
    BY EntriesAre
  <2>2. {y \in Entries(Dir) : y.name[2] # "scales"}
          = {[name |-> n, is |-> Tensor(n)] : n \in {m \in ByName : m[2] # "scales"}}
    BY <2>1
  <2>. DEFINE form(x) == IF IsW4(Dir, x) THEN "w4" ELSE IF IsF32(x) THEN "f32" ELSE "other"
  <2>3. \A n \in ByName : form([name |-> n, is |-> Tensor(n)]) = FormOf(n)
    BY FormIs
  <2>4. Contents(Dir) = {[name |-> x.name[1], form |-> form(x), fits |-> x.is.fits]
                         : x \in {y \in Entries(Dir) : y.name[2] # "scales"}}
    BY DEF Contents
  <2>. DEFINE said(x) == [name |-> x.name[1], form |-> form(x), fits |-> x.is.fits]
             entry(n) == [name |-> n, is |-> Tensor(n)]
             weights == {m \in ByName : m[2] # "scales"}
  <2>5. \A n \in ByName : said(entry(n)) = [name |-> n[1], form |-> FormOf(n), fits |-> Tensor(n).fits]
    <3>. HIDE DEF form
    <3>1. QED
      BY <2>3
  <2>6. Contents(Dir) = {said(x) : x \in {entry(n) : n \in weights}}
    <3>. HIDE DEF form
    <3>1. QED
      BY <2>2, <2>4
  <2>. HIDE DEF said, entry
  <2>7. Contents(Dir) = {said(entry(n)) : n \in weights}
    BY <2>6
  <2>8. QED
    BY <2>5, <2>7
<1>3. QED
  BY <1>1, <1>2 DEF Forms

\* The checkpoint can be loaded if each of its names is of a kind that is sent.
LEMMA LoadableIs ==
  ASSUME AllOpen
  PROVE  Loadable(Dir) <=> \A n \in ByName : n[2] = "scales" \/ FormOf(n) # "other"
<1>1. \A n \in ByName : FormOf(n) # "other"
        <=> LET x == [name |-> n, is |-> Tensor(n)] IN IsW4(Dir, x) \/ IsF32(x)
  BY FormIs
<1>. DEFINE entry(n) == [name |-> n, is |-> Tensor(n)]
            good(x) == x.name[2] = "scales" \/ IsW4(Dir, x) \/ IsF32(x)
<1>2. \A n \in ByName : good(entry(n)) <=> n[2] = "scales" \/ FormOf(n) # "other"
  BY <1>1
<1>3. Loadable(Dir) <=> \A x \in Entries(Dir) : good(x)
  BY DEF Loadable, AllOpen
<1>4. Entries(Dir) = {entry(n) : n \in ByName}
  BY EntriesAre
<1>. HIDE DEF entry, good
<1>5. QED
  BY <1>2, <1>3, <1>4

-----------------------------------------------------------------------------
(* The verdict.                                                            *)

\* While the shards are opened: those in hand, and those still to open, are the
\* shards of the checkpoint, and those merged have good headers and names of their own.
Opening ==
  step = "shards" =>
    /\ Dir.index # "bad" /\ Shards(Dir) # {}
    /\ Shards(Dir) = InHand \cup paths /\ InHand \cap paths = {}
    /\ cur # 0 => cur \in DOMAIN Dir.files /\ cur \notin files
    /\ \A f \in files : f \in DOMAIN Dir.files /\ HeaderOk(f)
    /\ Apart(files)

\* While the weights are sent: the checkpoint is openable, what is left is the
\* forms of the names left, and those gone were of a kind that is sent.
Uploading ==
  at = "upload" =>
    /\ Openable(Dir) /\ files = Shards(Dir)
    /\ list \subseteq ByName /\ left = Forms(list)
    /\ \A n \in ByName \ list : n[2] = "scales" \/ FormOf(n) # "other"

DiskInv == HandleInv /\ Opening /\ Uploading /\ VerdictOfFiles

LEMMA DiskInit == LoaderInit => DiskInv
BY HandleInit DEF LoaderInit, LCInit, DiskInv, Opening, Uploading, VerdictOfFiles

\* What is read of the files does not change while they stay the same.
LEMMA SameFiles ==
  ASSUME UNCHANGED <<ckpt, files>>
  PROVE  /\ Dir' = Dir /\ ByName' = ByName
         /\ \A n : Tensor(n)' = Tensor(n) /\ FormOf(n)' = FormOf(n)
         /\ \A f : NamesIn(f)' = NamesIn(f) /\ HeaderOk(f)' = HeaderOk(f)
<1>1. Dir' = Dir /\ (\A f : NamesIn(f)' = NamesIn(f)) /\ ByName' = ByName
  BY DEF Dir, NamesIn, ByName
<1>2. \A n : Tensor(n)' = Tensor(n)
  BY DEF Tensor, Holder, Dir, NamesIn
<1>3. \A n : FormOf(n)' = FormOf(n)
  BY <1>1, <1>2 DEF FormOf, W4Ok, HasScales, F32Ok
<1>4. \A f : HeaderOk(f)' = HeaderOk(f)
  BY <1>1 DEF HeaderOk
<1>5. QED
  BY <1>1, <1>2, <1>3, <1>4

\* What is found of a shard: it is missing, its header is refused, or a name of
\* it is taken.
LEMMA ShardsRefused ==
  ASSUME DiskInv, step = "shards"
  PROVE  /\ \A f \in paths : f \notin DOMAIN Dir.files => ~ Openable(Dir)
         /\ cur # 0 /\ ~ HeaderOk(cur) => ~ Openable(Dir)
         /\ cur # 0 /\ NamesIn(cur) \cap ByName # {} => ~ Openable(Dir)
<1>1. Shards(Dir) = InHand \cup paths /\ ckpt \in Checkpoints
  BY DEF DiskInv, Opening, HandleInv
<1>2. \A f \in paths : f \notin DOMAIN Dir.files => ~ Openable(Dir)
  BY <1>1 DEF Openable
<1>3. ASSUME cur # 0
      PROVE  cur \in Shards(Dir) /\ cur \in DOMAIN Dir.files /\ cur \notin files /\ files \subseteq Shards(Dir)
  BY <1>1, <1>3 DEF DiskInv, Opening, InHand
<1>4. ASSUME cur # 0, ~ HeaderOk(cur) PROVE ~ Openable(Dir)
  BY <1>1, <1>3, <1>4, OnDisk DEF Openable, NamesIn
<1>5. ASSUME cur # 0, NamesIn(cur) \cap ByName # {} PROVE ~ Openable(Dir)
  <2>1. PICK f \in files : NamesIn(cur) \cap NamesIn(f) # {}
    BY <1>5 DEF ByName
  <2>2. QED
    BY <1>3, <1>5, <2>1 DEF Openable, NamesIn
<1>6. QED
  BY <1>2, <1>4, <1>5

\* When all shards are merged the checkpoint is openable.
LEMMA AllMerged ==
  ASSUME DiskInv, step = "shards", cur = 0, paths = {}
  PROVE  AllOpen
<1>1. files = Shards(Dir) /\ ckpt \in Checkpoints
  BY DEF DiskInv, Opening, HandleInv, InHand
<1>2. \A f \in files : f \in DOMAIN Dir.files /\ HeaderOk(f)
  BY DEF DiskInv, Opening
<1>3. \A f \in files : /\ Dir.files[f].header
                       /\ \A n \in NamesIn(f) : Acceptable(Dir.files[f].size, Dir.files[f].tensors[n])
  BY <1>1, <1>2, OnDisk
<1>4. Dir.index # "bad" /\ Shards(Dir) # {} /\ Apart(files)
  BY DEF DiskInv, Opening
<1>5. QED
  BY <1>1, <1>2, <1>3, <1>4 DEF AllOpen, Openable, Apart, NamesIn

\* Places number the names.
LEMMA PlaceOf ==
  ASSUME NEW n, n = <<n[1], n[2]>>, n[1] \in DOMAIN Rank, n[2] \in NameSuffixes
  PROVE  /\ Rank[n[1]] \in Nat
         /\ n[2] = "qweight" => Place(n) = 3 * Rank[n[1]]
         /\ n[2] = "scales" => Place(n) = 3 * Rank[n[1]] + 1
         /\ n[2] = "weight" => Place(n) = 3 * Rank[n[1]] + 2
         /\ Place(n) \in Nat
<1>1. Bases \in Seq(Range(Bases))
  BY LifecycleAssumption DEF LifecycleAssumption
<1>2. n[1] \in Range(Bases)
  BY DEF Rank
<1>3. \E i \in DOMAIN Bases : Bases[i] = n[1]
  BY <1>2 DEF Range
<1>4. Rank[n[1]] \in DOMAIN Bases
  BY <1>2, <1>3 DEF Rank
<1>5. Rank[n[1]] \in Nat
  BY <1>1, <1>4
<1>6. QED
  BY <1>5 DEF Place, NameSuffixes

\* The next name is one of those left, and none is before it.
LEMMA NextIsFirst ==
  ASSUME AllOpen, list \subseteq ByName, list # {}
  PROVE  NextName \in list /\ \A m \in list : Place(NextName) <= Place(m)
<1>. DEFINE P == {Place(n) : n \in list}
<1>1. \A n \in list : Place(n) \in Nat
  BY EntryIs, PlaceOf
<1>2. P \in SUBSET Nat /\ P # {}
  BY <1>1
<1>3. PICK x \in P : \A y \in P : x <= y
  <2>. HIDE DEF P
  <2>1. QED
    BY <1>2, LeastOf
<1>4. \E n \in list : \A m \in list : Place(n) <= Place(m)
  BY <1>3
<1>5. QED
  BY <1>4 DEF NextName

\* What ModelLifecycle makes of a name.
FormFor(n) == [name |-> n[1], form |-> FormOf(n), fits |-> Tensor(n).fits]

LEMMA FormsAre ==
  ASSUME NEW names
  PROVE  Forms(names) = {FormFor(n) : n \in {m \in names : m[2] # "scales"}}
BY DEF Forms, FormFor

\* The next name stands for the tensor that comes next, and for no other.
LEMMA NextComes ==
  ASSUME DiskInv, at = "upload", list # {}, NextName[2] # "scales", FormOf(NextName) # "other"
  PROVE  /\ Forms({NextName}) = {FormFor(NextName)}
         /\ FormFor(NextName) \in left /\ Comes(FormFor(NextName))
         /\ left \ {FormFor(NextName)} = Forms(list \ {NextName})
<1>. DEFINE n == NextName
            t == FormFor(n)
<1>1. AllOpen /\ list \subseteq ByName /\ left = Forms(list)
  BY DEF DiskInv, HandleInv, Uploading, AllOpen
<1>2. n \in list /\ \A m \in list : Place(n) <= Place(m)
  BY <1>1, NextIsFirst
<1>. HIDE DEF n
<1>3. \A m \in list : /\ m = <<m[1], m[2]>> /\ m[1] \in DOMAIN Rank /\ m[2] \in NameSuffixes
  BY <1>1, EntryIs
<1>4. n[2] # "scales" /\ FormOf(n) # "other"
  BY DEF n
<1>5. \A m : FormOf(m) = "w4" => m[2] = "qweight"
  BY DEF FormOf
<1>6. \A m : FormOf(m) = "f32" => m[2] = "weight"
  BY DEF FormOf
<1>7. \A m : FormOf(m) \in {"w4", "f32", "other"}
  BY DEF FormOf
<1>8. Forms({n}) = {t}
  BY <1>4, FormsAre
<1>9. t \in left
  BY <1>1, <1>2, <1>4, FormsAre
<1>10. ASSUME NEW m \in list, m[2] # "scales", FormFor(m) = t PROVE m = n
  <2>1. m[1] = n[1] /\ FormOf(m) = FormOf(n)
    BY <1>10 DEF FormFor
  <2>2. m[2] = n[2]
    BY <2>1, <1>4, <1>5, <1>6, <1>7
  <2>3. QED
    BY <1>2, <1>3, <2>1, <2>2
<1>11. left \ {t} = Forms(list \ {n})
  <2>1. left \ {t} \subseteq Forms(list \ {n})
    BY <1>1, FormsAre
  <2>2. Forms(list \ {n}) \subseteq left \ {t}
    BY <1>1, <1>10, FormsAre
  <2>3. QED
    BY <2>1, <2>2
<1>12. ASSUME NEW u \in left
       PROVE  /\ Rank[t.name] <= Rank[u.name]
              /\ u.name = t.name /\ u.form = "w4" => t.form = "w4"
  <2>1. PICK m \in list : m[2] # "scales" /\ u = FormFor(m)
    BY <1>1, FormsAre
  <2>2. u.name = m[1] /\ t.name = n[1] /\ u.form = FormOf(m) /\ t.form = FormOf(n)
    BY <2>1 DEF FormFor
  <2>3. /\ Rank[n[1]] \in Nat /\ Rank[m[1]] \in Nat
        /\ Place(n) = 3 * Rank[n[1]] + (IF n[2] = "qweight" THEN 0 ELSE 2)
        /\ Place(m) = 3 * Rank[m[1]] + (IF m[2] = "qweight" THEN 0 ELSE 2)
    BY <1>2, <1>3, <1>4, <2>1, PlaceOf DEF NameSuffixes
  <2>4. Place(n) <= Place(m)
    BY <1>2
  <2>5. Rank[n[1]] <= Rank[m[1]]
    BY <2>3, <2>4
  <2>6. ASSUME m[1] = n[1], FormOf(m) = "w4" PROVE FormOf(n) = "w4"
    <3>1. m[2] = "qweight"
      BY <1>5, <2>6
    <3>2. n[2] = "qweight"
      BY <2>3, <2>4, <2>6, <3>1
    <3>3. m = n
      BY <1>2, <1>3, <2>6, <3>1, <3>2
    <3>4. QED
      BY <2>6, <3>3
  <2>7. QED
    BY <2>2, <2>5, <2>6
<1>13. Comes(t)
  BY <1>9, <1>12 DEF Comes
<1>14. QED
  BY <1>8, <1>9, <1>11, <1>13 DEF n

\* The step with a name is the step with its tensor.
LEMMA SendUploads ==
  ASSUME DiskInv, Send
  PROVE  (UploadDense \/ UploadW4) /\ Uploading'
<1>. DEFINE n == NextName
            t == FormFor(n)
<1>1. at = "upload" /\ list # {} /\ list' = list \ {n} /\ left' = left \ Forms({n})
  BY DEF Send
<1>2. SendW4(n) \/ SendF32(n)
  BY DEF Send
<1>3. (SendW4(n) => FormOf(n) = "w4" /\ n[2] # "scales") /\ (SendF32(n) => FormOf(n) = "f32" /\ n[2] # "scales")
  BY DEF SendW4, SendF32, FormOf
<1>4. /\ Forms({n}) = {t} /\ t \in left /\ Comes(t) /\ left \ {t} = Forms(list \ {n})
  BY <1>1, <1>2, <1>3, NextComes
<1>5. Sent(n) = Loads(t) /\ t.name = n[1] /\ t.form = FormOf(n)
  BY DEF Sent, Loads, FormFor
<1>6. UNCHANGED <<at, ckpt, calls, model, bcfg, flags, files>>
  BY DEF Send
<1>7. left' = left \ {t}
  BY <1>1, <1>4
<1>8. AllOpen /\ list \subseteq ByName /\ \A m \in ByName \ list : m[2] = "scales" \/ FormOf(m) # "other"
  BY <1>1 DEF DiskInv, HandleInv, Uploading, AllOpen
<1>9. Uploading'
  <2>1. left' = Forms(list')
    BY <1>1, <1>4
  <2>2. Forms(list') = Forms(list)'
    BY <1>6, SameFiles DEF Forms
  <2>3. \A m \in ByName \ list' : m[2] = "scales" \/ FormOf(m) # "other"
    BY <1>1, <1>2, <1>3, <1>8
  <2>4. Openable(Dir)' /\ (files = Shards(Dir))'
    BY <1>6, <1>8 DEF AllOpen, Dir
  <2>5. (list \subseteq ByName)' /\ (\A m \in ByName \ list : m[2] = "scales" \/ FormOf(m) # "other")'
    BY <1>1, <1>6, <1>8, <2>3, SameFiles
  <2>6. QED
    BY <2>1, <2>2, <2>4, <2>5 DEF Uploading
<1>. HIDE DEF n, t
<1>10. ASSUME SendW4(n) PROVE UploadW4
  <2>1. t.form = "w4" /\ t.name \notin NamesOf(dense) \cup NamesOf(quant)
    BY <1>3, <1>5, <1>10 DEF SendW4
  <2>2. quant' = quant \cup {Loads(t)} /\ UNCHANGED dense
    BY <1>5, <1>10 DEF SendW4
  <2>3. QED
    BY <1>1, <1>4, <1>6, <1>7, <2>1, <2>2 DEF UploadW4
<1>11. ASSUME SendF32(n) PROVE UploadDense
  <2>1. t.form = "f32" /\ t.name \notin NamesOf(dense)
    BY <1>3, <1>5, <1>11 DEF SendF32
  <2>2. dense' = dense \cup {Loads(t)} /\ UNCHANGED quant
    BY <1>5, <1>11 DEF SendF32
  <2>3. QED
    BY <1>1, <1>4, <1>6, <1>7, <2>1, <2>2 DEF UploadDense
<1>12. QED
  BY <1>2, <1>9, <1>10, <1>11

\* An error return, for the files only if they are at fault.
LEMMA GiveUpRight ==
  ASSUME NEW why \in {"files", "else", "none"}, GiveUp(why), HandleInv', why = "files" => ~ WellFormed(Dir)
  PROVE  DiskInv'
<1>1. Opening' /\ Uploading'
  BY DEF GiveUp, Fail, Opening, Uploading
<1>2. Dir' = Dir /\ at' = "out" /\ blame' = why
  BY DEF GiveUp, Fail, Dir
<1>3. VerdictOfFiles'
  BY <1>2 DEF VerdictOfFiles
<1>4. QED
  BY <1>1, <1>3 DEF DiskInv

\* A step outside the opening and the uploading that blames nobody anew.
LEMMA OutsideVerdict ==
  ASSUME DiskInv, HandleInv', UNCHANGED ckpt, step' # "shards", at' \notin {"upload", "serving"},
         blame' \in {blame, "none", "else"}
  PROVE  DiskInv'
<1>1. Dir' = Dir
  BY DEF Dir
<1>2. VerdictOfFiles'
  BY <1>1 DEF DiskInv, VerdictOfFiles
<1>3. QED
  BY <1>2 DEF DiskInv, Opening, Uploading

\* A step of the opening.
LEMMA OpeningVerdict ==
  ASSUME DiskInv, HandleInv', Opening', UNCHANGED <<ckpt, at, blame>>, at = "open"
  PROVE  DiskInv'
<1>1. Dir' = Dir
  BY DEF Dir
<1>2. VerdictOfFiles' /\ Uploading'
  BY <1>1 DEF DiskInv, VerdictOfFiles, Uploading
<1>3. QED
  BY <1>2 DEF DiskInv

LEMMA DiskNext ==
  ASSUME DiskInv, [LoaderNext]_loaderVars
  PROVE  DiskInv'
<1>. USE DEF shards, loaderVars, lcVars, engine, gmodel
<1>1. HandleInv /\ HandleInv'
  BY HandleNext DEF DiskInv
<1>2. CASE Called
  BY <1>1, <1>2 DEF Called, NewCalled, DiskInv, Opening, Uploading, VerdictOfFiles, HandleInv
<1>3. CASE NewRefused \/ LibraryLoaded \/ ExportsFound \/ LibraryUnfit \/ LibraryReady \/ Created
  <2>1. UNCHANGED ckpt /\ blame' \in {blame, "none", "else"}
    BY <1>3 DEF NewRefused, LibraryLoaded, ExportsFound, LibraryUnfit, LibraryReady, Created,
                ConfigRefused, ConfigAccepted, Create, SetSliding
  <2>2. step' # "shards" /\ at' \notin {"upload", "serving"}
    BY <1>1, <1>3 DEF NewRefused, LibraryLoaded, ExportsFound, LibraryUnfit, LibraryReady, Created,
                ConfigRefused, ConfigAccepted, Create, SetSliding, HandleInv
  <2>3. QED
    BY <1>1, <2>1, <2>2, OutsideVerdict
<1>4. CASE NotCreated \/ NotFinalized \/ Closed
  BY <1>1, <1>4, GiveUpRight DEF NotCreated, NotFinalized, Closed
<1>5. CASE FindShards
  <2>1. Dir' = Dir /\ files = {} /\ InHand' = {} /\ paths' = Shards(Dir) /\ at = "open" /\ cur' = 0 /\ files' = {}
    BY <1>1, <1>5 DEF FindShards, Dir, HandleInv, InHand
  <2>2. Opening'
    BY <1>5, <2>1 DEF FindShards, Opening, Apart
  <2>3. QED
    BY <1>1, <1>5, <2>1, <2>2, OpeningVerdict DEF FindShards
<1>6. CASE NoShards
  <2>1. Dir.index = "bad" \/ Shards(Dir) = {} => ~ WellFormed(Dir)
    BY DEF WellFormed, Loadable, Openable
  <2>2. QED
    BY <1>1, <1>6, <2>1, GiveUpRight DEF NoShards
<1>7. CASE OpenShard
  <2>. DEFINE f == Min(paths)
  <2>1. f \in paths /\ f # 0 /\ f \in DOMAIN Dir.files
    BY <1>1, <1>7, LeastOfShards DEF OpenShard, HandleInv
  <2>2. cur = 0 /\ cur' = f /\ paths' = paths \ {f} /\ UNCHANGED <<step, ckpt, files, at, blame>>
    BY <1>7 DEF OpenShard
  <2>. HIDE DEF f
  <2>3. step = "shards" /\ at = "open"
    BY <1>1, <1>7 DEF OpenShard, HandleInv
  <2>4. InHand = files /\ InHand' = files \cup {f}
    BY <2>1, <2>2 DEF InHand
  <2>5. Opening'
    <3>1. Opening
      BY DEF DiskInv
    <3>2. Dir' = Dir /\ \A g : NamesIn(g)' = NamesIn(g) /\ HeaderOk(g)' = HeaderOk(g)
      BY <2>2, SameFiles
    <3>3. (\A g \in files : g \in DOMAIN Dir.files /\ HeaderOk(g))' /\ Apart(files)'
      BY <2>2, <2>3, <3>1, <3>2 DEF Opening, Apart
    <3>4. QED
      BY <2>1, <2>2, <2>3, <2>4, <3>1, <3>2, <3>3 DEF Opening
  <2>6. QED
    BY <1>1, <2>2, <2>3, <2>5, OpeningVerdict
<1>8. CASE ShardMissing
  <2>1. Min(paths) \in paths
    BY <1>1, <1>8, LeastOfShards DEF ShardMissing, HandleInv
  <2>2. Min(paths) \notin DOMAIN Dir.files => ~ WellFormed(Dir)
    BY <1>8, <2>1, ShardsRefused DEF ShardMissing, WellFormed, Loadable
  <2>3. QED
    BY <1>1, <1>8, <2>2, GiveUpRight DEF ShardMissing
<1>9. CASE ParseFails
  <2>1. step = "shards" /\ cur # 0
    BY <1>1, <1>9 DEF ParseFails, HandleInv
  <2>2. ~ HeaderOk(cur) => ~ WellFormed(Dir)
    BY <2>1, ShardsRefused DEF WellFormed, Loadable
  <2>3. QED
    BY <1>1, <1>9, <2>2, GiveUpRight DEF ParseFails
<1>10. CASE NameTaken
  <2>1. step = "shards" /\ cur # 0
    BY <1>1, <1>10 DEF NameTaken, HandleInv
  <2>2. ~ WellFormed(Dir)
    BY <1>10, <2>1, ShardsRefused DEF NameTaken, WellFormed, Loadable
  <2>3. QED
    BY <1>1, <1>10, <2>2, GiveUpRight DEF NameTaken
<1>11. CASE Merge
  <2>1. step = "shards" /\ at = "open" /\ cur # 0 /\ Opening
    BY <1>1, <1>11 DEF Merge, HandleInv, DiskInv
  <2>2. /\ files' = files \cup {cur} /\ cur' = 0 /\ UNCHANGED <<step, ckpt, paths, at, blame>>
        /\ HeaderOk(cur) /\ NamesIn(cur) \cap ByName = {}
    BY <1>11 DEF Merge
  <2>3. InHand' = InHand
    BY <2>1, <2>2 DEF InHand
  <2>4. Dir' = Dir /\ \A g : NamesIn(g)' = NamesIn(g) /\ HeaderOk(g)' = HeaderOk(g)
    BY <2>2 DEF Dir, NamesIn, HeaderOk
  <2>5. \A g \in files : NamesIn(cur) \cap NamesIn(g) = {}
    BY <2>2 DEF ByName
  <2>6. (\A g \in files : g \in DOMAIN Dir.files /\ HeaderOk(g))'
    BY <2>1, <2>2, <2>4 DEF Opening
  <2>7. Apart(files)'
    BY <2>1, <2>2, <2>4, <2>5 DEF Opening, Apart
  <2>8. Opening'
    BY <2>1, <2>2, <2>3, <2>4, <2>6, <2>7 DEF Opening
  <2>9. QED
    BY <1>1, <2>1, <2>2, <2>8, OpeningVerdict
<1>12. CASE Opened
  <2>1. AllOpen
    BY <1>12, AllMerged DEF Opened
  <2>2. /\ list' = ByName /\ left' = Forms(ByName) /\ at' = "upload" /\ step' = "start"
        /\ UNCHANGED <<ckpt, files, blame>>
    BY <1>12 DEF Opened
  <2>3. Forms(ByName)' = Forms(ByName)
    BY <2>2, SameFiles DEF Forms
  <2>4. Uploading'
    BY <2>1, <2>2, <2>3, SameFiles DEF Uploading, AllOpen
  <2>5. Opening' /\ VerdictOfFiles'
    BY <2>2, SameFiles DEF Opening, VerdictOfFiles, DiskInv
  <2>6. QED
    BY <1>1, <2>4, <2>5 DEF DiskInv
<1>13. CASE Skip
  <2>1. /\ at = "upload" /\ NextName[2] = "scales" /\ list' = list \ {NextName}
        /\ UNCHANGED <<ckpt, files, blame, left, at, step>>
    BY <1>13 DEF Skip
  <2>2. Forms(list') = Forms(list)
    BY <2>1 DEF Forms
  <2>3. Forms(list)' = Forms(list')
    BY <2>1, SameFiles DEF Forms
  <2>4. Uploading'
    BY <2>1, <2>2, <2>3, SameFiles DEF Uploading, DiskInv
  <2>5. Opening' /\ VerdictOfFiles'
    BY <1>1, <2>1, SameFiles DEF Opening, VerdictOfFiles, DiskInv, HandleInv
  <2>6. QED
    BY <1>1, <2>4, <2>5 DEF DiskInv
<1>14. CASE Send
  <2>1. Uploading'
    BY <1>14, SendUploads
  <2>2. at = "upload" /\ UNCHANGED <<at, ckpt, files, blame, step>>
    BY <1>14 DEF Send
  <2>3. Opening' /\ VerdictOfFiles'
    BY <1>1, <2>2, SameFiles DEF Opening, VerdictOfFiles, DiskInv, HandleInv
  <2>4. QED
    BY <1>1, <2>1, <2>3 DEF DiskInv
<1>15. CASE SendFails
  <2>1. AllOpen /\ list \subseteq ByName /\ list # {} /\ NextName[2] # "scales"
    BY <1>15 DEF SendFails, DiskInv, HandleInv, Uploading, AllOpen
  <2>2. NextName \in ByName
    BY <2>1, NextIsFirst
  <2>3. FormOf(NextName) = "other" => ~ WellFormed(Dir)
    BY <2>1, <2>2, LoadableIs DEF WellFormed
  <2>4. QED
    BY <1>1, <1>15, <2>3, GiveUpRight DEF SendFails
<1>16. CASE Finalized
  <2>1. at = "upload" /\ list = {} /\ at' = "serving" /\ UNCHANGED <<ckpt, step, blame>>
    BY <1>16 DEF Finalized, Finalize
  <2>2. Loadable(Dir)
    BY <2>1, LoadableIs DEF DiskInv, HandleInv, Uploading, AllOpen
  <2>3. Dir' = Dir
    BY <2>1 DEF Dir
  <2>4. Opening' /\ Uploading' /\ VerdictOfFiles'
    BY <1>1, <2>1, <2>2, <2>3 DEF Opening, Uploading, VerdictOfFiles, DiskInv, HandleInv
  <2>5. QED
    BY <1>1, <2>4 DEF DiskInv
<1>17. CASE UNCHANGED loaderVars
  <2>1. Dir' = Dir /\ ByName' = ByName /\ InHand' = InHand /\ Forms(list)' = Forms(list)
    BY <1>17, SameFiles DEF InHand, Forms
  <2>2. Opening' /\ VerdictOfFiles'
    BY <1>17, <2>1, SameFiles DEF DiskInv, Opening, VerdictOfFiles, Apart
  <2>3. Uploading'
    BY <1>17, <2>1, SameFiles DEF DiskInv, Uploading
  <2>4. QED
    BY <1>1, <2>2, <2>3 DEF DiskInv
<1>18. QED
  BY <1>2, <1>3, <1>4, <1>5, <1>6, <1>7, <1>8, <1>9, <1>10, <1>11, <1>12, <1>13, <1>14, <1>15, <1>16,
     <1>17 DEF LoaderNext, LoaderDone

LEMMA DiskInductive == LoaderSpec => []DiskInv
<1>1. LoaderInit => DiskInv
  BY DiskInit
<1>2. DiskInv /\ [LoaderNext]_loaderVars => DiskInv'
  BY DiskNext
<1>3. QED
  BY <1>1, <1>2, PTL DEF LoaderSpec

\* No checkpoint that is well formed is refused for its files, however it is cut
\* into shards, and an engine is built only from one that is, but for entries
\* whose bytes, more than an int64 holds, come round to the range they give.
THEOREM VerdictRight == LoaderSpec => []VerdictOfFiles
<1>1. DiskInv => VerdictOfFiles
  BY DEF DiskInv
<1>2. QED
  BY DiskInductive, <1>1, PTL

-----------------------------------------------------------------------------
(* The loading of a checkpoint from its files, shard by shard and name by  *)
(* name, is the loading of its tensors.                                    *)

LEMMA LoaderStep ==
  ASSUME DiskInv, [LoaderNext]_loaderVars
  PROVE  [LCNext]_lcVars
<1>. USE DEF LCNext, GiveUp
<1>1. CASE Called \/ NewRefused \/ LibraryUnfit \/ LibraryReady \/ Created \/ NotCreated
  BY <1>1 DEF Called, NewRefused, LibraryUnfit, LibraryReady, Created, NotCreated
<1>2. CASE LibraryLoaded \/ ExportsFound \/ FindShards \/ OpenShard \/ Merge \/ Skip
  BY <1>2 DEF LibraryLoaded, ExportsFound, FindShards, OpenShard, Merge, Skip
<1>3. CASE NoShards \/ ShardMissing \/ ParseFails \/ NameTaken
  <2>1. at = "open"
    BY <1>3 DEF NoShards, ShardMissing, ParseFails, NameTaken, DiskInv, HandleInv
  <2>2. Fail
    BY <1>3 DEF NoShards, ShardMissing, ParseFails, NameTaken
  <2>3. QED
    BY <2>1, <2>2 DEF OpenFails
<1>4. CASE Opened
  <2>1. at = "open"
    BY <1>4 DEF Opened, DiskInv, HandleInv
  <2>2. left' = ckpt.tensors
    BY <1>4, AllMerged, FormsAreContents DEF Opened
  <2>3. OpenModel
    BY <1>4, <2>1, <2>2 DEF Opened, OpenModel
  <2>4. QED
    BY <2>3
<1>5. CASE Send
  BY <1>5, SendUploads
<1>6. CASE SendFails
  <2>1. AllOpen /\ list \subseteq ByName /\ list # {} /\ NextName[2] # "scales" /\ at = "upload" /\ left = Forms(list)
    BY <1>6 DEF SendFails, DiskInv, HandleInv, Uploading, AllOpen
  <2>2. NextName \in list
    BY <2>1, NextIsFirst
  <2>3. left # {}
    BY <2>1, <2>2, FormsAre
  <2>4. Fail
    BY <1>6 DEF SendFails
  <2>5. UploadFails
    BY <2>1, <2>3, <2>4 DEF UploadFails
  <2>6. QED
    BY <2>5
<1>7. CASE Finalized \/ NotFinalized \/ Closed
  BY <1>7 DEF Finalized, NotFinalized, Closed
<1>8. CASE LoaderDone \/ UNCHANGED loaderVars
  BY <1>8 DEF LoaderDone, loaderVars
<1>9. QED
  BY <1>1, <1>2, <1>3, <1>4, <1>5, <1>6, <1>7, <1>8 DEF LoaderNext

\* The loader implements the lifecycle: each of its steps is one of engine.New
\* over the tensors the files hold, or leaves the model and New as they are.
THEOREM LoaderImplementsLifecycle == LoaderSpec => LCSpec
<1>1. LoaderInit => LCInit
  BY DEF LoaderInit
<1>2. DiskInv /\ [LoaderNext]_loaderVars => [LCNext]_lcVars
  BY LoaderStep
<1>3. QED
  BY <1>1, <1>2, DiskInductive, PTL DEF LoaderSpec, LCSpec

\* So what is proved of the lifecycle holds of the loading from files.
COROLLARY LoadedEngineIsOwn ==
  LoaderSpec => [](LCTypeOK /\ ServesItsOwn /\ ForwardFindsWeights /\ SlidingAsConfigured)
BY LoaderImplementsLifecycle, LifecycleTypeCorrect, EngineIsOwn, ForwardComplete, LayersAttendAsConfigured, PTL
=============================================================================
