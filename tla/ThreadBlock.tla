----------------------------- MODULE ThreadBlock -----------------------------
(***************************************************************************)
(* One thread block of the kernels of backend/model.cu that reduce over    *)
(* shared memory: the matrix products over quantized weights (v1 and v2),  *)
(* the norms, and the parallel attention.  Threads run in any order        *)
(* between two __syncthreads; each kernel is a sequence of stages with a   *)
(* barrier after each.  A thread does its part of a stage in one step,     *)
(* which is sound where no two threads may touch the same cell: NoRace.    *)
(*                                                                         *)
(* Numbers are terms: a sum is the bag of what was added, an exponential   *)
(* the pair of the score and the maximum it was taken against.             *)
(***************************************************************************)
EXTENDS Integers, Sequences, FiniteSets, Bags

CONSTANTS
  BlockDim,     \* threads of the block
  Strides,      \* the values s takes in the reduction loop
  ScoreCap,     \* scores before the reduction's scratch in shared memory
  Launches      \* the launches to look at

Threads == 0 .. BlockDim - 1

\* blockDim is a power of two, and s halves down to one.
ASSUME BlockAssumption ==
  /\ BlockDim \in Nat \ {0}
  /\ Strides \in Seq(Nat)
  /\ \A i \in DOMAIN Strides :
       2 * Strides[i] = IF i = 1 THEN BlockDim ELSE Strides[i - 1]
  /\ IF Strides = <<>> THEN BlockDim = 1 ELSE Strides[Len(Strides)] = 1
  /\ ScoreCap \in Nat

\* te_forward_batch lets no position past max_seq, which ScoreCap is, and
\* te_model_load_tensor_w4 only even rows and groups.
ASSUME LaunchAssumption ==
  \A l \in Launches :
    \/ /\ l.kernel = "attention"
       /\ l.len \in 1 .. ScoreCap /\ l.window \in Nat /\ l.headDim \in Nat
       /\ l.score \in [1 .. l.len -> Nat]
    \/ /\ l.kernel = "w4"
       /\ l.version \in Nat /\ l.k \in Nat \ {0} /\ l.group \in Nat \ {0}
       /\ l.k % 2 = 0 /\ l.group % 2 = 0
    \/ /\ l.kernel = "norm"
       /\ l.hidden \in Nat \ {0} /\ l.fused \in BOOLEAN

VARIABLES
  launch,       \* the launch: its kernel and its arguments
  passed,       \* passed[t]: the barriers thread t has come to
  sh,           \* shared memory
  mine,         \* mine[t]: what t has read from the scratch, its registers
  x,            \* the row a norm works on
  out           \* the output of the block

blockVars == <<launch, passed, sh, mine, x, out>>

Kernel == launch.kernel

\* Mutant: the reduction begins with its second round.
ShortTree(op) == [i \in 1 .. Len(Strides) - 1 |-> [do |-> "reduce", op |-> op, s |-> Strides[i + 1]]]

Tree(op) == [i \in DOMAIN Strides |-> [do |-> "reduce", op |-> op, s |-> Strides[i]]]

Stage(name) == <<[do |-> name]>>

Program ==
  IF Kernel = "attention"
  THEN Stage("load") \o Tree("max") \o Stage("read")
         \o Stage("exp") \o Tree("sum") \o Stage("read") \o Stage("write")
  ELSE Stage("load") \o Tree("sum") \o Stage("write")

\* The elements of 0 .. n-1 that thread t strides over.
Stripe(t, n) == {i \in 0 .. n - 1 : i % BlockDim = t}

\* Where thread t's cell of the scratch is.
Red(t) == IF Kernel = "attention" THEN ScoreCap + t ELSE t

-----------------------------------------------------------------------------
(* Attention of one token and head: positions first .. last see each other. *)

\* Mutant: the token itself is not among the window's.
FirstOffByOne ==
  IF launch.window > 0 /\ launch.len > launch.window THEN launch.len - launch.window - 1 ELSE 0

First ==
  IF launch.window > 0 /\ launch.len > launch.window THEN launch.len - launch.window ELSE 0

Count == launch.len - First

Lowest == -1
MaxOf(S) == CHOOSE a \in S \cup {Lowest} : \A b \in S \cup {Lowest} : b <= a

\* The score of the i-th position attended to; expf(score - max).
Score(i) == launch.score[First + i + 1]
Exp(score, max) == [of |-> score, over |-> max]

\* One weight of the softmax, position p's.
Term(p, e) == [pos |-> p, exp |-> e]

-----------------------------------------------------------------------------
(* Quantized weights: row r of Q is k/2 bytes, as tools/quantize_w4.py     *)
(* packs them; a nibble is the column it holds.                            *)

Packed(b) == [low |-> 2 * b, high |-> 2 * b + 1]

Product(nibble, scale, xj) == [w |-> nibble, s |-> scale, x |-> xj]

\* Mutant: the vectorized kernel is used whatever the group.
UseV2Always == launch.version >= 2 /\ launch.k % 8 = 0

\* w4_matmul's choice.
UseV2 == launch.version >= 2 /\ launch.k % 8 = 0 /\ launch.group % 8 = 0

\* What a thread adds up for one byte, and for one word of four: there the
\* scale is that of the word's first weight.
ByteTerms(b) ==
  LET s == (2 * b) \div launch.group
  IN  {Product(Packed(b).low, s, 2 * b), Product(Packed(b).high, s, 2 * b + 1)}

WordTerms(w) ==
  LET s == (8 * w) \div launch.group
  IN  UNION {{Product(Packed(4 * w + b).low, s, 8 * w + 2 * b),
              Product(Packed(4 * w + b).high, s, 8 * w + 2 * b + 1)} : b \in 0 .. 3}

W4Terms(t) ==
  IF UseV2 THEN UNION {WordTerms(w) : w \in Stripe(t, launch.k \div 8)}
           ELSE UNION {ByteTerms(b) : b \in Stripe(t, launch.k \div 2)}

-----------------------------------------------------------------------------
(* Norms: rmsnorm, and add_rmsnorm, which adds the residual on the way. *)

Added(v) == IF launch.fused THEN v \cup {"res"} ELSE v
Square(i, v) == [sq |-> i, of |-> v]

-----------------------------------------------------------------------------
(* The stages. *)

BlockInit ==
  /\ launch \in Launches
  /\ passed = [t \in Threads |-> 0]
  /\ sh = [c \in 0 .. ScoreCap + BlockDim - 1 |-> Lowest]
  /\ mine = [t \in Threads |-> <<>>]
  /\ x = IF Kernel = "norm"
         THEN [i \in 0 .. launch.hidden - 1 |-> IF launch.fused THEN {"x"} ELSE {"x", "res"}]
         ELSE <<>>
  /\ out = <<>>

\* Mutant: no barrier between a read of the scratch and what follows.
MayRunAfterRead(t) ==
  LET reading == passed[t] > 0 /\ Program[passed[t]].do = "read"
  IN  \A u \in Threads : passed[u] >= passed[t] - (IF reading THEN 1 ELSE 0)

\* __syncthreads: nobody goes on before everybody has come to the barrier.
MayRun(t) == \A u \in Threads : passed[u] >= passed[t]

Running(t, stage) ==
  /\ passed[t] < Len(Program)
  /\ MayRun(t)
  /\ stage = Program[passed[t] + 1]
  /\ passed' = [passed EXCEPT ![t] = @ + 1]
  /\ UNCHANGED launch

\* Each thread goes over its stripe and leaves its part in the scratch.
Load(t) ==
  /\ Running(t, [do |-> "load"])
  /\ CASE Kernel = "attention" ->
            /\ sh' = [c \in DOMAIN sh |->
                        IF c = Red(t) THEN MaxOf({Score(i) : i \in Stripe(t, Count)})
                        ELSE IF c \in Stripe(t, Count) THEN Score(c)
                        ELSE sh[c]]
            /\ UNCHANGED x
       [] Kernel = "w4" ->
            /\ sh' = [sh EXCEPT ![Red(t)] = SetToBag(W4Terms(t))]
            /\ UNCHANGED x
       [] Kernel = "norm" ->
            /\ x' = [i \in DOMAIN x |->
                       IF i \in Stripe(t, launch.hidden) THEN Added(x[i]) ELSE x[i]]
            /\ sh' = [sh EXCEPT ![Red(t)] =
                        SetToBag({Square(i, x'[i]) : i \in Stripe(t, launch.hidden)})]
  /\ UNCHANGED <<mine, out>>

Combined(op, a, b) == IF op = "max" THEN MaxOf({a, b}) ELSE a (+) b

\* A round of the tree: the lower half takes in the upper.
Reduce(t) ==
  /\ \E op \in {"max", "sum"}, i \in DOMAIN Strides :
       LET s == Strides[i]
       IN  /\ Running(t, [do |-> "reduce", op |-> op, s |-> s])
           /\ sh' = IF t < s
                    THEN [sh EXCEPT ![Red(t)] = Combined(op, @, sh[Red(t + s)])]
                    ELSE sh
  /\ UNCHANGED <<mine, x, out>>

\* Attention: everyone reads the maximum, and later the sum.
Read(t) ==
  /\ Running(t, [do |-> "read"])
  /\ mine' = [mine EXCEPT ![t] = Append(@, sh[Red(0)])]
  /\ UNCHANGED <<sh, x, out>>

\* Attention: the scores of t's stripe become exponentials.
ExpSum(t) ==
  /\ Running(t, [do |-> "exp"])
  /\ LET e(i) == Exp(sh[i], mine[t][1])
     IN  sh' = [c \in DOMAIN sh |->
                  IF c = Red(t) THEN SetToBag({Term(First + i, e(i)) : i \in Stripe(t, Count)})
                  ELSE IF c \in Stripe(t, Count) THEN e(c)
                  ELSE sh[c]]
  /\ UNCHANGED <<mine, x, out>>

\* The outputs of t's stripe: of the head for attention, of the row for a
\* norm; of a product there is one, thread 0's.
Outputs(t) ==
  CASE Kernel = "attention" -> Stripe(t, launch.headDim)
    [] Kernel = "w4" -> IF t = 0 THEN {0} ELSE {}
    [] Kernel = "norm" -> Stripe(t, launch.hidden)

Output(t, d) ==
  CASE Kernel = "attention" ->
         [terms |-> {Term(First + i, sh[i]) : i \in 0 .. Count - 1}, sum |-> mine[t][2]]
    [] Kernel = "w4" -> sh[Red(0)]
    [] Kernel = "norm" -> [x |-> x[d], sum |-> sh[Red(0)]]

Write(t) ==
  /\ Running(t, [do |-> "write"])
  /\ out' = [d \in DOMAIN out \cup Outputs(t) |->
               IF d \in Outputs(t) THEN Output(t, d) ELSE out[d]]
  /\ UNCHANGED <<sh, mine, x>>

Finished == \A t \in Threads : passed[t] = Len(Program)

BlockNext ==
  \/ \E t \in Threads : Load(t) \/ Reduce(t) \/ Read(t) \/ ExpSum(t) \/ Write(t)
  \/ Finished /\ UNCHANGED blockVars

BlockSpec == BlockInit /\ [][BlockNext]_blockVars

-----------------------------------------------------------------------------
(* What each thread touches in the stage it is in: cells of shared memory, *)
(* of the row and of the output.                                           *)

InStage(t) == Program[passed[t] + 1]
Runnable(t) == passed[t] < Len(Program) /\ MayRun(t)

Shared(S) == {"sh"} \X S
OwnScores(t) == IF Kernel = "attention" THEN Stripe(t, Count) ELSE {}
OwnRow(t) == IF Kernel = "norm" THEN Stripe(t, launch.hidden) ELSE {}

\* A norm may be in place: its output is then the row it reads.
OutArray == IF Kernel = "norm" THEN "x" ELSE "out"

Writes(t) ==
  CASE InStage(t).do = "load" -> Shared({Red(t)} \cup OwnScores(t)) \cup ({"x"} \X OwnRow(t))
    [] InStage(t).do = "reduce" -> Shared(IF t < InStage(t).s THEN {Red(t)} ELSE {})
    [] InStage(t).do = "read" -> {}
    [] InStage(t).do = "exp" -> Shared({Red(t)} \cup OwnScores(t))
    [] InStage(t).do = "write" -> {OutArray} \X Outputs(t)

Reads(t) ==
  CASE InStage(t).do = "load" -> {"x"} \X OwnRow(t)
    [] InStage(t).do = "reduce" ->
         Shared(IF t < InStage(t).s THEN {Red(t), Red(t + InStage(t).s)} ELSE {})
    [] InStage(t).do = "read" -> Shared({Red(0)})
    [] InStage(t).do = "exp" -> Shared(OwnScores(t))
    [] InStage(t).do = "write" ->
         IF Kernel = "attention" THEN Shared(0 .. Count - 1)
         ELSE IF Outputs(t) = {} THEN {}
         ELSE Shared({Red(0)}) \cup ({"x"} \X OwnRow(t))

\* Two threads that may run at the same time never touch the same cell, one of
\* them to write it: every write and the reads of it have a barrier between
\* them, also where the scratch is used a second time (attn_paged_par_kernel)
\* and where a norm is in place (rmsnorm_kernel).
NoRace ==
  \A t, u \in Threads :
    t # u /\ Runnable(t) /\ Runnable(u) => Writes(t) \cap (Reads(u) \cup Writes(u)) = {}

-----------------------------------------------------------------------------
\* Parallel attention gives what the naive kernel gives: each output is the
\* mixture of exactly the positions of the window, each once, under one
\* maximum and one sum (attn_paged_kernel, docs/theory).
AttentionRight ==
  Kernel = "attention" /\ Finished =>
    LET seen == {p \in 0 .. launch.len - 1 : launch.window = 0 \/ p >= launch.len - launch.window}
        max == MaxOf({launch.score[p + 1] : p \in seen})
        terms == {Term(p, Exp(launch.score[p + 1], max)) : p \in seen}
    IN  out = [d \in 0 .. launch.headDim - 1 |-> [terms |-> terms, sum |-> SetToBag(terms)]]

\* A product over quantized weights adds up every column once, with its own
\* scale and its own input, whichever kernel is chosen: Y = X dequant(Q, S)^T
\* (matmul_w4_kernel, and the dequantized copy quantize writes).
W4Right ==
  Kernel = "w4" /\ Finished =>
    out = [d \in {0} |-> SetToBag({Product(j, j \div launch.group, j) : j \in 0 .. launch.k - 1})]

\* A norm scales every element of the row, the residual added once, by the sum
\* of all squares; the fused kernel and the two it replaces agree.
NormRight ==
  Kernel = "norm" /\ Finished =>
    out = [i \in 0 .. launch.hidden - 1 |->
             [x |-> {"x", "res"},
              sum |-> SetToBag({Square(j, {"x", "res"}) : j \in 0 .. launch.hidden - 1})]]
=============================================================================
