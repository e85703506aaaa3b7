-------------------------- MODULE ThreadBlockProofs --------------------------
(***************************************************************************)
(* For any power of two of threads and any launch: the stages of the       *)
(* kernels are free of races, and what a block leaves when all its threads *)
(* have finished is what the kernel is for.                                *)
(*                                                                         *)
(* The second rests on BlockInv, which says for every thread what its cell *)
(* of the scratch, its scores, its registers and its part of the row are   *)
(* at the barrier it has come to.  A cell only its owner writes, so a step *)
(* of t has to be looked at for t alone (CellsStep and its like), except   *)
(* where t reads what others wrote: there MayRun bounds how far they are.  *)
(***************************************************************************)
EXTENDS ThreadBlock, WellFoundedInduction, TLAPS

\* The stages a program is made of.
Stages ==
  {[do |-> "load"], [do |-> "read"], [do |-> "exp"], [do |-> "write"]}
    \cup {[do |-> "reduce", op |-> op, s |-> s] : op \in {"max", "sum"}, s \in Nat}

\* Which launch this is, and how far each thread is.
BlockTypeOK ==
  /\ launch \in Launches
  /\ passed \in [Threads -> Nat]

\* Every kernel's program is made of these stages.
LEMMA ProgramStages == Program \in Seq(Stages)
<1>1. Stage("load") \in Seq(Stages) /\ Stage("read") \in Seq(Stages)
      /\ Stage("exp") \in Seq(Stages) /\ Stage("write") \in Seq(Stages)
  BY DEF Stage, Stages
<1>2. ASSUME NEW op \in {"max", "sum"}
      PROVE  Tree(op) \in Seq(Stages)
  <2>1. Strides \in Seq(Nat)
    BY BlockAssumption
  <2>2. \A i \in DOMAIN Strides : [do |-> "reduce", op |-> op, s |-> Strides[i]] \in Stages
    BY <2>1 DEF Stages
  <2> QED BY <2>1, <2>2 DEF Tree
<1>3. Tree("max") \in Seq(Stages) /\ Tree("sum") \in Seq(Stages)
  BY <1>2
<1>4. ASSUME NEW a \in Seq(Stages), NEW b \in Seq(Stages)
      PROVE  a \o b \in Seq(Stages)
  OBVIOUS
<1>5. CASE Kernel = "attention"
  <2>1. Stage("load") \o Tree("max") \o Stage("read") \in Seq(Stages)
    BY <1>1, <1>3, <1>4
  <2>2. Stage("load") \o Tree("max") \o Stage("read") \o Stage("exp") \o Tree("sum")
          \in Seq(Stages)
    BY <2>1, <1>1, <1>3, <1>4
  <2> QED BY <2>2, <1>1, <1>4, <1>5 DEF Program
<1>6. CASE Kernel # "attention"
  BY <1>1, <1>3, <1>4, <1>6 DEF Program
<1> QED BY <1>5, <1>6

\* A launch's positions are before the scratch.
LEMMA CountFits ==
  ASSUME launch \in Launches, Kernel = "attention"
  PROVE  Count \in 0 .. ScoreCap
<1>1. launch.len \in 1 .. ScoreCap /\ launch.window \in Nat
  BY LaunchAssumption DEF Kernel
<1> QED BY <1>1, BlockAssumption DEF Count, First

\* The cells of two threads are different ones, and no score is in the scratch.
LEMMA CellsApart ==
  ASSUME launch \in Launches, NEW t \in Threads, NEW u \in Threads, t # u
  PROVE  /\ Red(t) # Red(u)
         /\ Red(t) \notin OwnScores(u)
         /\ OwnScores(t) \cap OwnScores(u) = {}
         /\ OwnRow(t) \cap OwnRow(u) = {}
         /\ Outputs(t) \cap Outputs(u) = {}
<1>1. t \in Int /\ u \in Int /\ t >= 0 /\ u >= 0
  BY BlockAssumption DEF Threads
<1>2. Red(t) # Red(u)
  BY <1>1, BlockAssumption DEF Red
<1>3. Red(t) \notin OwnScores(u)
  <2>1. CASE Kernel = "attention"
    BY <2>1, <1>1, CountFits, BlockAssumption DEF Red, OwnScores, Stripe
  <2> QED BY <2>1 DEF OwnScores
<1>4. ASSUME NEW n PROVE Stripe(t, n) \cap Stripe(u, n) = {}
  BY DEF Stripe
<1>5. OwnScores(t) \cap OwnScores(u) = {}
  BY <1>4 DEF OwnScores
<1>6. OwnRow(t) \cap OwnRow(u) = {}
  BY <1>4 DEF OwnRow
<1>7. Outputs(t) \cap Outputs(u) = {}
  <2>1. launch.kernel \in {"attention", "w4", "norm"}
    BY LaunchAssumption
  <2>2. CASE launch.kernel = "attention"
    BY <2>2, <1>4 DEF Outputs, Kernel
  <2>3. CASE launch.kernel = "w4"
    BY <2>3 DEF Outputs, Kernel
  <2>4. CASE launch.kernel = "norm"
    BY <2>4, <1>4 DEF Outputs, Kernel
  <2> QED BY <2>1, <2>2, <2>3, <2>4
<1> QED BY <1>2, <1>3, <1>5, <1>6, <1>7

\* Threads that may run together are in the same stage.
LEMMA SameStage ==
  ASSUME BlockTypeOK, NEW t \in Threads, NEW u \in Threads, Runnable(t), Runnable(u)
  PROVE  InStage(t) = InStage(u) /\ InStage(t) \in Stages
<1>1. passed[t] \in Nat /\ passed[u] \in Nat
  BY DEF BlockTypeOK
<1>2. passed[t] = passed[u]
  BY <1>1 DEF Runnable, MayRun
<1>3. passed[t] + 1 \in 1 .. Len(Program)
  BY <1>1, ProgramStages DEF Runnable
<1> QED BY <1>2, <1>3, ProgramStages DEF InStage

\* In every stage, what one thread writes no other touches.
LEMMA StageRaceFree == BlockTypeOK => NoRace
<1> SUFFICES ASSUME BlockTypeOK, NEW t \in Threads, NEW u \in Threads,
                    t # u, Runnable(t), Runnable(u)
             PROVE  Writes(t) \cap (Reads(u) \cup Writes(u)) = {}
  BY DEF NoRace
<1> DEFINE st == InStage(t)
<1>1. InStage(u) = st /\ st \in Stages
  BY SameStage
<1>2. launch \in Launches
  BY DEF BlockTypeOK
<1>3. /\ Red(t) # Red(u) /\ Red(u) # Red(t)
      /\ Red(t) \notin OwnScores(u) /\ Red(u) \notin OwnScores(t)
      /\ OwnScores(t) \cap OwnScores(u) = {}
      /\ OwnRow(t) \cap OwnRow(u) = {}
      /\ Outputs(t) \cap Outputs(u) = {}
  BY <1>2, CellsApart
<1>4. CASE st.do = "load"
  BY <1>1, <1>3, <1>4 DEF Writes, Reads, Shared
<1>5. CASE st.do = "reduce"
  <2>1. st.s \in Nat
    BY <1>1, <1>5 DEF Stages
  <2>2. t \in Int /\ u \in Int /\ t >= 0 /\ u >= 0
    BY BlockAssumption DEF Threads
  <2>3. t < st.s => Red(t) # Red(u + st.s)
    BY <2>1, <2>2, BlockAssumption DEF Red
  <2>4. Writes(t) = Shared(IF t < st.s THEN {Red(t)} ELSE {})
    BY <1>5 DEF Writes
  <2>5. Writes(u) = Shared(IF u < st.s THEN {Red(u)} ELSE {})
    BY <1>1, <1>5 DEF Writes
  <2>6. Reads(u) = Shared(IF u < st.s THEN {Red(u), Red(u + st.s)} ELSE {})
    BY <1>1, <1>5 DEF Reads
  <2> QED BY <2>3, <2>4, <2>5, <2>6, <1>3 DEF Shared
<1>6. CASE st.do = "read"
  BY <1>6 DEF Writes
<1>7. CASE st.do = "exp"
  BY <1>1, <1>3, <1>7 DEF Writes, Reads, Shared
<1>8. CASE st.do = "write"
  <2>1. Writes(t) = {OutArray} \X Outputs(t) /\ Writes(u) = {OutArray} \X Outputs(u)
    BY <1>1, <1>8 DEF Writes
  <2>2. Writes(t) \cap Writes(u) = {}
    BY <2>1, <1>3
  <2>3. Writes(t) \cap Reads(u) = {}
    <3>1. CASE Kernel = "attention"
      <4>1. Reads(u) = Shared(0 .. Count - 1)
        BY <1>1, <1>8, <3>1 DEF Reads
      <4>2. OutArray = "out"
        BY <3>1 DEF OutArray
      <4> QED BY <4>1, <4>2, <2>1 DEF Shared
    <3>2. CASE Kernel # "attention"
      <4>1. Reads(u) \subseteq Shared({Red(0)}) \cup ({"x"} \X OwnRow(u))
        BY <1>1, <1>8, <3>2 DEF Reads
      <4>2. CASE Kernel = "norm"
        <5>1. OutArray = "x" /\ Outputs(t) = OwnRow(t)
          BY <4>2 DEF OutArray, Outputs, OwnRow, Kernel
        <5> QED BY <5>1, <4>1, <2>1, <1>3 DEF Shared
      <4>3. CASE Kernel # "norm"
        <5>1. OutArray = "out"
          BY <4>3 DEF OutArray
        <5> QED BY <5>1, <4>1, <2>1 DEF Shared
      <4> QED BY <4>2, <4>3
    <3> QED BY <3>1, <3>2
  <2> QED BY <2>2, <2>3
<1>9. st.do \in {"load", "reduce", "read", "exp", "write"}
  BY <1>1 DEF Stages
<1> QED BY <1>4, <1>5, <1>6, <1>7, <1>8, <1>9

LEMMA BlockTypeInit == BlockInit => BlockTypeOK
BY DEF BlockInit, BlockTypeOK

LEMMA BlockTypeNext == BlockTypeOK /\ [BlockNext]_blockVars => BlockTypeOK'
<1> SUFFICES ASSUME BlockTypeOK, [BlockNext]_blockVars PROVE BlockTypeOK'
  OBVIOUS
<1>1. ASSUME NEW t \in Threads, NEW st, Running(t, st) PROVE BlockTypeOK'
  <2>1. passed[t] \in Nat /\ passed' = [passed EXCEPT ![t] = @ + 1] /\ launch' = launch
    BY <1>1 DEF Running, BlockTypeOK
  <2> QED BY <2>1 DEF BlockTypeOK
<1>2. ASSUME NEW t \in Threads, Load(t) PROVE BlockTypeOK'
  BY <1>1, <1>2 DEF Load
<1>3. ASSUME NEW t \in Threads, Reduce(t) PROVE BlockTypeOK'
  <2>1. PICK op \in {"max", "sum"}, i \in DOMAIN Strides :
          Running(t, [do |-> "reduce", op |-> op, s |-> Strides[i]])
    BY <1>3 DEF Reduce
  <2> QED BY <1>1, <2>1
<1>4. ASSUME NEW t \in Threads, Read(t) PROVE BlockTypeOK'
  BY <1>1, <1>4 DEF Read
<1>5. ASSUME NEW t \in Threads, ExpSum(t) PROVE BlockTypeOK'
  BY <1>1, <1>5 DEF ExpSum
<1>6. ASSUME NEW t \in Threads, Write(t) PROVE BlockTypeOK'
  BY <1>1, <1>6 DEF Write
<1>7. CASE UNCHANGED blockVars
  BY <1>7 DEF BlockTypeOK, blockVars
<1> QED BY <1>2, <1>3, <1>4, <1>5, <1>6, <1>7 DEF BlockNext

\* No schedule of the threads has a race, for any power of two of threads and
\* any launch the backend makes: barriers stand wherever the kernels need one
\* (attn_paged_par_kernel, matmul_w4_v1/v2_kernel, rmsnorm_kernel).
THEOREM RaceFree == BlockSpec => []NoRace
<1>1. BlockSpec => []BlockTypeOK
  BY BlockTypeInit, BlockTypeNext, PTL DEF BlockSpec
<1> QED BY <1>1, StageRaceFree, PTL

-----------------------------------------------------------------------------
(* What is where after each stage.                                         *)

\* The width the tree is down to after i rounds, and the threads whose parts
\* are in cell t then.
Width(i) == IF i = 0 THEN BlockDim ELSE Strides[i]
Group(t, w) == {u \in Threads : u % w = t}

\* What thread t puts into the scratch, as a set: scores for the maximum, terms
\* for the sum.
Row == {"x", "res"}
TopScore == MaxOf({Score(i) : i \in 0 .. Count - 1})
Part(op, t) ==
  CASE op = "max" -> {Score(i) : i \in Stripe(t, Count)}
    [] op = "sum" /\ Kernel = "attention" -> {Term(First + i, Exp(Score(i), TopScore)) : i \in Stripe(t, Count)}
    [] op = "sum" /\ Kernel = "w4" -> W4Terms(t)
    [] op = "sum" /\ Kernel = "norm" -> {Square(i, Row) : i \in Stripe(t, launch.hidden)}

PartsOf(op, U) == UNION {Part(op, u) : u \in U}
Of(op, S) == IF op = "max" THEN MaxOf(S) ELSE SetToBag(S)
Tally(op, t, w) == Of(op, PartsOf(op, Group(t, w)))

\* What cell t holds after i rounds: those still in the tree, and the half
\* that has just left it.
Held(v, op, t, i) ==
  /\ t < Width(i) => v = Tally(op, t, Width(i))
  /\ i > 0 /\ Width(i) <= t /\ t < Width(i - 1) => v = Tally(op, t, Width(i - 1))

\* Where the stages are: the first tree is after the load, the second after exp.
Rounds == Len(Strides)
OpAt(p) == IF Kernel = "attention" /\ p <= Rounds + 2 THEN "max" ELSE "sum"
RoundsAt(p) ==
  LET r == IF Kernel = "attention" /\ p > Rounds + 2 THEN p - Rounds - 3 ELSE p - 1
  IN  IF r > Rounds THEN Rounds ELSE r

Total == Of("sum", PartsOf("sum", Threads))

\* What a thread that has come to p barriers leaves: in its cell, where a score
\* of its stripe was, in its registers, and in its part of the row.
CellAt(v, t, p) == p > 0 => Held(v, OpAt(p), t, RoundsAt(p))

ScoreAt(v, c, p) ==
  /\ p \in 1 .. Rounds + 2 => v = Score(c)
  /\ p > Rounds + 2 => v = Exp(Score(c), TopScore)

MineAt(p) ==
  IF p <= Rounds + 1 THEN <<>>
  ELSE IF p <= 2 * Rounds + 3 THEN <<TopScore>>
  ELSE <<TopScore, Total>>

RowAt(p) == IF p = 0 /\ launch.fused THEN {"x"} ELSE Row

CellsRight == \A t \in Threads : CellAt(sh[Red(t)], t, passed[t])

ScoresRight ==
  Kernel = "attention" => \A c \in 0 .. Count - 1 : ScoreAt(sh[c], c, passed[c % BlockDim])

MineRight == Kernel = "attention" => \A t \in Threads : mine[t] = MineAt(passed[t])

RowRight ==
  Kernel = "norm" =>
    /\ DOMAIN x = 0 .. launch.hidden - 1
    /\ \A i \in 0 .. launch.hidden - 1 : x[i] = RowAt(passed[i % BlockDim])

\* What the block is for.
Result ==
  CASE Kernel = "attention" ->
         [terms |-> {Term(First + i, Exp(Score(i), TopScore)) : i \in 0 .. Count - 1}, sum |-> Total]
    [] Kernel = "w4" -> Total
    [] Kernel = "norm" -> [x |-> Row, sum |-> Total]

WrittenBy(t) == IF passed[t] = Len(Program) THEN Outputs(t) ELSE {}
Written == UNION {WrittenBy(t) : t \in Threads}
OutRight == out = [d \in Written |-> Result]

Together ==
  /\ launch \in Launches
  /\ passed \in [Threads -> 0 .. Len(Program)]
  /\ \A t, u \in Threads : passed[t] <= passed[u] + 1
  /\ DOMAIN sh = 0 .. ScoreCap + BlockDim - 1
  /\ DOMAIN mine = Threads

BlockInv == Together /\ CellsRight /\ ScoresRight /\ MineRight /\ RowRight /\ OutRight

-----------------------------------------------------------------------------
(* Numbers and sets of them.                                               *)

\* Quotient and remainder are the only ones.
LEMMA OneRemainder ==
  ASSUME NEW a \in Nat, NEW s \in Nat \ {0}, NEW q \in Int, NEW r \in 0 .. s - 1, a = s * q + r
  PROVE  a % s = r /\ a \div s = q
<1>. DEFINE p == a \div s
            m == a % s
<1>1. p \in Int /\ m \in 0 .. s - 1 /\ a = s * p + m
  OBVIOUS
<1>. HIDE DEF p, m
<1>2. p = q
  <2>1. CASE p > q
    <3>1. s * p >= s * q + s
      <4>1. p >= q + 1
        BY <1>1, <2>1
      <4>2. s * p >= s * (q + 1)
        BY <1>1, <4>1
      <4>3. s * (q + 1) = s * q + s
        OBVIOUS
      <4>4. s * p \in Int /\ s * q \in Int
        BY <1>1
      <4>5. QED
        BY <4>2, <4>3, <4>4
    <3>2. s * p \in Int /\ s * q \in Int
      BY <1>1
    <3>3. QED
      BY <1>1, <3>1, <3>2
  <2>2. CASE p < q
    <3>1. s * q >= s * p + s
      <4>1. q >= p + 1
        BY <1>1, <2>2
      <4>2. s * q >= s * (p + 1)
        BY <1>1, <4>1
      <4>3. s * (p + 1) = s * p + s
        BY <1>1
      <4>4. s * p \in Int /\ s * q \in Int
        BY <1>1
      <4>5. QED
        BY <4>2, <4>3, <4>4
    <3>2. s * p \in Int /\ s * q \in Int
      BY <1>1
    <3>3. QED
      BY <1>1, <3>1, <3>2
  <2>3. QED
    BY <1>1, <2>1, <2>2
<1>3. m = r
  BY <1>1, <1>2
<1>4. QED
  BY <1>2, <1>3 DEF p, m

\* A remainder by s is one by 2s, or that less s.
LEMMA DivMod ==
  ASSUME NEW a \in Nat, NEW d \in Nat \ {0}
  PROVE  a \div d \in Nat /\ a % d \in 0 .. d - 1 /\ a = d * (a \div d) + (a % d)
OBVIOUS

LEMMA HalfRemainder ==
  \A u \in Nat, s \in Nat \ {0} : \A t \in 0 .. s - 1 :
    (u % s = t) <=> (u % (2 * s) = t) \/ (u % (2 * s) = t + s)
<1>. SUFFICES ASSUME NEW u \in Nat, NEW s \in Nat \ {0}, NEW t \in 0 .. s - 1
              PROVE  (u % s = t) <=> (u % (2 * s) = t) \/ (u % (2 * s) = t + s)
  OBVIOUS
<1>. DEFINE d == 2 * s
            q == u \div d
            r == u % d
<1>1. d \in Nat \ {0}
  OBVIOUS
<1>2. q \in Int /\ r \in 0 .. d - 1 /\ u = d * q + r
  <2>. HIDE DEF d
  <2>1. QED
    BY <1>1, DivMod
<1>. HIDE DEF q, r
<1>3. (2 * s) * q = s * (2 * q)
  BY <1>2
<1>4. CASE r < s
  <2>1. u % s = r
    <3>1. u = s * (2 * q) + r /\ 2 * q \in Int /\ r \in 0 .. s - 1
      BY <1>2, <1>3, <1>4
    <3>. HIDE DEF r
    <3>2. QED
      BY <3>1, OneRemainder
  <2>2. QED
    BY <1>2, <1>4, <2>1 DEF r
<1>5. CASE r >= s
  <2>1. u % s = r - s
    <3>1. s * (2 * q + 1) = s * (2 * q) + s /\ s * (2 * q) \in Int
      BY <1>2
    <3>2. u = s * (2 * q + 1) + (r - s) /\ 2 * q + 1 \in Int /\ r - s \in 0 .. s - 1
      BY <1>2, <1>3, <1>5, <3>1
    <3>3. QED
      BY <3>2, OneRemainder
  <2>2. QED
    BY <1>2, <1>5, <2>1 DEF r
<1>6. QED
  BY <1>2, <1>4, <1>5

\* A set of naturals has a least element.
LEMMA LeastOf ==
  ASSUME NEW T \in SUBSET Nat, T # {}
  PROVE  \E y \in T : \A z \in T : y <= z
<1>. DEFINE R == {ss \in Nat \X Nat : ss[1] < ss[2]}
<1>1. IsWellFoundedOn(R, Nat)
  <2>1. IsWellFoundedOn(OpToRel(<, Nat), Nat)
    BY NatLessThanWellFounded
  <2>2. QED
    BY <2>1, Zenon DEF OpToRel
<1>2. PICK y \in T : \A z \in T : ~ (<<z, y>> \in R)
  BY <1>1, WFMin, Zenon
<1>3. ASSUME NEW z \in T PROVE y <= z
  <2>1. ~ (<<z, y>> \in R)
    BY <1>2
  <2>2. y \in Nat /\ z \in Nat /\ ~ (z < y)
    BY <2>1
  <2>3. QED
    BY <2>2
<1>4. QED
  BY <1>3

\* A set with 0 that with a number below n has the next has all up to n.
LEMMA UpTo ==
  ASSUME NEW n \in Nat, NEW S, 0 \in S, \A i \in 1 .. n : i - 1 \in S => i \in S
  PROVE  0 .. n \subseteq S
<1>. DEFINE T == (0 .. n) \ S
<1>1. ASSUME T # {} PROVE FALSE
  <2>. T \in SUBSET Nat
    OBVIOUS
  <2>. HIDE DEF T
  <2>1. PICK y \in T : \A z \in T : y <= z
    BY <1>1, LeastOf
  <2>. USE DEF T
  <2>2. y \in 1 .. n
    OBVIOUS
  <2>3. y - 1 \notin T
    BY <2>1, <2>2
  <2>4. QED
    BY <2>2, <2>3
<1>2. QED
  BY <1>1

\* m is the largest of S, or of nothing.
IsTop(m, S) == m \in S \cup {Lowest} /\ \A a \in S \cup {Lowest} : a <= m

\* Numbers below a bound have a largest.
LEMMA TopExists ==
  ASSUME NEW S \in SUBSET (Nat \cup {Lowest}), NEW M \in Nat, \A a \in S : a <= M
  PROVE  IsTop(MaxOf(S), S) /\ MaxOf(S) \in Nat \cup {Lowest}
<1>. DEFINE T == {M - a : a \in S \cup {Lowest}}
<1>1. \A a \in S \cup {Lowest} : a \in Int /\ a <= M
  BY DEF Lowest
<1>0. T \in SUBSET Nat /\ T # {}
  <2>1. \A a \in S \cup {Lowest} : M - a \in Nat
    BY <1>1
  <2>2. M - Lowest \in T
    OBVIOUS
  <2>3. QED
    BY <2>1, <2>2
<1>2. PICK d \in T : \A z \in T : d <= z
  <2>. HIDE DEF T
  <2>1. QED
    BY <1>0, LeastOf
<1>3. PICK m \in S \cup {Lowest} : d = M - m
  BY <1>2
<1>4. ASSUME NEW a \in S \cup {Lowest} PROVE a <= m
  <2>1. M - m <= M - a
    BY <1>2, <1>3
  <2>2. a \in Int /\ m \in Int
    BY <1>1
  <2>3. QED
    BY <2>1, <2>2
<1>5. \E a \in S \cup {Lowest} : \A b \in S \cup {Lowest} : b <= a
  BY <1>4
<1>6. QED
  BY <1>5 DEF MaxOf, IsTop

LEMMA TopIs ==
  ASSUME NEW S \in SUBSET (Nat \cup {Lowest}), NEW m \in Int, IsTop(m, S)
  PROVE  MaxOf(S) = m
<1>1. \A a \in S \cup {Lowest} : a \in Int
  BY DEF Lowest
<1>. DEFINE c == MaxOf(S)
<1>2. c \in S \cup {Lowest} /\ \A b \in S \cup {Lowest} : b <= c
  BY DEF MaxOf, IsTop
<1>. HIDE DEF c
<1>3. m \in S \cup {Lowest} /\ \A b \in S \cup {Lowest} : b <= m
  BY DEF IsTop
<1>4. c <= m /\ m <= c /\ c \in Int
  BY <1>1, <1>2, <1>3
<1>5. QED
  BY <1>4 DEF c

\* The larger of the largest of two sets is the largest of both.
LEMMA TopOfTwo ==
  ASSUME NEW A \in SUBSET Nat, NEW B \in SUBSET Nat, NEW M \in Nat, \A a \in A \cup B : a <= M
  PROVE  MaxOf({MaxOf(A), MaxOf(B)}) = MaxOf(A \cup B)
<1>1. IsTop(MaxOf(A), A) /\ MaxOf(A) \in Nat \cup {Lowest}
  BY TopExists
<1>2. IsTop(MaxOf(B), B) /\ MaxOf(B) \in Nat \cup {Lowest}
  BY TopExists
<1>3. A \cup B \in SUBSET (Nat \cup {Lowest}) /\ \A a \in A \cup B : a <= M
  OBVIOUS
<1>4. IsTop(MaxOf(A \cup B), A \cup B) /\ MaxOf(A \cup B) \in Nat \cup {Lowest}
  BY <1>3, TopExists
<1>. DEFINE a == MaxOf(A)
            b == MaxOf(B)
            c == MaxOf(A \cup B)
<1>. HIDE DEF a, b, c
<1>5. a \in Int /\ b \in Int /\ c \in Int /\ {a, b} \in SUBSET (Nat \cup {Lowest})
  BY <1>1, <1>2, <1>4 DEF a, b, c, Lowest
<1>6. IsTop(c, {a, b})
  BY <1>1, <1>2, <1>4, <1>5 DEF IsTop, a, b, c, Lowest
<1>7. MaxOf({a, b}) = c
  BY <1>5, <1>6, TopIs
<1>8. QED
  BY <1>7 DEF a, b, c

\* The sum of two sets with nothing in common.
LEMMA SumOfTwo ==
  ASSUME NEW A, NEW B, A \cap B = {}
  PROVE  SetToBag(A) (+) SetToBag(B) = SetToBag(A \cup B)
BY DEF SetToBag, (+)

-----------------------------------------------------------------------------
(* The tree.                                                               *)

\* The width begins at all threads, halves each round and ends at one.
LEMMA Widths ==
  /\ Rounds \in Nat /\ Width(0) = BlockDim /\ Width(Rounds) = 1
  /\ \A i \in 0 .. Rounds : Width(i) \in Nat \ {0}
  /\ \A i \in 1 .. Rounds : Width(i) = Strides[i] /\ Width(i - 1) = 2 * Width(i)
<1>1. Strides \in Seq(Nat) /\ Rounds \in Nat /\ DOMAIN Strides = 1 .. Rounds
  BY BlockAssumption DEF Rounds
<1>2. \A i \in 1 .. Rounds : Strides[i] \in Nat
  BY <1>1
<1>3. ASSUME NEW i \in 1 .. Rounds
      PROVE  Width(i) = Strides[i] /\ Width(i - 1) = 2 * Width(i)
  <2>1. 2 * Strides[i] = IF i = 1 THEN BlockDim ELSE Strides[i - 1]
    BY <1>1, BlockAssumption
  <2>2. i # 0 /\ (i - 1 = 0 <=> i = 1)
    BY <1>1
  <2>3. QED
    BY <2>1, <2>2 DEF Width
<1>. DEFINE S == {i \in 0 .. Rounds : Width(i) \in Nat \ {0}}
<1>4. 0 \in S
  BY <1>1, BlockAssumption DEF Width
<1>5. ASSUME NEW i \in 1 .. Rounds, i - 1 \in S PROVE i \in S
  BY <1>2, <1>3, <1>5
<1>6. 0 .. Rounds \subseteq S
  <2>. HIDE DEF S
  <2>1. QED
    BY <1>1, <1>4, <1>5, UpTo
<1>7. Width(Rounds) = 1
  <2>1. CASE Strides = <<>>
    BY <2>1, BlockAssumption DEF Width, Rounds
  <2>2. CASE Strides # <<>>
    <3>1. Rounds # 0
      BY <1>1, <2>2 DEF Rounds
    <3>2. QED
      BY <2>2, <3>1, BlockAssumption DEF Width, Rounds
  <2>3. QED
    BY <2>1, <2>2
<1>8. QED
  BY <1>1, <1>3, <1>6, <1>7 DEF Width

\* A round's cells are threads'.
LEMMA WidthBound == \A i \in 1 .. Rounds : 2 * Strides[i] <= BlockDim
<1>. DEFINE S == {n \in Nat : n <= Rounds => Width(n) <= BlockDim}
<1>1. /\ Rounds \in Nat /\ Width(0) = BlockDim /\ BlockDim \in Nat
      /\ \A i \in 1 .. Rounds : Width(i) = Strides[i] /\ Width(i - 1) = 2 * Width(i) /\ Width(i) \in Nat
  BY Widths, BlockAssumption
<1>2. 0 \in S
  BY <1>1
<1>3. ASSUME NEW n \in 1 .. Rounds, n - 1 \in S PROVE n \in S
  BY <1>1, <1>3
<1>. HIDE DEF S
<1>4. 0 .. Rounds \subseteq S
  BY <1>1, <1>2, <1>3, UpTo
<1>5. ASSUME NEW i \in 1 .. Rounds PROVE 2 * Strides[i] <= BlockDim
  <2>1. i - 1 \in 0 .. Rounds
    BY <1>1
  <2>2. Width(i - 1) <= BlockDim
    BY <1>1, <1>4, <2>1 DEF S
  <2>3. QED
    BY <1>1, <2>2
<1>6. QED
  BY <1>5

\* Each thread is a group of its own at first, and all are thread 0's at last.
LEMMA Groups ==
  /\ \A t \in Threads : t \in Nat /\ Group(t, BlockDim) = {t}
  /\ Group(0, 1) = Threads
  /\ 0 \in Threads
<1>1. ASSUME NEW t \in Threads PROVE t \in Nat /\ t % BlockDim = t
  <2>1. t \in 0 .. BlockDim - 1 /\ BlockDim \in Nat \ {0}
    BY BlockAssumption DEF Threads
  <2>2. t \in Nat /\ t = BlockDim * 0 + t
    BY <2>1
  <2>3. QED
    BY <2>1, <2>2, OneRemainder
<1>2. \A t \in Threads : t % 1 = 0
  BY <1>1
<1>3. QED
  BY <1>1, <1>2, BlockAssumption DEF Group, Threads

\* A cell's threads are those of the two cells it was combined from.
LEMMA GroupHalves ==
  ASSUME NEW s \in Nat \ {0}, NEW t \in 0 .. s - 1
  PROVE  /\ Group(t, s) = Group(t, 2 * s) \cup Group(t + s, 2 * s)
         /\ Group(t, 2 * s) \cap Group(t + s, 2 * s) = {}
<1>1. ASSUME NEW u \in Threads PROVE (u % s = t) <=> (u % (2 * s) = t) \/ (u % (2 * s) = t + s)
  <2>. DEFINE P(a, b, c) == (a % b = c) <=> (a % (2 * b) = c) \/ (a % (2 * b) = c + b)
  <2>1. u \in Nat
    BY Groups
  <2>2. \A a \in Nat, b \in Nat \ {0} : \A c \in 0 .. b - 1 : P(a, b, c)
    BY HalfRemainder, Zenon
  <2>. HIDE DEF P
  <2>3. P(u, s, t)
    BY <2>1, <2>2
  <2>4. QED
    BY <2>3 DEF P
<1>2. t # t + s
  OBVIOUS
<1>3. QED
  BY <1>1, <1>2 DEF Group

\* The numbers of a launch.
LEMMA OfLaunch ==
  ASSUME launch \in Launches
  PROVE  /\ Kernel \in {"attention", "w4", "norm"}
         /\ Kernel = "attention" =>
              /\ launch.len \in 1 .. ScoreCap /\ launch.window \in Nat /\ launch.headDim \in Nat
              /\ Count \in 0 .. ScoreCap /\ First \in Nat /\ First + Count = launch.len
              /\ \A i \in 0 .. Count - 1 : Score(i) \in Nat
         /\ Kernel = "w4" =>
              /\ launch.version \in Nat /\ launch.k \in Nat \ {0} /\ launch.group \in Nat \ {0}
              /\ launch.k % 2 = 0 /\ launch.group % 2 = 0
         /\ Kernel = "norm" => launch.hidden \in Nat \ {0} /\ launch.fused \in BOOLEAN
<1>1. Kernel \in {"attention", "w4", "norm"}
  BY LaunchAssumption DEF Kernel
<1>2. CASE Kernel = "attention"
  <2>1. /\ launch.len \in 1 .. ScoreCap /\ launch.window \in Nat /\ launch.headDim \in Nat
        /\ launch.score \in [1 .. launch.len -> Nat]
    BY <1>2, LaunchAssumption DEF Kernel
  <2>2. First \in Nat /\ First + Count = launch.len /\ Count \in 0 .. ScoreCap
    BY <2>1, BlockAssumption DEF Count, First
  <2>3. \A i \in 0 .. Count - 1 : First + i + 1 \in 1 .. launch.len
    BY <2>1, <2>2, BlockAssumption
  <2>4. QED
    BY <1>2, <2>1, <2>2, <2>3 DEF Score
<1>3. CASE Kernel = "w4"
  BY <1>3, LaunchAssumption DEF Kernel
<1>4. CASE Kernel = "norm"
  BY <1>4, LaunchAssumption DEF Kernel
<1>5. QED
  BY <1>1, <1>2, <1>3, <1>4

\* A stripe is the elements its thread owns.
LEMMA Owner ==
  ASSUME NEW n \in Nat
  PROVE  /\ \A i \in 0 .. n - 1 : i % BlockDim \in Threads /\ i \in Stripe(i % BlockDim, n)
         /\ \A t \in Threads : \A i \in Stripe(t, n) : i \in 0 .. n - 1 /\ i % BlockDim = t
<1>1. BlockDim \in Nat \ {0}
  BY BlockAssumption
<1>2. \A i \in 0 .. n - 1 : i % BlockDim \in 0 .. BlockDim - 1
  BY <1>1
<1>3. QED
  BY <1>2 DEF Stripe, Threads

\* The scores have a bound.
LEMMA ScoresBounded ==
  ASSUME launch \in Launches, Kernel = "attention"
  PROVE  \E M \in Nat : \A i \in 0 .. Count - 1 : Score(i) <= M
<1>1. Count \in Nat /\ \A i \in 0 .. Count - 1 : Score(i) \in Nat
  BY OfLaunch, BlockAssumption
<1>. DEFINE S == {n \in 0 .. Count : \E M \in Nat : \A i \in 0 .. n - 1 : Score(i) <= M}
<1>2. 0 \in S
  BY <1>1
<1>3. ASSUME NEW n \in 1 .. Count, n - 1 \in S PROVE n \in S
  <2>1. PICK M \in Nat : \A i \in 0 .. n - 2 : Score(i) <= M
    BY <1>1, <1>3
  <2>2. Score(n - 1) \in Nat
    BY <1>1
  <2>3. PICK K \in Nat : K >= M /\ K >= Score(n - 1)
    <3>1. CASE M >= Score(n - 1)
      BY <2>2, <3>1
    <3>2. CASE Score(n - 1) >= M
      BY <2>2, <3>2
    <3>3. QED
      BY <2>1, <2>2, <3>1, <3>2
  <2>4. ASSUME NEW i \in 0 .. n - 1 PROVE Score(i) <= K
    <3>1. Score(i) \in Nat
      BY <1>1
    <3>2. CASE i = n - 1
      BY <2>3, <3>2
    <3>3. CASE i # n - 1
      <4>1. Score(i) <= M
        BY <1>1, <2>1, <3>3
      <4>2. QED
        BY <2>3, <3>1, <4>1
    <3>4. QED
      BY <3>2, <3>3
  <2>5. QED
    BY <2>4
<1>4. Count \in S
  <2>. HIDE DEF S
  <2>1. 0 .. Count \subseteq S
    BY <1>1, <1>2, <1>3, UpTo
  <2>2. QED
    BY <1>1, <2>1
<1>5. QED
  BY <1>4

-----------------------------------------------------------------------------
(* The parts of a sum.                                                     *)

\* The columns of a multiple of m share a group that is one too.
LEMMA SameGroup ==
  ASSUME NEW m \in {2, 8}, NEW g \in Nat \ {0}, g % m = 0, NEW w \in Nat, NEW c \in 0 .. m - 1
  PROVE  (m * w + c) \div g = (m * w) \div g
<1>. DEFINE h == g \div m
            q == w \div h
            r == w % h
<1>1. h \in Nat \ {0} /\ g = m * h
  OBVIOUS
<1>2. q \in Nat /\ r \in 0 .. h - 1 /\ w = h * q + r
  <2>. HIDE DEF h
  <2>1. QED
    BY <1>1, DivMod
<1>. HIDE DEF h, q, r
<1>3. h * q \in Int /\ g * q = m * (h * q)
  BY <1>1, <1>2
<1>4. ASSUME NEW d \in 0 .. m - 1 PROVE (m * w + d) \div g = q
  <2>1. m * w + d = g * q + (m * r + d)
    BY <1>1, <1>2, <1>3
  <2>2. m * r + d \in 0 .. g - 1
    BY <1>1, <1>2
  <2>3. m * w + d \in Nat
    OBVIOUS
  <2>4. QED
    BY <1>1, <1>2, <2>1, <2>2, <2>3, OneRemainder
<1>5. 0 \in 0 .. m - 1 /\ m * w + 0 = m * w
  OBVIOUS
<1>6. QED
  BY <1>4, <1>5

\* The columns thread t adds up.
Columns(t) ==
  {j \in 0 .. launch.k - 1 : (IF UseV2 THEN j \div 8 ELSE j \div 2) % BlockDim = t}

\* What a thread adds up is its columns, with their own scale, in both kernels.
LEMMA W4Columns ==
  ASSUME launch \in Launches, Kernel = "w4", NEW t \in Threads
  PROVE  W4Terms(t) = {Product(j, j \div launch.group, j) : j \in Columns(t)}
<1>. DEFINE k == launch.k
            g == launch.group
            P(j) == Product(j, j \div g, j)
<1>1. k \in Nat \ {0} /\ g \in Nat \ {0} /\ k % 2 = 0 /\ g % 2 = 0
  BY OfLaunch
<1>2. CASE UseV2
  <2>1. k % 8 = 0 /\ g % 8 = 0
    BY <1>2 DEF UseV2
  <2>2. ASSUME NEW w \in Nat, NEW c \in 0 .. 7 PROVE (8 * w) \div g = (8 * w + c) \div g
    BY <1>1, <2>1, <2>2, SameGroup
  <2>3. ASSUME NEW w \in Nat PROVE WordTerms(w) = {P(j) : j \in 8 * w .. 8 * w + 7}
    <3>. DEFINE s == (8 * w) \div g
    <3>1. WordTerms(w) = UNION {{Product(8 * w + 2 * b, s, 8 * w + 2 * b),
                                 Product(8 * w + 2 * b + 1, s, 8 * w + 2 * b + 1)} : b \in 0 .. 3}
      <4>1. \A b \in 0 .. 3 : Packed(4 * w + b).low = 8 * w + 2 * b /\ Packed(4 * w + b).high = 8 * w + 2 * b + 1
        BY DEF Packed
      <4>2. QED
        BY <4>1 DEF WordTerms
    <3>2. \A c \in 0 .. 7 : P(8 * w + c) = Product(8 * w + c, s, 8 * w + c)
      BY <2>2
    <3>. HIDE DEF P, s
    <3>3. ASSUME NEW y \in WordTerms(w) PROVE y \in {P(j) : j \in 8 * w .. 8 * w + 7}
      <4>1. PICK b \in 0 .. 3 : y \in {Product(8 * w + 2 * b, s, 8 * w + 2 * b),
                                       Product(8 * w + 2 * b + 1, s, 8 * w + 2 * b + 1)}
        BY <3>1
      <4>2. PICK c \in 0 .. 7 : y = Product(8 * w + c, s, 8 * w + c)
        <5>1. 2 * b \in 0 .. 7 /\ 2 * b + 1 \in 0 .. 7 /\ 8 * w + 2 * b + 1 = 8 * w + (2 * b + 1)
          OBVIOUS
        <5>2. QED
          BY <4>1, <5>1
      <4>3. y = P(8 * w + c) /\ 8 * w + c \in 8 * w .. 8 * w + 7
        BY <3>2, <4>2
      <4>4. QED
        BY <4>3
    <3>4. ASSUME NEW j \in 8 * w .. 8 * w + 7 PROVE P(j) \in WordTerms(w)
      <4>. DEFINE c == j - 8 * w
                  b == c \div 2
      <4>1. c \in 0 .. 7 /\ b \in 0 .. 3 /\ (c = 2 * b \/ c = 2 * b + 1) /\ j = 8 * w + c
        OBVIOUS
      <4>. HIDE DEF c, b
      <4>2. P(j) = Product(j, s, j)
        BY <3>2, <4>1
      <4>3. j = 8 * w + 2 * b \/ j = 8 * w + 2 * b + 1
        BY <4>1
      <4>4. QED
        BY <3>1, <4>1, <4>2, <4>3
    <3>5. QED
      BY <3>3, <3>4
  <2>4. W4Terms(t) = UNION {WordTerms(w) : w \in Stripe(t, k \div 8)}
    BY <1>2 DEF W4Terms
  <2>5. ASSUME NEW w \in Stripe(t, k \div 8), NEW j \in 8 * w .. 8 * w + 7 PROVE j \in Columns(t)
    <3>1. w \in 0 .. (k \div 8) - 1 /\ w % BlockDim = t
      BY DEF Stripe
    <3>2. j \in 0 .. k - 1 /\ j \div 8 = w
      BY <1>1, <2>1, <3>1
    <3>3. QED
      BY <1>2, <3>1, <3>2 DEF Columns
  <2>6. ASSUME NEW j \in Columns(t)
        PROVE  j \div 8 \in Nat /\ j \div 8 \in Stripe(t, k \div 8) /\ j \in 8 * (j \div 8) .. 8 * (j \div 8) + 7
    <3>1. j \in 0 .. k - 1 /\ (j \div 8) % BlockDim = t
      BY <1>2 DEF Columns
    <3>2. j \div 8 \in 0 .. (k \div 8) - 1
      BY <1>1, <2>1, <3>1
    <3>3. QED
      BY <3>1, <3>2 DEF Stripe
  <2>7. \A w \in Stripe(t, k \div 8) : w \in Nat
    BY DEF Stripe
  <2>. HIDE DEF P, k, g
  <2>8. W4Terms(t) = {P(j) : j \in Columns(t)}
    BY <2>3, <2>4, <2>5, <2>6, <2>7
  <2>9. QED
    BY <2>8 DEF P, g
<1>3. CASE ~ UseV2
  <2>1. ASSUME NEW b \in Nat PROVE ByteTerms(b) = {P(2 * b), P(2 * b + 1)}
    <3>1. (2 * b + 1) \div g = (2 * b) \div g
      BY <1>1, SameGroup
    <3>2. QED
      BY <3>1 DEF ByteTerms, Packed
  <2>2. W4Terms(t) = UNION {ByteTerms(b) : b \in Stripe(t, k \div 2)}
    BY <1>3 DEF W4Terms
  <2>3. ASSUME NEW b \in Stripe(t, k \div 2)
        PROVE  b \in Nat /\ 2 * b \in Columns(t) /\ 2 * b + 1 \in Columns(t)
    <3>1. b \in 0 .. (k \div 2) - 1 /\ b % BlockDim = t
      BY DEF Stripe
    <3>2. 2 * b \in 0 .. k - 1 /\ 2 * b + 1 \in 0 .. k - 1 /\ (2 * b) \div 2 = b /\ (2 * b + 1) \div 2 = b
      BY <1>1, <3>1
    <3>3. QED
      BY <1>3, <3>1, <3>2 DEF Columns
  <2>4. ASSUME NEW j \in Columns(t)
        PROVE  \E b \in Stripe(t, k \div 2) : j = 2 * b \/ j = 2 * b + 1
    <3>1. j \in 0 .. k - 1 /\ (j \div 2) % BlockDim = t
      BY <1>3 DEF Columns
    <3>2. j \div 2 \in 0 .. (k \div 2) - 1 /\ (j = 2 * (j \div 2) \/ j = 2 * (j \div 2) + 1)
      BY <1>1, <3>1
    <3>3. QED
      BY <3>1, <3>2 DEF Stripe
  <2>. HIDE DEF P, k, g
  <2>5. W4Terms(t) = {P(j) : j \in Columns(t)}
    BY <2>1, <2>2, <2>3, <2>4
  <2>6. QED
    BY <2>5 DEF P, g
<1>4. QED
  BY <1>2, <1>3

\* Each column has its thread.
LEMMA ColumnOwner ==
  ASSUME launch \in Launches, Kernel = "w4"
  PROVE  \A j \in 0 .. launch.k - 1 : \E t \in Threads : j \in Columns(t)
<1>1. BlockDim \in Nat \ {0} /\ launch.k \in Nat
  BY OfLaunch, BlockAssumption
<1>2. ASSUME NEW j \in 0 .. launch.k - 1
      PROVE  (IF UseV2 THEN j \div 8 ELSE j \div 2) % BlockDim \in Threads
  <2>1. j \div 8 \in Nat /\ j \div 2 \in Nat
    BY <1>1
  <2>2. QED
    BY <1>1, <2>1 DEF Threads
<1>3. QED
  BY <1>2 DEF Columns

-----------------------------------------------------------------------------
(* What the threads put together.                                          *)

\* No term is in the parts of two threads.
LEMMA PartsApart ==
  ASSUME launch \in Launches, NEW t \in Threads, NEW u \in Threads, t # u
  PROVE  Part("sum", t) \cap Part("sum", u) = {}
<1>1. CASE Kernel = "attention"
  <2>. DEFINE E(i) == Exp(Score(i), TopScore)
  <2>1. /\ Part("sum", t) = {Term(First + i, E(i)) : i \in Stripe(t, Count)}
        /\ Part("sum", u) = {Term(First + i, E(i)) : i \in Stripe(u, Count)}
    BY <1>1 DEF Part
  <2>2. Count \in Nat /\ First \in Nat
    BY <1>1, OfLaunch, BlockAssumption
  <2>3. ASSUME NEW i \in Stripe(t, Count), NEW j \in Stripe(u, Count)
        PROVE  Term(First + i, E(i)) # Term(First + j, E(j))
    <3>1. i \in Int /\ j \in Int /\ i # j
      BY <2>2, Owner
    <3>2. First + i # First + j
      BY <2>2, <3>1
    <3>. HIDE DEF E
    <3>3. QED
      BY <3>2 DEF Term
  <2>. HIDE DEF E
  <2>4. QED
    BY <2>1, <2>3
<1>2. CASE Kernel = "w4"
  <2>1. Columns(t) \cap Columns(u) = {}
    BY DEF Columns
  <2>2. Part("sum", t) = W4Terms(t) /\ Part("sum", u) = W4Terms(u)
    BY <1>2 DEF Part
  <2>3. QED
    BY <1>2, <2>1, <2>2, W4Columns DEF Product
<1>3. CASE Kernel = "norm"
  <2>1. launch.hidden \in Nat
    BY <1>3, OfLaunch
  <2>2. Stripe(t, launch.hidden) \cap Stripe(u, launch.hidden) = {}
    BY DEF Stripe
  <2>3. QED
    BY <1>3, <2>2 DEF Part, Square
<1>4. QED
  BY <1>1, <1>2, <1>3, OfLaunch

\* What all threads put together.
LEMMA AllParts ==
  ASSUME launch \in Launches
  PROVE  /\ Kernel = "attention" =>
              /\ PartsOf("max", Threads) = {Score(i) : i \in 0 .. Count - 1}
              /\ PartsOf("sum", Threads) = {Term(First + i, Exp(Score(i), TopScore)) : i \in 0 .. Count - 1}
         /\ Kernel = "w4" =>
              PartsOf("sum", Threads) = {Product(j, j \div launch.group, j) : j \in 0 .. launch.k - 1}
         /\ Kernel = "norm" =>
              PartsOf("sum", Threads) = {Square(j, Row) : j \in 0 .. launch.hidden - 1}
<1>1. CASE Kernel = "attention"
  <2>1. Count \in Nat
    BY <1>1, OfLaunch, BlockAssumption
  <2>2. \A i \in 0 .. Count - 1 : \E t \in Threads : i \in Stripe(t, Count)
    BY <2>1, Owner
  <2>3. \A t \in Threads : \A i \in Stripe(t, Count) : i \in 0 .. Count - 1
    BY <2>1, Owner
  <2>4. PartsOf("max", Threads) = {Score(i) : i \in 0 .. Count - 1}
    <3>1. PartsOf("max", Threads) = UNION {{Score(i) : i \in Stripe(t, Count)} : t \in Threads}
      BY DEF PartsOf, Part
    <3>2. QED
      BY <2>2, <2>3, <3>1
  <2>5. PartsOf("sum", Threads) = {Term(First + i, Exp(Score(i), TopScore)) : i \in 0 .. Count - 1}
    <3>. DEFINE F(i) == Term(First + i, Exp(Score(i), TopScore))
    <3>1. PartsOf("sum", Threads) = UNION {{F(i) : i \in Stripe(t, Count)} : t \in Threads}
      BY <1>1 DEF PartsOf, Part
    <3>. HIDE DEF F
    <3>2. PartsOf("sum", Threads) = {F(i) : i \in 0 .. Count - 1}
      BY <2>2, <2>3, <3>1
    <3>3. QED
      BY <3>2 DEF F
  <2>6. QED
    BY <1>1, <2>4, <2>5
<1>2. CASE Kernel = "w4"
  <2>. DEFINE P(j) == Product(j, j \div launch.group, j)
  <2>1. \A t \in Threads : Part("sum", t) = {P(j) : j \in Columns(t)}
    BY <1>2, W4Columns DEF Part
  <2>. HIDE DEF P
  <2>2. \A t \in Threads : Columns(t) \subseteq 0 .. launch.k - 1
    BY DEF Columns
  <2>3. PartsOf("sum", Threads) = {P(j) : j \in 0 .. launch.k - 1}
    BY <1>2, <2>1, <2>2, ColumnOwner DEF PartsOf
  <2>4. QED
    BY <1>2, <2>3 DEF P
<1>3. CASE Kernel = "norm"
  <2>1. launch.hidden \in Nat
    BY <1>3, OfLaunch
  <2>2. \A i \in 0 .. launch.hidden - 1 : \E t \in Threads : i \in Stripe(t, launch.hidden)
    BY <2>1, Owner
  <2>3. \A t \in Threads : \A i \in Stripe(t, launch.hidden) : i \in 0 .. launch.hidden - 1
    BY <2>1, Owner
  <2>4. PartsOf("sum", Threads) = UNION {{Square(i, Row) : i \in Stripe(t, launch.hidden)} : t \in Threads}
    BY <1>3 DEF PartsOf, Part
  <2>5. QED
    BY <1>3, <2>2, <2>3, <2>4
<1>4. QED
  BY <1>1, <1>2, <1>3, OfLaunch

\* A round of the tree adds the group of the upper half to that of the lower.
LEMMA Combines ==
  ASSUME launch \in Launches, NEW op \in {"max", "sum"}, op = "max" => Kernel = "attention",
         NEW s \in Nat \ {0}, NEW t \in 0 .. s - 1
  PROVE  Combined(op, Tally(op, t, 2 * s), Tally(op, t + s, 2 * s)) = Tally(op, t, s)
<1>. DEFINE G == Group(t, 2 * s)
            H == Group(t + s, 2 * s)
            A == PartsOf(op, G)
            B == PartsOf(op, H)
<1>1. Group(t, s) = G \cup H /\ G \cap H = {} /\ G \subseteq Threads /\ H \subseteq Threads
  BY GroupHalves DEF Group
<1>. HIDE DEF G, H
<1>2. PartsOf(op, G \cup H) = A \cup B
  BY DEF PartsOf
<1>3. CASE op = "max"
  <2>1. Kernel = "attention"
    BY <1>3
  <2>2. PICK M \in Nat : \A i \in 0 .. Count - 1 : Score(i) <= M
    BY <2>1, ScoresBounded
  <2>3. \A i \in 0 .. Count - 1 : Score(i) \in Nat
    BY <2>1, OfLaunch
  <2>4. A \cup B \subseteq {Score(i) : i \in 0 .. Count - 1}
    <3>1. A \cup B \subseteq PartsOf("max", Threads)
      BY <1>1, <1>3 DEF PartsOf
    <3>2. QED
      BY <2>1, <3>1, AllParts
  <2>5. A \in SUBSET Nat /\ B \in SUBSET Nat /\ \A a \in A \cup B : a <= M
    BY <2>2, <2>3, <2>4
  <2>. HIDE DEF A, B
  <2>6. MaxOf({MaxOf(A), MaxOf(B)}) = MaxOf(A \cup B)
    BY <2>5, TopOfTwo
  <2>7. Tally(op, t, 2 * s) = MaxOf(A) /\ Tally(op, t + s, 2 * s) = MaxOf(B) /\ Tally(op, t, s) = MaxOf(A \cup B)
    BY <1>1, <1>2, <1>3 DEF Tally, Of, A, B, G, H
  <2>8. QED
    BY <1>3, <2>6, <2>7 DEF Combined
<1>4. CASE op = "sum"
  <2>1. A \cap B = {}
    <3>1. \A v \in G, w \in H : v \in Threads /\ w \in Threads /\ v # w
      BY <1>1
    <3>2. \A v \in G, w \in H : Part("sum", v) \cap Part("sum", w) = {}
      BY <3>1, PartsApart
    <3>3. QED
      BY <1>4, <3>2 DEF PartsOf
  <2>. HIDE DEF A, B
  <2>2. SetToBag(A) (+) SetToBag(B) = SetToBag(A \cup B)
    BY <2>1, SumOfTwo
  <2>3. /\ Tally(op, t, 2 * s) = SetToBag(A) /\ Tally(op, t + s, 2 * s) = SetToBag(B)
        /\ Tally(op, t, s) = SetToBag(A \cup B)
    BY <1>1, <1>2, <1>4 DEF Tally, Of, A, B, G, H
  <2>4. QED
    BY <1>4, <2>2, <2>3 DEF Combined
<1>5. QED
  BY <1>3, <1>4

\* The tree begins with each thread's own part and ends with all.
LEMMA TallyEnds ==
  ASSUME NEW op
  PROVE  /\ \A t \in Threads : Tally(op, t, BlockDim) = Of(op, Part(op, t))
         /\ Tally(op, 0, 1) = Of(op, PartsOf(op, Threads))
<1>1. ASSUME NEW t \in Threads PROVE Tally(op, t, BlockDim) = Of(op, Part(op, t))
  <2>1. PartsOf(op, {t}) = Part(op, t)
    BY DEF PartsOf
  <2>2. QED
    BY <2>1, Groups DEF Tally
<1>2. QED
  BY <1>1, Groups DEF Tally

-----------------------------------------------------------------------------
(* The stages.                                                             *)

\* Where the stages of two programs are when one follows the other.
LEMMA Joined ==
  ASSUME NEW a \in Seq(Stages), NEW b \in Seq(Stages)
  PROVE  /\ a \o b \in Seq(Stages) /\ Len(a \o b) = Len(a) + Len(b)
         /\ \A i \in 1 .. Len(a) : (a \o b)[i] = a[i]
         /\ \A i \in 1 .. Len(b) : (a \o b)[Len(a) + i] = b[i]
OBVIOUS

\* The stage of the i-th round.
Round(op, i) == [do |-> "reduce", op |-> op, s |-> Strides[i]]

\* A tree is its rounds.
LEMMA Trees ==
  ASSUME NEW op \in {"max", "sum"}
  PROVE  /\ Tree(op) \in Seq(Stages) /\ Len(Tree(op)) = Rounds
         /\ \A i \in 1 .. Rounds : Tree(op)[i] = Round(op, i)
<1>1. Strides \in Seq(Nat) /\ DOMAIN Strides = 1 .. Rounds
  BY BlockAssumption DEF Rounds
<1>2. \A i \in 1 .. Rounds : Round(op, i) \in Stages
  <2>1. \A i \in DOMAIN Strides : Strides[i] \in Nat
    <3>1. Strides \in Seq(Nat)
      BY <1>1
    <3>2. QED
      BY <3>1
  <2>2. QED
    BY <1>1, <2>1 DEF Stages, Round
<1>3. Tree(op) = [i \in 1 .. Rounds |-> Round(op, i)]
  BY <1>1 DEF Tree, Round
<1>. HIDE DEF Stages
<1>4. Rounds \in Nat
  BY <1>1 DEF Rounds
<1>5. QED
  BY <1>2, <1>3, <1>4

\* A stage alone.
LEMMA OneStage ==
  ASSUME NEW name \in {"load", "read", "exp", "write"}
  PROVE  Stage(name) \in Seq(Stages) /\ Len(Stage(name)) = 1 /\ Stage(name)[1] = [do |-> name]
BY DEF Stage, Stages

\* One more stage, and a tree more.
LEMMA ThenStage ==
  ASSUME NEW a \in Seq(Stages), NEW name \in {"load", "read", "exp", "write"}
  PROVE  /\ a \o Stage(name) \in Seq(Stages) /\ Len(a \o Stage(name)) = Len(a) + 1
         /\ \A i \in 1 .. Len(a) : (a \o Stage(name))[i] = a[i]
         /\ (a \o Stage(name))[Len(a) + 1] = [do |-> name]
<1>. DEFINE b == Stage(name)
<1>1. b \in Seq(Stages) /\ Len(b) = 1 /\ b[1] = [do |-> name]
  BY OneStage
<1>. HIDE DEF b
<1>2. /\ a \o b \in Seq(Stages) /\ Len(a \o b) = Len(a) + Len(b)
      /\ \A i \in 1 .. Len(a) : (a \o b)[i] = a[i]
      /\ \A i \in 1 .. Len(b) : (a \o b)[Len(a) + i] = b[i]
  BY <1>1, Joined, Zenon
<1>3. 1 \in 1 .. Len(b)
  BY <1>1
<1>4. Len(a \o b) = Len(a) + 1 /\ (a \o b)[Len(a) + 1] = [do |-> name]
  BY <1>1, <1>2, <1>3
<1>5. QED
  BY <1>2, <1>4 DEF b

LEMMA ThenTree ==
  ASSUME NEW a \in Seq(Stages), NEW op \in {"max", "sum"}
  PROVE  /\ a \o Tree(op) \in Seq(Stages) /\ Len(a \o Tree(op)) = Len(a) + Rounds
         /\ \A i \in 1 .. Len(a) : (a \o Tree(op))[i] = a[i]
         /\ \A i \in 1 .. Rounds : (a \o Tree(op))[Len(a) + i] = Round(op, i)
<1>. DEFINE b == Tree(op)
<1>1. b \in Seq(Stages) /\ Len(b) = Rounds /\ \A i \in 1 .. Rounds : b[i] = Round(op, i)
  BY Trees
<1>. HIDE DEF b
<1>2. /\ a \o b \in Seq(Stages) /\ Len(a \o b) = Len(a) + Len(b)
      /\ \A i \in 1 .. Len(a) : (a \o b)[i] = a[i]
      /\ \A i \in 1 .. Len(b) : (a \o b)[Len(a) + i] = b[i]
  BY <1>1, Joined, Zenon
<1>3. QED
  BY <1>1, <1>2 DEF b

\* The program of a product or a norm.
LEMMA ShortProgram ==
  ASSUME Kernel # "attention"
  PROVE  /\ Len(Program) = Rounds + 2
         /\ Program[1] = [do |-> "load"]
         /\ \A i \in 1 .. Rounds : Program[i + 1] = Round("sum", i)
         /\ Program[Rounds + 2] = [do |-> "write"]
<1>. DEFINE R == Rounds
            a == Stage("load")
            b == a \o Tree("sum")
            c == b \o Stage("write")
<1>1. Program = c /\ R \in Nat
  BY Widths DEF Program
<1>2. a \in Seq(Stages) /\ Len(a) = 1 /\ a[1] = [do |-> "load"]
  BY OneStage
<1>. HIDE DEF a
<1>3. /\ b \in Seq(Stages) /\ Len(b) = 1 + R
      /\ \A i \in 1 .. 1 : b[i] = a[i]
      /\ \A i \in 1 .. R : b[1 + i] = Round("sum", i)
  <2>1. /\ b \in Seq(Stages) /\ Len(b) = Len(a) + R
        /\ \A i \in 1 .. Len(a) : b[i] = a[i]
        /\ \A i \in 1 .. R : b[Len(a) + i] = Round("sum", i)
    BY <1>2, ThenTree
  <2>. HIDE DEF b, R
  <2>2. QED
    BY <1>2, <2>1
<1>. HIDE DEF b
<1>4. /\ Len(c) = 1 + R + 1
      /\ \A i \in 1 .. 1 + R : c[i] = b[i]
      /\ c[1 + R + 1] = [do |-> "write"]
  <2>1. /\ Len(c) = Len(b) + 1
        /\ \A i \in 1 .. Len(b) : c[i] = b[i]
        /\ c[Len(b) + 1] = [do |-> "write"]
    BY <1>3, ThenStage
  <2>. HIDE DEF c, R
  <2>2. QED
    BY <1>3, <2>1
<1>. HIDE DEF c, R
<1>5. c[1] = [do |-> "load"]
  BY <1>1, <1>2, <1>3, <1>4
<1>6. ASSUME NEW i \in 1 .. R PROVE c[i + 1] = Round("sum", i)
  <2>1. i + 1 = 1 + i /\ i + 1 \in 1 .. 1 + R
    BY <1>1
  <2>2. QED
    BY <1>3, <1>4, <2>1
<1>7. Len(c) = R + 2 /\ c[R + 2] = [do |-> "write"]
  <2>1. 1 + R + 1 = R + 2
    BY <1>1
  <2>2. QED
    BY <1>4, <2>1
<1>8. QED
  BY <1>1, <1>5, <1>6, <1>7 DEF R

\* That of attention: two trees, with a read after each.
LEMMA LongProgram ==
  ASSUME Kernel = "attention"
  PROVE  /\ Len(Program) = 2 * Rounds + 5
         /\ Program[1] = [do |-> "load"]
         /\ \A i \in 1 .. Rounds : Program[i + 1] = Round("max", i)
         /\ Program[Rounds + 2] = [do |-> "read"]
         /\ Program[Rounds + 3] = [do |-> "exp"]
         /\ \A i \in 1 .. Rounds : Program[Rounds + 3 + i] = Round("sum", i)
         /\ Program[2 * Rounds + 4] = [do |-> "read"]
         /\ Program[2 * Rounds + 5] = [do |-> "write"]
<1>. DEFINE R == Rounds
            a == Stage("load") \o Tree("max")
            b == a \o Stage("read")
            c == b \o Stage("exp")
            d == c \o Tree("sum")
            e == d \o Stage("read")
            f == e \o Stage("write")
<1>1. Program = f /\ R \in Nat
  BY Widths DEF Program
<1>2. /\ a \in Seq(Stages) /\ Len(a) = R + 1
      /\ a[1] = [do |-> "load"] /\ \A i \in 1 .. R : a[i + 1] = Round("max", i)
  <2>. DEFINE o == Stage("load")
  <2>1. o \in Seq(Stages) /\ Len(o) = 1 /\ o[1] = [do |-> "load"]
    BY OneStage
  <2>. HIDE DEF o
  <2>2. /\ a \in Seq(Stages) /\ Len(a) = 1 + R
        /\ \A i \in 1 .. 1 : a[i] = o[i]
        /\ \A i \in 1 .. R : a[1 + i] = Round("max", i)
    <3>1. /\ a \in Seq(Stages) /\ Len(a) = Len(o) + R
          /\ \A i \in 1 .. Len(o) : a[i] = o[i]
          /\ \A i \in 1 .. R : a[Len(o) + i] = Round("max", i)
      BY <2>1, ThenTree DEF o
    <3>. HIDE DEF a, R
    <3>2. QED
      BY <2>1, <3>1
  <2>3. \A i \in 1 .. R : i + 1 = 1 + i
    BY <1>1
  <2>4. R + 1 = 1 + R /\ 1 \in 1 .. 1
    BY <1>1
  <2>. HIDE DEF a, R
  <2>5. QED
    BY <2>1, <2>2, <2>3, <2>4
<1>. HIDE DEF a
<1>3. /\ b \in Seq(Stages) /\ Len(b) = R + 2
      /\ \A i \in 1 .. R + 1 : b[i] = a[i]
      /\ b[R + 2] = [do |-> "read"]
  <2>1. R + 1 \in Nat /\ R + 1 + 1 = R + 2
    BY <1>1
  <2>2. /\ b \in Seq(Stages) /\ Len(b) = Len(a) + 1
        /\ \A i \in 1 .. Len(a) : b[i] = a[i]
        /\ b[Len(a) + 1] = [do |-> "read"]
    BY <1>2, ThenStage
  <2>. HIDE DEF b, R
  <2>3. QED
    BY <1>2, <2>1, <2>2
<1>. HIDE DEF b
<1>4. /\ c \in Seq(Stages) /\ Len(c) = R + 3
      /\ \A i \in 1 .. R + 2 : c[i] = b[i]
      /\ c[R + 3] = [do |-> "exp"]
  <2>1. R + 2 \in Nat /\ R + 2 + 1 = R + 3
    BY <1>1
  <2>2. /\ c \in Seq(Stages) /\ Len(c) = Len(b) + 1
        /\ \A i \in 1 .. Len(b) : c[i] = b[i]
        /\ c[Len(b) + 1] = [do |-> "exp"]
    BY <1>3, ThenStage
  <2>. HIDE DEF c, R
  <2>3. QED
    BY <1>3, <2>1, <2>2
<1>. HIDE DEF c
<1>5. /\ d \in Seq(Stages) /\ Len(d) = 2 * R + 3
      /\ \A i \in 1 .. R + 3 : d[i] = c[i]
      /\ \A i \in 1 .. R : d[R + 3 + i] = Round("sum", i)
  <2>1. R + 3 \in Nat /\ R + 3 + R = 2 * R + 3
    BY <1>1
  <2>2. /\ d \in Seq(Stages) /\ Len(d) = Len(c) + R
        /\ \A i \in 1 .. Len(c) : d[i] = c[i]
        /\ \A i \in 1 .. R : d[Len(c) + i] = Round("sum", i)
    BY <1>4, ThenTree
  <2>. HIDE DEF d, R
  <2>3. QED
    BY <1>4, <2>1, <2>2
<1>. HIDE DEF d
<1>6. /\ e \in Seq(Stages) /\ Len(e) = 2 * R + 4
      /\ \A i \in 1 .. 2 * R + 3 : e[i] = d[i]
      /\ e[2 * R + 4] = [do |-> "read"]
  <2>1. 2 * R + 3 \in Nat /\ 2 * R + 3 + 1 = 2 * R + 4
    BY <1>1
  <2>2. /\ e \in Seq(Stages) /\ Len(e) = Len(d) + 1
        /\ \A i \in 1 .. Len(d) : e[i] = d[i]
        /\ e[Len(d) + 1] = [do |-> "read"]
    BY <1>5, ThenStage
  <2>. HIDE DEF e, R
  <2>3. QED
    BY <1>5, <2>1, <2>2
<1>. HIDE DEF e
<1>7. /\ Len(f) = 2 * R + 5
      /\ \A i \in 1 .. 2 * R + 4 : f[i] = e[i]
      /\ f[2 * R + 5] = [do |-> "write"]
  <2>1. 2 * R + 4 \in Nat /\ 2 * R + 4 + 1 = 2 * R + 5
    BY <1>1
  <2>2. /\ Len(f) = Len(e) + 1
        /\ \A i \in 1 .. Len(e) : f[i] = e[i]
        /\ f[Len(e) + 1] = [do |-> "write"]
    BY <1>6, ThenStage
  <2>. HIDE DEF f, R
  <2>3. QED
    BY <1>6, <2>1, <2>2
<1>. HIDE DEF f, R
<1>8. f[1] = [do |-> "load"] /\ \A i \in 1 .. R : f[i + 1] = Round("max", i)
  BY <1>1, <1>2, <1>3, <1>4, <1>5, <1>6, <1>7
<1>9. f[R + 2] = [do |-> "read"] /\ f[R + 3] = [do |-> "exp"]
  BY <1>1, <1>3, <1>4, <1>5, <1>6, <1>7
<1>10. \A i \in 1 .. R : f[R + 3 + i] = Round("sum", i)
  BY <1>1, <1>5, <1>6, <1>7
<1>11. f[2 * R + 4] = [do |-> "read"] /\ f[2 * R + 5] = [do |-> "write"]
  BY <1>1, <1>6, <1>7
<1>12. QED
  BY <1>1, <1>7, <1>8, <1>9, <1>10, <1>11 DEF R

\* A round's stage tells its operation and its number.
LEMMA RoundIs ==
  ASSUME NEW op \in {"max", "sum"}, NEW i \in 1 .. Rounds, NEW op2 \in {"max", "sum"}, NEW j \in 1 .. Rounds,
         Round(op, i) = Round(op2, j)
  PROVE  op = op2 /\ i = j
<1>1. op = op2 /\ Strides[i] = Strides[j]
  <2>1. Round(op, i).op = op /\ Round(op, i).s = Strides[i] /\ Round(op2, j).op = op2 /\ Round(op2, j).s = Strides[j]
    BY DEF Round
  <2>2. QED
    BY <2>1
<1>2. ASSUME NEW a \in 1 .. Rounds, NEW b \in 1 .. Rounds, a < b PROVE Width(b) < Width(a)
  <2>. DEFINE S == {n \in Nat : a + 1 + n <= Rounds => Width(a + 1 + n) < Width(a)}
  <2>1. Rounds \in Nat
    BY Widths
  <2>2. \A n \in 1 .. Rounds : Width(n - 1) = 2 * Width(n) /\ Width(n) \in Nat \ {0} /\ Width(n - 1) \in Nat \ {0}
    BY Widths
  <2>3. 0 \in S
    <3>1. a + 1 \in 1 .. Rounds /\ a + 1 - 1 = a
      BY <1>2, <2>1
    <3>2. Width(a) = 2 * Width(a + 1) /\ Width(a + 1) \in Nat \ {0}
      BY <2>2, <3>1
    <3>3. Width(a + 1) < Width(a)
      BY <3>2
    <3>4. a + 1 + 0 = a + 1
      BY <2>1
    <3>5. QED
      BY <3>3, <3>4
  <2>4. ASSUME NEW n \in 1 .. Rounds, n - 1 \in S PROVE n \in S
    <3>1. SUFFICES ASSUME a + 1 + n <= Rounds PROVE Width(a + 1 + n) < Width(a)
      BY <2>1
    <3>. DEFINE m == a + 1 + n
    <3>2. m \in 1 .. Rounds /\ m - 1 = a + 1 + (n - 1) /\ m - 1 <= Rounds
      BY <2>1, <3>1
    <3>3. Width(m - 1) < Width(a)
      BY <2>4, <3>2
    <3>4. Width(m - 1) = 2 * Width(m) /\ Width(m) \in Nat \ {0} /\ Width(a) \in Nat
      BY <2>2, <3>2, Widths
    <3>. HIDE DEF m
    <3>5. Width(m) < Width(a)
      BY <3>3, <3>4
    <3>6. QED
      BY <3>5 DEF m
  <2>. HIDE DEF S
  <2>5. 0 .. Rounds \subseteq S
    BY <2>1, <2>3, <2>4, UpTo
  <2>6. b - a - 1 \in 0 .. Rounds /\ a + 1 + (b - a - 1) = b
    BY <1>2, <2>1
  <2>7. b - a - 1 \in S
    BY <2>5, <2>6
  <2>8. QED
    BY <2>1, <2>6, <2>7 DEF S
<1>3. Width(i) = Width(j)
  BY <1>1, Widths
<1>4. ~(i < j) /\ ~(j < i)
  <2>1. Width(i) \in Nat /\ Width(j) \in Nat
    BY Widths
  <2>2. QED
    BY <1>2, <1>3, <2>1
<1>5. QED
  BY <1>1, <1>4, Widths

\* Which stage comes when.
LEMMA StageAt ==
  ASSUME launch \in Launches, NEW p \in 0 .. Len(Program) - 1
  PROVE  LET st == Program[p + 1] IN
         /\ Len(Program) = IF Kernel = "attention" THEN 2 * Rounds + 5 ELSE Rounds + 2
         /\ st = [do |-> "load"] => p = 0
         /\ \A op \in {"max", "sum"}, i \in 1 .. Rounds :
              st = Round(op, i) =>
                /\ (Kernel = "attention" /\ op = "max") \/ op = "sum"
                /\ p = IF Kernel = "attention" /\ op = "sum" THEN Rounds + 2 + i ELSE i
         /\ st = [do |-> "read"] => Kernel = "attention" /\ p \in {Rounds + 1, 2 * Rounds + 3}
         /\ st = [do |-> "exp"] => Kernel = "attention" /\ p = Rounds + 2
         /\ st = [do |-> "write"] => p = Len(Program) - 1
<1>. DEFINE R == Rounds
            st == Program[p + 1]
<1>1. R \in Nat
  BY Widths
<1>. HIDE DEF R
<1>2. CASE Kernel # "attention"
  <2>1. /\ Len(Program) = R + 2
        /\ Program[1] = [do |-> "load"]
        /\ \A i \in 1 .. R : Program[i + 1] = Round("sum", i)
        /\ Program[R + 2] = [do |-> "write"]
    BY <1>2, ShortProgram DEF R
  <2>2. \/ p = 0 /\ st = [do |-> "load"]
        \/ p \in 1 .. R /\ st = Round("sum", p)
        \/ p = R + 1 /\ st = [do |-> "write"]
    <3>1. p = 0 \/ p \in 1 .. R \/ p = R + 1
      BY <1>1, <2>1
    <3>2. R + 1 + 1 = R + 2
      BY <1>1
    <3>3. QED
      BY <2>1, <3>1, <3>2
  <2>. HIDE DEF st
  <2>3. ASSUME NEW op \in {"max", "sum"}, NEW i \in 1 .. R, st = Round(op, i) PROVE op = "sum" /\ p = i
    <3>1. st = Round("sum", p) /\ p \in 1 .. R
      BY <2>2, <2>3 DEF Round
    <3>2. QED
      BY <2>3, <3>1, RoundIs DEF R
  <2>4. /\ st = [do |-> "load"] => p = 0
        /\ st # [do |-> "read"] /\ st # [do |-> "exp"]
        /\ st = [do |-> "write"] => p = R + 1
    BY <2>2 DEF Round
  <2>5. Len(Program) - 1 = R + 1
    BY <1>1, <2>1
  <2>6. QED
    BY <1>2, <2>1, <2>3, <2>4, <2>5 DEF st, R
<1>3. CASE Kernel = "attention"
  <2>1. /\ Len(Program) = 2 * R + 5
        /\ Program[1] = [do |-> "load"]
        /\ \A i \in 1 .. R : Program[i + 1] = Round("max", i)
        /\ Program[R + 2] = [do |-> "read"]
        /\ Program[R + 3] = [do |-> "exp"]
        /\ \A i \in 1 .. R : Program[R + 3 + i] = Round("sum", i)
        /\ Program[2 * R + 4] = [do |-> "read"]
        /\ Program[2 * R + 5] = [do |-> "write"]
    BY <1>3, LongProgram DEF R
  <2>2. \/ p = 0 /\ st = [do |-> "load"]
        \/ p \in 1 .. R /\ st = Round("max", p)
        \/ p = R + 1 /\ st = [do |-> "read"]
        \/ p = R + 2 /\ st = [do |-> "exp"]
        \/ p - R - 2 \in 1 .. R /\ st = Round("sum", p - R - 2)
        \/ p = 2 * R + 3 /\ st = [do |-> "read"]
        \/ p = 2 * R + 4 /\ st = [do |-> "write"]
    <3>1. p = 0 \/ p \in 1 .. R \/ p = R + 1 \/ p = R + 2 \/ p - R - 2 \in 1 .. R \/ p = 2 * R + 3 \/ p = 2 * R + 4
      <4>1. p \in Int /\ 0 <= p /\ p <= 2 * R + 4
        BY <1>1, <2>1
      <4>. HIDE DEF st
      <4>2. QED
        BY <1>1, <4>1
    <3>2. /\ R + 1 + 1 = R + 2 /\ R + 2 + 1 = R + 3 /\ 2 * R + 3 + 1 = 2 * R + 4 /\ 2 * R + 4 + 1 = 2 * R + 5
          /\ p + 1 = R + 3 + (p - R - 2)
      BY <1>1
    <3>3. p - R - 2 \in 1 .. R => st = Round("sum", p - R - 2)
      BY <2>1, <3>2
    <3>4. QED
      BY <2>1, <3>1, <3>2, <3>3
  <2>. HIDE DEF st
  <2>3. ASSUME NEW op \in {"max", "sum"}, NEW i \in 1 .. R, st = Round(op, i)
        PROVE  p = IF op = "sum" THEN R + 2 + i ELSE i
    <3>1. \/ st = Round("max", p) /\ p \in 1 .. R
          \/ st = Round("sum", p - R - 2) /\ p - R - 2 \in 1 .. R
      BY <2>2, <2>3 DEF Round
    <3>2. CASE st = Round("max", p) /\ p \in 1 .. R
      BY <2>3, <3>2, RoundIs DEF R
    <3>3. CASE st = Round("sum", p - R - 2) /\ p - R - 2 \in 1 .. R
      <4>1. op = "sum" /\ i = p - R - 2
        BY <2>3, <3>3, RoundIs DEF R
      <4>2. QED
        BY <1>1, <4>1
    <3>4. QED
      BY <3>1, <3>2, <3>3
  <2>4. /\ st = [do |-> "load"] => p = 0
        /\ st = [do |-> "read"] => p = R + 1 \/ p = 2 * R + 3
        /\ st = [do |-> "exp"] => p = R + 2
        /\ st = [do |-> "write"] => p = 2 * R + 4
    BY <2>2 DEF Round
  <2>5. Len(Program) - 1 = 2 * R + 4
    BY <1>1, <2>1
  <2>6. QED
    BY <1>3, <2>1, <2>3, <2>4, <2>5 DEF st, R
<1>4. QED
  BY <1>2, <1>3

\* What the stages have to know of where they are.
LEMMA Places ==
  ASSUME launch \in Launches, NEW p \in 0 .. Len(Program) - 1
  PROVE  LET st == Program[p + 1] IN
         /\ st = [do |-> "load"] =>
              /\ p = 0 /\ p + 1 # Len(Program)
              /\ OpAt(1) = (IF Kernel = "attention" THEN "max" ELSE "sum") /\ RoundsAt(1) = 0
         /\ \A op \in {"max", "sum"}, i \in 1 .. Rounds :
              st = Round(op, i) =>
                /\ p > 0 /\ p + 1 # Len(Program)
                /\ OpAt(p) = op /\ OpAt(p + 1) = op /\ RoundsAt(p) = i - 1 /\ RoundsAt(p + 1) = i
                /\ op = "max" => Kernel = "attention"
         /\ st = [do |-> "read"] =>
              /\ Kernel = "attention" /\ p > 0 /\ p + 1 # Len(Program)
              /\ \/ p = Rounds + 1 /\ OpAt(p) = "max" /\ OpAt(p + 1) = "max"
                 \/ p = 2 * Rounds + 3 /\ OpAt(p) = "sum" /\ OpAt(p + 1) = "sum"
              /\ RoundsAt(p) = Rounds /\ RoundsAt(p + 1) = Rounds
         /\ st = [do |-> "exp"] =>
              /\ Kernel = "attention" /\ p = Rounds + 2 /\ p + 1 # Len(Program)
              /\ OpAt(p + 1) = "sum" /\ RoundsAt(p + 1) = 0
         /\ st = [do |-> "write"] =>
              /\ p + 1 = Len(Program) /\ p > 0
              /\ p = IF Kernel = "attention" THEN 2 * Rounds + 4 ELSE Rounds + 1
              /\ OpAt(p) = "sum" /\ OpAt(p + 1) = "sum"
              /\ RoundsAt(p) = Rounds /\ RoundsAt(p + 1) = Rounds
<1>. DEFINE st == Program[p + 1]
<1>1. /\ Len(Program) = IF Kernel = "attention" THEN 2 * Rounds + 5 ELSE Rounds + 2
      /\ st = [do |-> "load"] => p = 0
      /\ \A op \in {"max", "sum"}, i \in 1 .. Rounds :
           st = Round(op, i) =>
             /\ (Kernel = "attention" /\ op = "max") \/ op = "sum"
             /\ p = IF Kernel = "attention" /\ op = "sum" THEN Rounds + 2 + i ELSE i
      /\ st = [do |-> "read"] => Kernel = "attention" /\ p \in {Rounds + 1, 2 * Rounds + 3}
      /\ st = [do |-> "exp"] => Kernel = "attention" /\ p = Rounds + 2
      /\ st = [do |-> "write"] => p = Len(Program) - 1
  BY StageAt
<1>. HIDE DEF st
<1>2. Rounds \in Nat
  BY Widths
<1>3. ASSUME st = [do |-> "load"]
      PROVE  /\ p = 0 /\ p + 1 # Len(Program)
             /\ OpAt(1) = (IF Kernel = "attention" THEN "max" ELSE "sum") /\ RoundsAt(1) = 0
  BY <1>1, <1>2, <1>3 DEF OpAt, RoundsAt
<1>4. ASSUME NEW op \in {"max", "sum"}, NEW i \in 1 .. Rounds, st = Round(op, i)
      PROVE  /\ p > 0 /\ p + 1 # Len(Program)
             /\ OpAt(p) = op /\ OpAt(p + 1) = op /\ RoundsAt(p) = i - 1 /\ RoundsAt(p + 1) = i
             /\ op = "max" => Kernel = "attention"
  <2>1. /\ (Kernel = "attention" /\ op = "max") \/ op = "sum"
        /\ p = IF Kernel = "attention" /\ op = "sum" THEN Rounds + 2 + i ELSE i
    BY <1>1, <1>4
  <2>2. QED
    BY <1>1, <1>2, <2>1 DEF OpAt, RoundsAt
<1>5. ASSUME st = [do |-> "read"]
      PROVE  /\ Kernel = "attention" /\ p > 0 /\ p + 1 # Len(Program)
             /\ \/ p = Rounds + 1 /\ OpAt(p) = "max" /\ OpAt(p + 1) = "max"
                \/ p = 2 * Rounds + 3 /\ OpAt(p) = "sum" /\ OpAt(p + 1) = "sum"
             /\ RoundsAt(p) = Rounds /\ RoundsAt(p + 1) = Rounds
  BY <1>1, <1>2, <1>5 DEF OpAt, RoundsAt
<1>6. ASSUME st = [do |-> "exp"]
      PROVE  /\ Kernel = "attention" /\ p = Rounds + 2 /\ p + 1 # Len(Program)
             /\ OpAt(p + 1) = "sum" /\ RoundsAt(p + 1) = 0
  BY <1>1, <1>2, <1>6 DEF OpAt, RoundsAt
<1>7. ASSUME st = [do |-> "write"]
      PROVE  /\ p + 1 = Len(Program) /\ p > 0
             /\ p = IF Kernel = "attention" THEN 2 * Rounds + 4 ELSE Rounds + 1
             /\ OpAt(p) = "sum" /\ OpAt(p + 1) = "sum"
             /\ RoundsAt(p) = Rounds /\ RoundsAt(p + 1) = Rounds
  BY <1>1, <1>2, <1>7 DEF OpAt, RoundsAt
<1>8. QED
  BY <1>3, <1>4, <1>5, <1>6, <1>7 DEF st

-----------------------------------------------------------------------------
(* A step.                                                                 *)

\* What a launch fixes stays.
LEMMA Frozen ==
  ASSUME launch' = launch
  PROVE  /\ Kernel' = Kernel /\ Program' = Program /\ Count' = Count /\ First' = First
         /\ \A i : Score(i)' = Score(i)
         /\ TopScore' = TopScore /\ Total' = Total
         /\ \A t : Red(t)' = Red(t) /\ Outputs(t)' = Outputs(t)
         /\ \A op, t, w : Tally(op, t, w)' = Tally(op, t, w)
         /\ \A v, t, p : CellAt(v, t, p)' <=> CellAt(v, t, p)
         /\ \A v, c, p : ScoreAt(v, c, p)' <=> ScoreAt(v, c, p)
         /\ \A p : MineAt(p)' = MineAt(p) /\ RowAt(p)' = RowAt(p)
         /\ Result' = Result
<1>1. Kernel' = Kernel
  BY DEF Kernel
<1>2. Program' = Program
  BY <1>1 DEF Program
<1>3. First' = First
  BY DEF First
<1>4. Count' = Count
  BY <1>3 DEF Count
<1>5. \A i : Score(i)' = Score(i)
  BY <1>3 DEF Score
<1>6. TopScore' = TopScore
  BY <1>4, <1>5 DEF TopScore
<1>7. \A t : Red(t)' = Red(t)
  BY <1>1 DEF Red
<1>8. \A t : Outputs(t)' = Outputs(t)
  BY <1>1 DEF Outputs
<1>9. \A t : W4Terms(t)' = W4Terms(t)
  BY DEF W4Terms, UseV2, WordTerms, ByteTerms
<1>10. \A op, t : Part(op, t)' = Part(op, t)
  BY <1>1, <1>3, <1>4, <1>5, <1>6, <1>9 DEF Part
<1>11. \A op, U : PartsOf(op, U)' = PartsOf(op, U)
  BY <1>10 DEF PartsOf
<1>12. \A op, t, w : Tally(op, t, w)' = Tally(op, t, w)
  BY <1>11 DEF Tally
<1>13. Total' = Total
  BY <1>11 DEF Total
<1>14. \A p : OpAt(p)' = OpAt(p) /\ RoundsAt(p)' = RoundsAt(p)
  BY <1>1 DEF OpAt, RoundsAt
<1>15. \A v, op, t, i : Held(v, op, t, i)' <=> Held(v, op, t, i)
  BY <1>12 DEF Held
<1>16. \A v, t, p : CellAt(v, t, p)' <=> CellAt(v, t, p)
  BY <1>14, <1>15 DEF CellAt
<1>17. \A v, c, p : ScoreAt(v, c, p)' <=> ScoreAt(v, c, p)
  BY <1>5, <1>6 DEF ScoreAt
<1>18. \A p : MineAt(p)' = MineAt(p) /\ RowAt(p)' = RowAt(p)
  BY <1>6, <1>13 DEF MineAt, RowAt
<1>19. Result' = Result
  BY <1>1, <1>3, <1>4, <1>5, <1>6, <1>13 DEF Result
<1>20. QED
  BY <1>1, <1>2, <1>3, <1>4, <1>5, <1>6, <1>7, <1>8, <1>12, <1>13, <1>16, <1>17, <1>18, <1>19

\* The invariant, a conjunct at a time, when what t leaves is right for where
\* it comes to and what the others have left stays.
LEMMA CellsStep ==
  ASSUME CellsRight, launch' = launch, NEW t \in Threads,
         \A u \in Threads \ {t} : passed'[u] = passed[u] /\ sh'[Red(u)] = sh[Red(u)],
         CellAt(sh'[Red(t)], t, passed'[t])
  PROVE  CellsRight'
<1>1. /\ \A v, u, p : CellAt(v, u, p)' <=> CellAt(v, u, p)
      /\ \A u : Red(u)' = Red(u)
  BY Frozen
<1>2. \A u \in Threads : CellAt(sh'[Red(u)], u, passed'[u])
  BY DEF CellsRight
<1>3. ASSUME NEW u \in Threads PROVE CellAt(sh[Red(u)], u, passed[u])'
  <2>1. CellAt(sh'[Red(u)], u, passed'[u])
    BY <1>2
  <2>2. QED
    BY <1>1, <2>1
<1>4. QED
  BY <1>3 DEF CellsRight

\* The scores.
LEMMA ScoresStep ==
  ASSUME launch \in Launches, ScoresRight, launch' = launch, NEW t \in Threads,
         \A u \in Threads \ {t} : passed'[u] = passed[u],
         Kernel = "attention" =>
           \A c \in 0 .. Count - 1 :
             IF c % BlockDim = t THEN ScoreAt(sh'[c], c, passed'[t]) ELSE sh'[c] = sh[c]
  PROVE  ScoresRight'
<1>1. /\ \A v, c, p : ScoreAt(v, c, p)' <=> ScoreAt(v, c, p)
      /\ Kernel' = Kernel /\ Count' = Count
  BY Frozen
<1>2. ASSUME Kernel = "attention", NEW c \in 0 .. Count - 1
      PROVE  ScoreAt(sh[c], c, passed[c % BlockDim])'
  <2>1. c % BlockDim \in Threads
    <3>1. Count \in Nat
      BY <1>2, OfLaunch, BlockAssumption
    <3>2. QED
      BY <3>1, Owner
  <2>2. ScoreAt(sh[c], c, passed[c % BlockDim])
    BY <1>2 DEF ScoresRight
  <2>3. ScoreAt(sh'[c], c, passed'[c % BlockDim])
    BY <1>2, <2>1, <2>2
  <2>4. QED
    BY <1>1, <2>3
<1>3. QED
  BY <1>1, <1>2 DEF ScoresRight

\* The registers.
LEMMA MineStep ==
  ASSUME MineRight, launch' = launch, NEW t \in Threads,
         \A u \in Threads \ {t} : passed'[u] = passed[u] /\ mine'[u] = mine[u],
         Kernel = "attention" => mine'[t] = MineAt(passed'[t])
  PROVE  MineRight'
<1>1. Kernel' = Kernel /\ \A p : MineAt(p)' = MineAt(p)
  BY Frozen
<1>2. ASSUME Kernel = "attention", NEW u \in Threads PROVE (mine[u] = MineAt(passed[u]))'
  <2>1. mine'[u] = MineAt(passed'[u])
    BY <1>2 DEF MineRight
  <2>2. QED
    BY <1>1, <2>1
<1>3. QED
  BY <1>1, <1>2 DEF MineRight

\* The row.
LEMMA RowStep ==
  ASSUME launch \in Launches, RowRight, launch' = launch, NEW t \in Threads,
         \A u \in Threads \ {t} : passed'[u] = passed[u],
         Kernel = "norm" =>
           /\ DOMAIN x' = DOMAIN x
           /\ \A i \in 0 .. launch.hidden - 1 :
                IF i % BlockDim = t THEN x'[i] = RowAt(passed'[t]) ELSE x'[i] = x[i]
  PROVE  RowRight'
<1>1. Kernel' = Kernel /\ \A p : RowAt(p)' = RowAt(p)
  BY Frozen
<1>2. ASSUME Kernel = "norm", NEW i \in 0 .. launch.hidden - 1
      PROVE  (x[i] = RowAt(passed[i % BlockDim]))'
  <2>1. i % BlockDim \in Threads
    BY <1>2, OfLaunch, Owner
  <2>2. x[i] = RowAt(passed[i % BlockDim])
    BY <1>2 DEF RowRight
  <2>3. x'[i] = RowAt(passed'[i % BlockDim])
    BY <1>2, <2>1, <2>2
  <2>4. QED
    BY <1>1, <2>3
<1>3. QED
  BY <1>1, <1>2 DEF RowRight

\* The output.
LEMMA OutStep ==
  ASSUME OutRight, launch' = launch, NEW t \in Threads,
         \A u \in Threads \ {t} : passed'[u] = passed[u],
         WrittenBy(t) = {},
         out' = [d \in DOMAIN out \cup WrittenBy(t)' |-> IF d \in WrittenBy(t)' THEN Result ELSE out[d]]
  PROVE  OutRight'
<1>1. Program' = Program /\ Result' = Result /\ \A u : Outputs(u)' = Outputs(u)
  BY Frozen
<1>2. \A u \in Threads \ {t} : WrittenBy(u)' = WrittenBy(u)
  BY <1>1 DEF WrittenBy
<1>3. Written' = Written \cup WrittenBy(t)'
  <2>1. Written = UNION {WrittenBy(u) : u \in Threads} /\ Written' = UNION {WrittenBy(u)' : u \in Threads}
    BY DEF Written
  <2>2. QED
    BY <1>2, <2>1
<1>4. out' = [d \in Written' |-> Result]
  BY <1>3 DEF OutRight
<1>5. QED
  BY <1>1, <1>4 DEF OutRight

\* Who may run is with everybody or one barrier behind.
LEMMA StepTogether ==
  ASSUME Together, NEW t \in Threads, NEW st, Running(t, st), DOMAIN sh' = DOMAIN sh, DOMAIN mine' = DOMAIN mine
  PROVE  /\ Together' /\ launch \in Launches /\ launch' = launch
         /\ passed[t] \in 0 .. Len(Program) - 1 /\ st = Program[passed[t] + 1]
         /\ passed'[t] = passed[t] + 1
         /\ \A u \in Threads \ {t} : passed'[u] = passed[u]
         /\ \A u \in Threads : passed[u] \in {passed[t], passed[t] + 1}
<1>1. /\ launch \in Launches /\ launch' = launch /\ Program' = Program
      /\ passed' = [passed EXCEPT ![t] = @ + 1] /\ passed \in [Threads -> 0 .. Len(Program)]
      /\ passed[t] < Len(Program) /\ \A u \in Threads : passed[u] >= passed[t] /\ passed[u] <= passed[t] + 1
      /\ st = Program[passed[t] + 1]
  BY Frozen DEF Running, MayRun, Together
<1>2. Len(Program) \in Nat
  BY ProgramStages
<1>3. /\ passed[t] \in 0 .. Len(Program) - 1 /\ passed'[t] = passed[t] + 1
      /\ \A u \in Threads \ {t} : passed'[u] = passed[u]
      /\ \A u \in Threads : passed[u] \in {passed[t], passed[t] + 1}
  BY <1>1, <1>2
<1>4. passed' \in [Threads -> 0 .. Len(Program)]
  BY <1>1, <1>2, <1>3
<1>5. \A u, v \in Threads : passed'[u] <= passed'[v] + 1
  BY <1>1, <1>2, <1>3
<1>6. Together'
  BY <1>1, <1>4, <1>5 DEF Together
<1>7. QED
  BY <1>1, <1>3, <1>6

-----------------------------------------------------------------------------
(* The stages keep the invariant.                                          *)

\* The scratch and the scores are cells apart.
LEMMA Layout ==
  ASSUME launch \in Launches, NEW t \in Threads
  PROVE  /\ Red(t) \in 0 .. ScoreCap + BlockDim - 1
         /\ \A u \in Threads \ {t} : Red(u) # Red(t)
         /\ Kernel = "attention" =>
              /\ Count \in Nat
              /\ \A c \in 0 .. Count - 1 : c \in 0 .. ScoreCap + BlockDim - 1 /\ \A u \in Threads : c # Red(u)
<1>1. /\ BlockDim \in Nat \ {0} /\ ScoreCap \in Nat
      /\ \A u \in Threads : u \in Int /\ 0 <= u /\ u < BlockDim
  BY BlockAssumption DEF Threads
<1>2. Kernel = "attention" => Count \in 0 .. ScoreCap
  BY CountFits
<1>3. QED
  BY <1>1, <1>2 DEF Red

\* A thread's own part is its cell before the first round.
LEMMA FirstCell ==
  ASSUME NEW t \in Threads, NEW op, NEW p \in Nat, OpAt(p) = op, RoundsAt(p) = 0
  PROVE  CellAt(Of(op, Part(op, t)), t, p)
<1>1. Width(0) = BlockDim
  BY Widths
<1>2. Tally(op, t, BlockDim) = Of(op, Part(op, t))
  BY TallyEnds
<1>3. QED
  BY <1>1, <1>2 DEF CellAt, Held

\* The first stage: every thread leaves its own part.
LEMMA LoadKeeps ==
  ASSUME BlockInv, NEW t \in Threads, Load(t)
  PROVE  BlockInv'
<1>. DEFINE p == passed[t]
<1>1. DOMAIN sh' = DOMAIN sh /\ mine' = mine /\ out' = out /\ Running(t, [do |-> "load"])
  <2>1. launch \in Launches
    BY DEF BlockInv, Together
  <2>2. QED
    BY <2>1, OfLaunch DEF Load
<1>2. /\ Together' /\ launch \in Launches /\ launch' = launch
      /\ p \in 0 .. Len(Program) - 1 /\ [do |-> "load"] = Program[p + 1]
      /\ passed'[t] = p + 1 /\ \A u \in Threads \ {t} : passed'[u] = passed[u]
  BY <1>1, StepTogether DEF BlockInv
<1>3. /\ p = 0 /\ passed'[t] = 1 /\ 1 # Len(Program)
      /\ OpAt(1) = (IF Kernel = "attention" THEN "max" ELSE "sum") /\ RoundsAt(1) = 0
  BY <1>2, Places
<1>4. /\ Red(t) \in DOMAIN sh
      /\ \A u \in Threads \ {t} : Red(u) \in DOMAIN sh /\ Red(u) # Red(t)
      /\ Kernel = "attention" =>
           /\ Count \in Nat
           /\ \A c \in 0 .. Count - 1 : c \in DOMAIN sh /\ \A u \in Threads : c # Red(u)
  BY <1>2, Layout DEF BlockInv, Together
<1>5. Rounds \in Nat
  BY Widths
<1>6. MineAt(p + 1) = MineAt(p) /\ RowAt(p + 1) = Row
  BY <1>3, <1>5 DEF MineAt, RowAt
<1>7. CellsRight' /\ ScoresRight' /\ RowRight'
  <2>1. CASE Kernel = "attention"
    <3>1. /\ sh' = [c \in DOMAIN sh |->
                      IF c = Red(t) THEN MaxOf({Score(i) : i \in Stripe(t, Count)})
                      ELSE IF c \in Stripe(t, Count) THEN Score(c)
                      ELSE sh[c]]
      BY <2>1 DEF Load
    <3>2. sh'[Red(t)] = Of("max", Part("max", t))
      BY <1>4, <3>1 DEF Of, Part
    <3>3. \A u \in Threads \ {t} : sh'[Red(u)] = sh[Red(u)]
      BY <1>4, <2>1, <3>1, Owner
    <3>4. CellsRight'
      BY <1>2, <1>3, <2>1, <3>2, <3>3, FirstCell, CellsStep DEF BlockInv
    <3>5. ASSUME NEW c \in 0 .. Count - 1
          PROVE  IF c % BlockDim = t THEN ScoreAt(sh'[c], c, passed'[t]) ELSE sh'[c] = sh[c]
      <4>1. c \in DOMAIN sh /\ c # Red(t) /\ (c \in Stripe(t, Count) <=> c % BlockDim = t)
        BY <1>4, <2>1 DEF Stripe
      <4>2. sh'[c] = IF c % BlockDim = t THEN Score(c) ELSE sh[c]
        BY <3>1, <4>1
      <4>3. QED
        BY <1>3, <1>5, <4>2 DEF ScoreAt
    <3>6. ScoresRight'
      BY <1>2, <3>5, ScoresStep DEF BlockInv
    <3>7. RowRight'
      BY <1>2, <2>1, RowStep DEF BlockInv
    <3>8. QED
      BY <3>4, <3>6, <3>7
  <2>2. CASE Kernel = "w4"
    <3>1. sh' = [sh EXCEPT ![Red(t)] = SetToBag(W4Terms(t))]
      BY <2>2 DEF Load
    <3>2. sh'[Red(t)] = Of("sum", Part("sum", t))
      BY <1>4, <2>2, <3>1 DEF Of, Part
    <3>3. \A u \in Threads \ {t} : sh'[Red(u)] = sh[Red(u)]
      BY <1>4, <3>1
    <3>4. CellsRight'
      BY <1>2, <1>3, <2>2, <3>2, <3>3, FirstCell, CellsStep DEF BlockInv
    <3>5. ScoresRight' /\ RowRight'
      BY <1>2, <2>2, ScoresStep, RowStep DEF BlockInv
    <3>6. QED
      BY <3>4, <3>5
  <2>3. CASE Kernel = "norm"
    <3>1. /\ x' = [i \in DOMAIN x |->
                     IF i \in Stripe(t, launch.hidden) THEN Added(x[i]) ELSE x[i]]
          /\ sh' = [sh EXCEPT ![Red(t)] =
                      SetToBag({Square(i, x'[i]) : i \in Stripe(t, launch.hidden)})]
      BY <2>3 DEF Load
    <3>2. /\ DOMAIN x = 0 .. launch.hidden - 1 /\ launch.hidden \in Nat
          /\ \A i \in 0 .. launch.hidden - 1 : x[i] = RowAt(passed[i % BlockDim])
      BY <1>2, <2>3, OfLaunch DEF BlockInv, RowRight
    <3>3. \A i \in Stripe(t, launch.hidden) : i \in DOMAIN x /\ x[i] = RowAt(0)
      BY <1>3, <3>2, Owner
    <3>4. Added(RowAt(0)) = Row
      BY DEF Added, RowAt, Row
    <3>5. \A i \in Stripe(t, launch.hidden) : x'[i] = Row
      BY <3>1, <3>3, <3>4
    <3>6. {Square(i, x'[i]) : i \in Stripe(t, launch.hidden)} = {Square(i, Row) : i \in Stripe(t, launch.hidden)}
      BY <3>5
    <3>7. sh'[Red(t)] = Of("sum", Part("sum", t))
      BY <1>4, <2>3, <3>1, <3>6 DEF Of, Part
    <3>8. \A u \in Threads \ {t} : sh'[Red(u)] = sh[Red(u)]
      BY <1>4, <3>1
    <3>9. CellsRight'
      BY <1>2, <1>3, <2>3, <3>7, <3>8, FirstCell, CellsStep DEF BlockInv
    <3>10. ASSUME NEW i \in 0 .. launch.hidden - 1
           PROVE  IF i % BlockDim = t THEN x'[i] = RowAt(passed'[t]) ELSE x'[i] = x[i]
      <4>1. i \in Stripe(t, launch.hidden) <=> i % BlockDim = t
        BY DEF Stripe
      <4>2. CASE i % BlockDim = t
        BY <1>2, <1>6, <3>5, <4>1, <4>2
      <4>3. CASE i % BlockDim # t
        BY <3>1, <3>2, <4>1, <4>3
      <4>4. QED
        BY <4>2, <4>3
    <3>11. RowRight'
      BY <1>2, <3>1, <3>10, RowStep DEF BlockInv
    <3>12. ScoresRight'
      BY <1>2, <2>3, ScoresStep DEF BlockInv
    <3>13. QED
      BY <3>9, <3>11, <3>12
  <2>4. QED
    BY <1>2, <2>1, <2>2, <2>3, OfLaunch
<1>8. MineRight'
  <2>1. Kernel = "attention" => mine'[t] = MineAt(passed'[t])
    BY <1>1, <1>2, <1>6 DEF BlockInv, MineRight
  <2>2. QED
    BY <1>1, <1>2, <2>1, MineStep DEF BlockInv
<1>9. WrittenBy(t) = {} /\ WrittenBy(t)' = {}
  <2>1. Program' = Program
    BY <1>2, Frozen
  <2>2. QED
    BY <1>2, <1>3, <2>1, ProgramStages DEF WrittenBy
<1>10. OutRight'
  <2>1. out' = [d \in DOMAIN out \cup WrittenBy(t)' |-> IF d \in WrittenBy(t)' THEN Result ELSE out[d]]
    BY <1>1, <1>9 DEF BlockInv, OutRight
  <2>2. QED
    BY <1>2, <1>9, <2>1, OutStep DEF BlockInv
<1>11. QED
  BY <1>2, <1>7, <1>8, <1>10 DEF BlockInv

\* A stage between the first and the last leaves the row and the output alone.
LEMMA MiddleKeeps ==
  ASSUME BlockInv, launch' = launch, NEW t \in Threads, passed[t] \in 1 .. Len(Program) - 2,
         passed'[t] = passed[t] + 1, \A u \in Threads \ {t} : passed'[u] = passed[u],
         x' = x, out' = out
  PROVE  RowRight' /\ OutRight'
<1>1. launch \in Launches /\ Program' = Program /\ Len(Program) \in Nat
  BY Frozen, ProgramStages DEF BlockInv, Together
<1>2. RowRight'
  <2>1. ASSUME Kernel = "norm", NEW i \in 0 .. launch.hidden - 1
        PROVE  IF i % BlockDim = t THEN x'[i] = RowAt(passed'[t]) ELSE x'[i] = x[i]
    BY <2>1 DEF BlockInv, RowRight, RowAt
  <2>2. QED
    BY <1>1, <2>1, RowStep DEF BlockInv
<1>3. OutRight'
  <2>1. WrittenBy(t) = {} /\ WrittenBy(t)' = {}
    BY <1>1 DEF WrittenBy
  <2>2. out' = [d \in DOMAIN out \cup WrittenBy(t)' |-> IF d \in WrittenBy(t)' THEN Result ELSE out[d]]
    BY <2>1 DEF BlockInv, OutRight
  <2>3. QED
    BY <2>1, <2>2, OutStep DEF BlockInv
<1>4. QED
  BY <1>2, <1>3

\* What a score and the registers are does not change over a round.
LEMMA RoundSame ==
  ASSUME launch \in Launches, NEW p \in 0 .. Len(Program) - 1, NEW op \in {"max", "sum"}, NEW i \in 1 .. Rounds,
         Program[p + 1] = Round(op, i), Kernel = "attention"
  PROVE  /\ \A v, c : ScoreAt(v, c, p) => ScoreAt(v, c, p + 1)
         /\ MineAt(p + 1) = MineAt(p)
<1>1. p = IF op = "sum" THEN Rounds + 2 + i ELSE i
  BY StageAt
<1>2. Rounds \in Nat
  BY Widths
<1>3. \/ p \in 1 .. Rounds
      \/ p > Rounds + 2 /\ p < 2 * Rounds + 3
  BY <1>1, <1>2
<1>4. QED
  BY <1>2, <1>3 DEF ScoreAt, MineAt

\* A round: what t takes in is right whether its thread has done the round or not,
\* for then it has just left the tree and keeps what it had.
LEMMA ReduceKeeps ==
  ASSUME BlockInv, NEW t \in Threads, Reduce(t)
  PROVE  BlockInv'
<1>. DEFINE p == passed[t]
<1>1. PICK op \in {"max", "sum"}, i \in DOMAIN Strides :
        /\ Running(t, Round(op, i))
        /\ sh' = IF t < Strides[i]
                 THEN [sh EXCEPT ![Red(t)] = Combined(op, @, sh[Red(t + Strides[i])])]
                 ELSE sh
  BY DEF Reduce, Round
<1>2. mine' = mine /\ x' = x /\ out' = out /\ DOMAIN sh' = DOMAIN sh /\ i \in 1 .. Rounds
  BY <1>1, BlockAssumption DEF Reduce, Rounds
<1>3. /\ Together' /\ launch \in Launches /\ launch' = launch
      /\ p \in 0 .. Len(Program) - 1 /\ Round(op, i) = Program[p + 1]
      /\ passed'[t] = p + 1 /\ \A u \in Threads \ {t} : passed'[u] = passed[u]
      /\ \A u \in Threads : passed[u] \in {p, p + 1}
  BY <1>1, <1>2, StepTogether DEF BlockInv
<1>4. /\ p > 0 /\ p + 1 # Len(Program)
      /\ OpAt(p) = op /\ OpAt(p + 1) = op /\ RoundsAt(p) = i - 1 /\ RoundsAt(p + 1) = i
      /\ op = "max" => Kernel = "attention"
  BY <1>2, <1>3, Places
<1>5. /\ Red(t) \in DOMAIN sh
      /\ \A u \in Threads \ {t} : Red(u) # Red(t)
      /\ Kernel = "attention" =>
           /\ Count \in Nat
           /\ \A c \in 0 .. Count - 1 : c \in DOMAIN sh /\ \A u \in Threads : c # Red(u)
  BY <1>3, Layout DEF BlockInv, Together
<1>6. RowRight' /\ OutRight'
  <2>1. p \in 1 .. Len(Program) - 2
    BY <1>3, <1>4, ProgramStages
  <2>2. QED
    BY <1>2, <1>3, <2>1, MiddleKeeps
<1>7. ScoresRight'
  <2>1. ASSUME Kernel = "attention", NEW c \in 0 .. Count - 1
        PROVE  IF c % BlockDim = t THEN ScoreAt(sh'[c], c, passed'[t]) ELSE sh'[c] = sh[c]
    <3>1. sh'[c] = sh[c]
      BY <1>1, <1>5, <2>1
    <3>2. ScoreAt(sh[c], c, passed[c % BlockDim])
      BY <2>1 DEF BlockInv, ScoresRight
    <3>3. QED
      BY <1>2, <1>3, <2>1, <3>1, <3>2, RoundSame
  <2>2. QED
    BY <1>3, <2>1, ScoresStep DEF BlockInv
<1>8. MineRight'
  <2>1. Kernel = "attention" => mine'[t] = MineAt(passed'[t])
    <3>1. Kernel = "attention" => MineAt(p + 1) = MineAt(p)
      BY <1>2, <1>3, RoundSame
    <3>2. QED
      BY <1>2, <1>3, <3>1 DEF BlockInv, MineRight
  <2>2. QED
    BY <1>2, <1>3, <2>1, MineStep DEF BlockInv
<1>9. CellsRight'
  <2>. DEFINE s == Strides[i]
  <2>1. s = Width(i) /\ Width(i - 1) = 2 * s /\ s \in Nat \ {0}
    BY <1>2, Widths
  <2>. HIDE DEF s
  <2>2. \A u \in Threads : u \in Nat /\ u < BlockDim
    BY BlockAssumption DEF Threads
  <2>3. Held(sh[Red(t)], op, t, i - 1)
    BY <1>4 DEF BlockInv, CellsRight, CellAt
  <2>4. CASE t < s
    <3>1. t + s \in Threads /\ t + s < 2 * s /\ s <= t + s
      <4>1. 2 * s <= BlockDim
        BY <1>2, WidthBound DEF s
      <4>2. QED
        BY <2>1, <2>2, <2>4, <4>1, BlockAssumption DEF Threads
    <3>2. sh[Red(t)] = Tally(op, t, 2 * s)
      BY <2>1, <2>2, <2>3, <2>4 DEF Held
    <3>3. sh[Red(t + s)] = Tally(op, t + s, 2 * s)
      <4>. DEFINE u == t + s
      <4>1. CellAt(sh[Red(u)], u, passed[u]) /\ passed[u] \in {p, p + 1}
        BY <1>3, <3>1 DEF BlockInv, CellsRight
      <4>. HIDE DEF u
      <4>2. Held(sh[Red(u)], op, u, i - 1) \/ Held(sh[Red(u)], op, u, i)
        BY <1>3, <1>4, <4>1 DEF CellAt
      <4>3. u < Width(i - 1) /\ Width(i) <= u /\ i > 0
        BY <1>2, <2>1, <3>1 DEF u
      <4>4. sh[Red(u)] = Tally(op, u, Width(i - 1))
        BY <4>2, <4>3 DEF Held
      <4>5. QED
        BY <2>1, <4>4 DEF u
    <3>4. sh'[Red(t)] = Combined(op, Tally(op, t, 2 * s), Tally(op, t + s, 2 * s))
      BY <1>1, <1>5, <2>4, <3>2, <3>3 DEF s
    <3>5. sh'[Red(t)] = Tally(op, t, s)
      <4>1. t \in 0 .. s - 1
        BY <2>1, <2>2, <2>4
      <4>2. QED
        BY <1>3, <1>4, <2>1, <3>4, <4>1, Combines
    <3>6. CellAt(sh'[Red(t)], t, passed'[t])
      BY <1>3, <1>4, <2>1, <2>2, <2>4, <3>5 DEF CellAt, Held
    <3>7. \A u \in Threads \ {t} : sh'[Red(u)] = sh[Red(u)]
      BY <1>1, <1>5
    <3>8. QED
      BY <1>3, <3>6, <3>7, CellsStep DEF BlockInv
  <2>5. CASE ~(t < s)
    <3>1. sh' = sh
      BY <1>1, <2>5 DEF s
    <3>2. CellAt(sh'[Red(t)], t, passed'[t])
      BY <1>3, <1>4, <2>1, <2>2, <2>3, <2>5, <3>1 DEF CellAt, Held
    <3>3. QED
      BY <1>3, <3>1, <3>2, CellsStep DEF BlockInv
  <2>6. QED
    BY <2>4, <2>5
<1>10. QED
  BY <1>3, <1>6, <1>7, <1>8, <1>9 DEF BlockInv

\* The last round over, thread 0's cell is everybody's.
LEMMA RootHolds ==
  ASSUME BlockInv, passed[0] > 0, RoundsAt(passed[0]) = Rounds
  PROVE  sh[Red(0)] = Of(OpAt(passed[0]), PartsOf(OpAt(passed[0]), Threads))
<1>1. CellAt(sh[Red(0)], 0, passed[0])
  BY Groups DEF BlockInv, CellsRight
<1>2. Width(Rounds) = 1
  BY Widths
<1>3. sh[Red(0)] = Tally(OpAt(passed[0]), 0, 1)
  BY <1>1, <1>2 DEF CellAt, Held
<1>4. QED
  BY <1>3, TallyEnds

\* The reads: thread 0's cell is whole, and stays so while the others read.
LEMMA ReadKeeps ==
  ASSUME BlockInv, NEW t \in Threads, Read(t)
  PROVE  BlockInv'
<1>. DEFINE p == passed[t]
<1>1. /\ Running(t, [do |-> "read"])
      /\ mine' = [mine EXCEPT ![t] = Append(@, sh[Red(0)])]
      /\ sh' = sh /\ x' = x /\ out' = out
  BY DEF Read
<1>2. DOMAIN mine = Threads /\ DOMAIN mine' = DOMAIN mine
  BY <1>1 DEF BlockInv, Together
<1>3. /\ Together' /\ launch \in Launches /\ launch' = launch
      /\ p \in 0 .. Len(Program) - 1 /\ [do |-> "read"] = Program[p + 1]
      /\ passed'[t] = p + 1 /\ \A u \in Threads \ {t} : passed'[u] = passed[u]
      /\ \A u \in Threads : passed[u] \in {p, p + 1}
  BY <1>1, <1>2, StepTogether DEF BlockInv
<1>4. /\ Kernel = "attention" /\ p > 0 /\ p + 1 # Len(Program)
      /\ \/ p = Rounds + 1 /\ OpAt(p) = "max" /\ OpAt(p + 1) = "max"
         \/ p = 2 * Rounds + 3 /\ OpAt(p) = "sum" /\ OpAt(p + 1) = "sum"
      /\ RoundsAt(p) = Rounds /\ RoundsAt(p + 1) = Rounds
  BY <1>3, Places
<1>5. Rounds \in Nat
  BY Widths
<1>6. RowRight' /\ OutRight'
  <2>1. p \in 1 .. Len(Program) - 2
    BY <1>3, <1>4, ProgramStages
  <2>2. QED
    BY <1>1, <1>3, <2>1, MiddleKeeps
<1>7. CellsRight'
  <2>1. CellAt(sh[Red(t)], t, p)
    BY DEF BlockInv, CellsRight
  <2>2. CellAt(sh[Red(t)], t, p + 1)
    BY <1>4, <2>1 DEF CellAt
  <2>3. QED
    BY <1>1, <1>3, <2>2, CellsStep DEF BlockInv
<1>8. ScoresRight'
  <2>1. ASSUME NEW c \in 0 .. Count - 1
        PROVE  IF c % BlockDim = t THEN ScoreAt(sh'[c], c, passed'[t]) ELSE sh'[c] = sh[c]
    <3>1. ScoreAt(sh[c], c, passed[c % BlockDim])
      BY <1>4 DEF BlockInv, ScoresRight
    <3>2. ScoreAt(sh[c], c, p) => ScoreAt(sh[c], c, p + 1)
      BY <1>4, <1>5 DEF ScoreAt
    <3>3. QED
      BY <1>1, <1>3, <3>1, <3>2
  <2>2. QED
    BY <1>3, <2>1, ScoresStep DEF BlockInv
<1>9. MineRight'
  <2>1. mine[t] = MineAt(p)
    BY <1>4 DEF BlockInv, MineRight
  <2>2. passed[0] > 0 /\ RoundsAt(passed[0]) = Rounds /\ OpAt(passed[0]) = OpAt(p)
    <3>1. passed[0] = p \/ passed[0] = p + 1
      BY <1>3, Groups
    <3>2. CASE passed[0] = p
      BY <1>4, <3>2
    <3>3. CASE passed[0] = p + 1
      BY <1>3, <1>4, <3>3
    <3>4. QED
      BY <3>1, <3>2, <3>3
  <2>3. sh[Red(0)] = Of(OpAt(p), PartsOf(OpAt(p), Threads))
    BY <2>2, RootHolds
  <2>4. mine'[t] = Append(MineAt(p), sh[Red(0)])
    BY <1>1, <1>2, <2>1
  <2>5. mine'[t] = MineAt(p + 1)
    <3>1. CASE p = Rounds + 1 /\ OpAt(p) = "max"
      <4>1. MineAt(p) = <<>> /\ MineAt(p + 1) = <<TopScore>>
        BY <1>5, <3>1 DEF MineAt
      <4>2. sh[Red(0)] = TopScore
        BY <1>3, <1>4, <2>3, <3>1, AllParts DEF Of, TopScore
      <4>3. QED
        BY <2>4, <4>1, <4>2
    <3>2. CASE p = 2 * Rounds + 3 /\ OpAt(p) = "sum"
      <4>1. MineAt(p) = <<TopScore>> /\ MineAt(p + 1) = <<TopScore, Total>>
        BY <1>5, <3>2 DEF MineAt
      <4>2. sh[Red(0)] = Total
        BY <2>3, <3>2 DEF Total
      <4>3. QED
        BY <2>4, <4>1, <4>2
    <3>3. QED
      BY <1>4, <3>1, <3>2
  <2>6. QED
    BY <1>1, <1>2, <1>3, <2>5, MineStep DEF BlockInv
<1>10. QED
  BY <1>3, <1>6, <1>7, <1>8, <1>9 DEF BlockInv

\* The exponentials: each thread's scores are still scores.
LEMMA ExpSumKeeps ==
  ASSUME BlockInv, NEW t \in Threads, ExpSum(t)
  PROVE  BlockInv'
<1>. DEFINE p == passed[t]
            E(c) == Exp(Score(c), TopScore)
<1>1. /\ Running(t, [do |-> "exp"])
      /\ sh' = [c \in DOMAIN sh |->
                  IF c = Red(t)
                  THEN SetToBag({Term(First + i, Exp(sh[i], mine[t][1])) : i \in Stripe(t, Count)})
                  ELSE IF c \in Stripe(t, Count) THEN Exp(sh[c], mine[t][1])
                  ELSE sh[c]]
      /\ mine' = mine /\ x' = x /\ out' = out
  BY DEF ExpSum
<1>2. DOMAIN sh' = DOMAIN sh
  BY <1>1
<1>3. /\ Together' /\ launch \in Launches /\ launch' = launch
      /\ p \in 0 .. Len(Program) - 1 /\ [do |-> "exp"] = Program[p + 1]
      /\ passed'[t] = p + 1 /\ \A u \in Threads \ {t} : passed'[u] = passed[u]
  BY <1>1, <1>2, StepTogether DEF BlockInv
<1>4. /\ Kernel = "attention" /\ p = Rounds + 2 /\ p + 1 # Len(Program)
      /\ OpAt(p + 1) = "sum" /\ RoundsAt(p + 1) = 0
  BY <1>3, Places
<1>5. Rounds \in Nat
  BY Widths
<1>6. /\ Red(t) \in DOMAIN sh
      /\ \A u \in Threads \ {t} : Red(u) \in DOMAIN sh /\ Red(u) # Red(t)
      /\ Count \in Nat
      /\ \A c \in 0 .. Count - 1 : c \in DOMAIN sh /\ \A u \in Threads : c # Red(u)
  BY <1>3, <1>4, Layout DEF BlockInv, Together
<1>7. RowRight' /\ OutRight'
  <2>1. p \in 1 .. Len(Program) - 2
    BY <1>3, <1>4, <1>5, ProgramStages
  <2>2. QED
    BY <1>1, <1>3, <2>1, MiddleKeeps
<1>8. mine[t][1] = TopScore
  BY <1>4, <1>5 DEF BlockInv, MineRight, MineAt
<1>9. \A i \in Stripe(t, Count) : i \in 0 .. Count - 1 /\ sh[i] = Score(i)
  <2>1. ASSUME NEW i \in Stripe(t, Count) PROVE i \in 0 .. Count - 1 /\ sh[i] = Score(i)
    <3>1. i \in 0 .. Count - 1 /\ i % BlockDim = t
      BY <1>6, Owner
    <3>2. ScoreAt(sh[i], i, p)
      BY <1>4, <3>1 DEF BlockInv, ScoresRight
    <3>3. QED
      BY <1>4, <1>5, <3>1, <3>2 DEF ScoreAt
  <2>2. QED
    BY <2>1
<1>10. CellsRight'
  <2>1. {Term(First + i, Exp(sh[i], mine[t][1])) : i \in Stripe(t, Count)}
          = {Term(First + i, Exp(Score(i), TopScore)) : i \in Stripe(t, Count)}
    BY <1>8, <1>9
  <2>2. sh'[Red(t)] = Of("sum", Part("sum", t))
    BY <1>1, <1>4, <1>6, <2>1 DEF Of, Part
  <2>3. \A u \in Threads \ {t} : sh'[Red(u)] = sh[Red(u)]
    BY <1>1, <1>6, <1>9
  <2>4. p + 1 \in Nat
    BY <1>4, <1>5
  <2>5. QED
    BY <1>3, <1>4, <2>2, <2>3, <2>4, FirstCell, CellsStep DEF BlockInv
<1>11. ScoresRight'
  <2>1. ASSUME NEW c \in 0 .. Count - 1
        PROVE  IF c % BlockDim = t THEN ScoreAt(sh'[c], c, passed'[t]) ELSE sh'[c] = sh[c]
    <3>1. c \in DOMAIN sh /\ c # Red(t) /\ (c \in Stripe(t, Count) <=> c % BlockDim = t)
      BY <1>6 DEF Stripe
    <3>2. CASE c % BlockDim = t
      <4>1. sh'[c] = E(c)
        BY <1>1, <1>8, <1>9, <3>1, <3>2
      <4>2. QED
        BY <1>3, <1>4, <1>5, <3>2, <4>1 DEF ScoreAt
    <3>3. CASE c % BlockDim # t
      BY <1>1, <3>1, <3>3
    <3>4. QED
      BY <3>2, <3>3
  <2>2. QED
    BY <1>3, <2>1, ScoresStep DEF BlockInv
<1>12. MineRight'
  <2>1. MineAt(p + 1) = MineAt(p)
    BY <1>4, <1>5 DEF MineAt
  <2>2. mine'[t] = MineAt(passed'[t])
    BY <1>1, <1>3, <1>4, <2>1 DEF BlockInv, MineRight
  <2>3. QED
    BY <1>1, <1>3, <2>2, MineStep DEF BlockInv
<1>13. QED
  BY <1>3, <1>7, <1>10, <1>11, <1>12 DEF BlockInv

\* The last stage: all scores are exponentials, and the sum is whole.
LEMMA WriteKeeps ==
  ASSUME BlockInv, NEW t \in Threads, Write(t)
  PROVE  BlockInv'
<1>. DEFINE p == passed[t]
<1>1. /\ Running(t, [do |-> "write"])
      /\ out' = [d \in DOMAIN out \cup Outputs(t) |-> IF d \in Outputs(t) THEN Output(t, d) ELSE out[d]]
      /\ sh' = sh /\ mine' = mine /\ x' = x
  BY DEF Write
<1>2. /\ Together' /\ launch \in Launches /\ launch' = launch
      /\ p \in 0 .. Len(Program) - 1 /\ [do |-> "write"] = Program[p + 1]
      /\ passed'[t] = p + 1 /\ \A u \in Threads \ {t} : passed'[u] = passed[u]
      /\ \A u \in Threads : passed[u] \in {p, p + 1}
  BY <1>1, StepTogether DEF BlockInv
<1>3. /\ p + 1 = Len(Program) /\ p > 0
      /\ p = IF Kernel = "attention" THEN 2 * Rounds + 4 ELSE Rounds + 1
      /\ OpAt(p) = "sum" /\ OpAt(p + 1) = "sum"
      /\ RoundsAt(p) = Rounds /\ RoundsAt(p + 1) = Rounds
  BY <1>2, Places
<1>4. Rounds \in Nat
  BY Widths
<1>5. CellsRight'
  <2>1. CellAt(sh[Red(t)], t, p)
    BY DEF BlockInv, CellsRight
  <2>2. CellAt(sh[Red(t)], t, p + 1)
    BY <1>3, <2>1 DEF CellAt
  <2>3. QED
    BY <1>1, <1>2, <2>2, CellsStep DEF BlockInv
<1>6. ScoresRight'
  <2>1. ASSUME Kernel = "attention", NEW c \in 0 .. Count - 1
        PROVE  IF c % BlockDim = t THEN ScoreAt(sh'[c], c, passed'[t]) ELSE sh'[c] = sh[c]
    <3>1. ScoreAt(sh[c], c, passed[c % BlockDim])
      BY <2>1 DEF BlockInv, ScoresRight
    <3>2. ScoreAt(sh[c], c, p) => ScoreAt(sh[c], c, p + 1)
      BY <1>3, <1>4, <2>1 DEF ScoreAt
    <3>3. QED
      BY <1>1, <1>2, <3>1, <3>2
  <2>2. QED
    BY <1>2, <2>1, ScoresStep DEF BlockInv
<1>7. MineRight'
  <2>1. Kernel = "attention" => MineAt(p + 1) = MineAt(p)
    BY <1>3, <1>4 DEF MineAt
  <2>2. Kernel = "attention" => mine'[t] = MineAt(passed'[t])
    BY <1>1, <1>2, <2>1 DEF BlockInv, MineRight
  <2>3. QED
    BY <1>1, <1>2, <2>2, MineStep DEF BlockInv
<1>8. RowRight'
  <2>1. ASSUME Kernel = "norm", NEW i \in 0 .. launch.hidden - 1
        PROVE  IF i % BlockDim = t THEN x'[i] = RowAt(passed'[t]) ELSE x'[i] = x[i]
    <3>1. RowAt(p + 1) = RowAt(p)
      BY <1>2, <1>3 DEF RowAt
    <3>2. x[i] = RowAt(passed[i % BlockDim])
      BY <2>1 DEF BlockInv, RowRight
    <3>3. QED
      BY <1>1, <1>2, <3>1, <3>2
  <2>2. QED
    BY <1>1, <1>2, <2>1, RowStep DEF BlockInv
<1>9. passed[0] > 0 /\ RoundsAt(passed[0]) = Rounds /\ OpAt(passed[0]) = "sum"
  <2>1. passed[0] = p \/ passed[0] = p + 1
    BY <1>2, Groups
  <2>2. CASE passed[0] = p
    BY <1>3, <2>2
  <2>3. CASE passed[0] = p + 1
    BY <1>2, <1>3, <2>3
  <2>4. QED
    BY <2>1, <2>2, <2>3
<1>10. sh[Red(0)] = Total
  BY <1>9, RootHolds DEF Total
<1>11. ASSUME NEW d \in Outputs(t) PROVE Output(t, d) = Result
  <2>1. CASE Kernel = "attention"
    <3>1. mine[t][2] = Total
      BY <1>3, <1>4, <2>1 DEF BlockInv, MineRight, MineAt
    <3>2. ASSUME NEW i \in 0 .. Count - 1 PROVE sh[i] = Exp(Score(i), TopScore)
      <4>1. ScoreAt(sh[i], i, passed[i % BlockDim])
        BY <2>1 DEF BlockInv, ScoresRight
      <4>2. i % BlockDim \in Threads
        <5>1. Count \in Nat
          BY <1>2, <2>1, Layout
        <5>2. QED
          BY <5>1, Owner
      <4>3. passed[i % BlockDim] > Rounds + 2
        BY <1>2, <1>3, <1>4, <2>1, <4>2
      <4>4. QED
        BY <4>1, <4>3 DEF ScoreAt
    <3>3. {Term(First + i, sh[i]) : i \in 0 .. Count - 1}
            = {Term(First + i, Exp(Score(i), TopScore)) : i \in 0 .. Count - 1}
      BY <3>2
    <3>4. QED
      BY <2>1, <3>1, <3>3 DEF Output, Result
  <2>2. CASE Kernel = "w4"
    BY <1>10, <2>2 DEF Output, Result
  <2>3. CASE Kernel = "norm"
    <3>1. d \in 0 .. launch.hidden - 1 /\ d % BlockDim = t
      BY <1>2, <2>3, OfLaunch, Owner DEF Outputs
    <3>2. x[d] = RowAt(p)
      BY <2>3, <3>1 DEF BlockInv, RowRight
    <3>3. x[d] = Row
      BY <1>3, <3>2 DEF RowAt
    <3>4. QED
      BY <1>10, <2>3, <3>3 DEF Output, Result
  <2>4. QED
    BY <1>2, <2>1, <2>2, <2>3, OfLaunch
<1>12. OutRight'
  <2>1. Program' = Program /\ Outputs(t)' = Outputs(t)
    BY <1>2, Frozen
  <2>2. WrittenBy(t) = {} /\ WrittenBy(t)' = Outputs(t)
    BY <1>2, <1>3, <2>1 DEF WrittenBy
  <2>3. out' = [d \in DOMAIN out \cup WrittenBy(t)' |-> IF d \in WrittenBy(t)' THEN Result ELSE out[d]]
    BY <1>1, <1>11, <2>2
  <2>4. QED
    BY <1>2, <2>2, <2>3, OutStep DEF BlockInv
<1>13. QED
  BY <1>2, <1>5, <1>6, <1>7, <1>8, <1>12 DEF BlockInv

\* The invariant holds at first,
LEMMA BlockInvInit == BlockInit => BlockInv
<1>. SUFFICES ASSUME BlockInit PROVE BlockInv
  OBVIOUS
<1>1. /\ launch \in Launches
      /\ passed = [t \in Threads |-> 0]
      /\ sh = [c \in 0 .. ScoreCap + BlockDim - 1 |-> Lowest]
      /\ mine = [t \in Threads |-> <<>>]
      /\ x = IF Kernel = "norm"
             THEN [i \in 0 .. launch.hidden - 1 |-> IF launch.fused THEN {"x"} ELSE {"x", "res"}]
             ELSE <<>>
      /\ out = <<>>
  BY DEF BlockInit
<1>2. Rounds \in Nat /\ Len(Program) \in Nat /\ Len(Program) > 0
  <2>1. Rounds \in Nat
    BY Widths
  <2>2. CASE Kernel = "attention"
    BY <2>1, <2>2, LongProgram
  <2>3. CASE Kernel # "attention"
    BY <2>1, <2>3, ShortProgram
  <2>4. QED
    BY <2>1, <2>2, <2>3
<1>3. Together
  BY <1>1, <1>2 DEF Together
<1>4. CellsRight
  BY <1>1 DEF CellsRight, CellAt
<1>5. ScoresRight
  <2>1. ASSUME Kernel = "attention", NEW c \in 0 .. Count - 1 PROVE ScoreAt(sh[c], c, passed[c % BlockDim])
    <3>1. c % BlockDim \in Threads
      <4>1. Count \in Nat
        BY <1>1, <2>1, OfLaunch, BlockAssumption
      <4>2. QED
        BY <4>1, Owner
    <3>2. passed[c % BlockDim] = 0
      BY <1>1, <3>1
    <3>3. QED
      BY <1>2, <3>2 DEF ScoreAt
  <2>2. QED
    BY <2>1 DEF ScoresRight
<1>6. MineRight
  BY <1>1, <1>2 DEF MineRight, MineAt
<1>7. RowRight
  <2>1. ASSUME Kernel = "norm", NEW i \in 0 .. launch.hidden - 1 PROVE x[i] = RowAt(passed[i % BlockDim])
    <3>1. i % BlockDim \in Threads
      BY <1>1, <2>1, OfLaunch, Owner
    <3>2. passed[i % BlockDim] = 0
      BY <1>1, <3>1
    <3>3. QED
      BY <1>1, <2>1, <3>2 DEF RowAt, Row
  <2>2. QED
    BY <1>1, <2>1 DEF RowRight
<1>8. OutRight
  <2>1. \A t \in Threads : WrittenBy(t) = {}
    BY <1>1, <1>2 DEF WrittenBy
  <2>2. Written = {}
    BY <2>1 DEF Written
  <2>3. QED
    BY <1>1, <2>2 DEF OutRight
<1>9. QED
  BY <1>3, <1>4, <1>5, <1>6, <1>7, <1>8 DEF BlockInv

\* when nothing moves,
LEMMA BlockInvStays == BlockInv /\ UNCHANGED blockVars => BlockInv'
<1>. SUFFICES ASSUME BlockInv, UNCHANGED blockVars PROVE BlockInv'
  OBVIOUS
<1>1. launch' = launch /\ passed' = passed /\ sh' = sh /\ mine' = mine /\ x' = x /\ out' = out
  BY DEF blockVars
<1>2. /\ Program' = Program /\ Kernel' = Kernel /\ Count' = Count /\ Result' = Result
      /\ \A t : Red(t)' = Red(t) /\ Outputs(t)' = Outputs(t)
      /\ \A v, t, p : CellAt(v, t, p)' <=> CellAt(v, t, p)
      /\ \A v, c, p : ScoreAt(v, c, p)' <=> ScoreAt(v, c, p)
      /\ \A p : MineAt(p)' = MineAt(p) /\ RowAt(p)' = RowAt(p)
  BY <1>1, Frozen
<1>3. Together'
  BY <1>1, <1>2 DEF BlockInv, Together
<1>4. CellsRight' /\ ScoresRight'
  BY <1>1, <1>2 DEF BlockInv, CellsRight, ScoresRight
<1>5. MineRight' /\ RowRight'
  BY <1>1, <1>2 DEF BlockInv, MineRight, RowRight
<1>6. OutRight'
  <2>1. \A t : WrittenBy(t)' = WrittenBy(t)
    BY <1>1, <1>2 DEF WrittenBy
  <2>2. Written' = Written
    BY <2>1 DEF Written
  <2>3. QED
    BY <1>1, <1>2, <2>2 DEF BlockInv, OutRight
<1>7. QED
  BY <1>3, <1>4, <1>5, <1>6 DEF BlockInv

\* and from step to step.
LEMMA BlockInvNext == BlockInv /\ [BlockNext]_blockVars => BlockInv'
BY LoadKeeps, ReduceKeeps, ReadKeeps, ExpSumKeeps, WriteKeeps, BlockInvStays DEF BlockNext

-----------------------------------------------------------------------------
(* When all have finished.                                                 *)

\* Then the output is what its threads write, everywhere the result.
LEMMA OutAtEnd ==
  ASSUME BlockInv, Finished
  PROVE  out = [d \in UNION {Outputs(t) : t \in Threads} |-> Result]
<1>1. \A t \in Threads : WrittenBy(t) = Outputs(t)
  BY DEF Finished, WrittenBy
<1>2. Written = UNION {Outputs(t) : t \in Threads}
  BY <1>1 DEF Written
<1>3. QED
  BY <1>2 DEF BlockInv, OutRight

\* The stripes of the threads are everything.
LEMMA Stripes ==
  ASSUME NEW n \in Nat
  PROVE  UNION {Stripe(t, n) : t \in Threads} = 0 .. n - 1
BY Owner

\* And the result is what the kernels' comments say.
LEMMA AttentionAtEnd == BlockInv => AttentionRight
<1>. SUFFICES ASSUME BlockInv, Kernel = "attention", Finished
              PROVE  LET seen == {p \in 0 .. launch.len - 1 : launch.window = 0 \/ p >= launch.len - launch.window}
                         max == MaxOf({launch.score[p + 1] : p \in seen})
                         terms == {Term(p, Exp(launch.score[p + 1], max)) : p \in seen}
                     IN  out = [d \in 0 .. launch.headDim - 1 |-> [terms |-> terms, sum |-> SetToBag(terms)]]
  BY DEF AttentionRight
<1>. DEFINE seen == {p \in 0 .. launch.len - 1 : launch.window = 0 \/ p >= launch.len - launch.window}
            max == MaxOf({launch.score[p + 1] : p \in seen})
            terms == {Term(p, Exp(launch.score[p + 1], max)) : p \in seen}
<1>1. launch \in Launches
  BY DEF BlockInv, Together
<1>2. /\ launch.len \in Nat \ {0} /\ launch.window \in Nat /\ launch.headDim \in Nat
      /\ Count \in Nat /\ First \in Nat /\ First + Count = launch.len
  BY <1>1, OfLaunch, BlockAssumption
<1>3. seen = First .. launch.len - 1
  BY <1>2 DEF First
<1>4. /\ \A i \in 0 .. Count - 1 : First + i \in seen /\ Score(i) = launch.score[First + i + 1]
      /\ \A q \in seen : q - First \in 0 .. Count - 1 /\ First + (q - First) = q
  BY <1>2, <1>3 DEF Score
<1>. HIDE DEF seen
<1>5. {Score(i) : i \in 0 .. Count - 1} = {launch.score[q + 1] : q \in seen}
  <2>1. \A q \in seen : launch.score[q + 1] = Score(q - First)
    BY <1>4
  <2>2. QED
    BY <1>4, <2>1
<1>6. TopScore = max
  BY <1>5 DEF TopScore
<1>. HIDE DEF max
<1>7. {Term(First + i, Exp(Score(i), TopScore)) : i \in 0 .. Count - 1} = terms
  <2>. DEFINE T(q) == Term(q, Exp(launch.score[q + 1], max))
  <2>1. \A i \in 0 .. Count - 1 : First + i \in seen /\ Term(First + i, Exp(Score(i), TopScore)) = T(First + i)
    BY <1>4, <1>6
  <2>2. \A q \in seen : T(q) = Term(First + (q - First), Exp(Score(q - First), TopScore))
    BY <1>4, <2>1
  <2>3. terms = {T(q) : q \in seen}
    OBVIOUS
  <2>. HIDE DEF T, terms
  <2>4. QED
    BY <1>4, <2>1, <2>2, <2>3
<1>. HIDE DEF terms
<1>8. Total = SetToBag(terms)
  BY <1>1, <1>7, AllParts DEF Total, Of
<1>9. Result = [terms |-> terms, sum |-> SetToBag(terms)]
  BY <1>7, <1>8 DEF Result
<1>10. UNION {Outputs(t) : t \in Threads} = 0 .. launch.headDim - 1
  <2>1. \A t \in Threads : Outputs(t) = Stripe(t, launch.headDim)
    BY DEF Outputs
  <2>2. QED
    BY <1>2, <2>1, Stripes
<1>11. out = [d \in 0 .. launch.headDim - 1 |-> [terms |-> terms, sum |-> SetToBag(terms)]]
  BY <1>9, <1>10, OutAtEnd
<1>12. QED
  BY <1>11 DEF terms, max, seen

\* The same for a product,
LEMMA ProductAtEnd == BlockInv => W4Right
<1>. SUFFICES ASSUME BlockInv, Kernel = "w4", Finished
              PROVE  out = [d \in {0} |-> SetToBag({Product(j, j \div launch.group, j) : j \in 0 .. launch.k - 1})]
  BY DEF W4Right
<1>1. launch \in Launches
  BY DEF BlockInv, Together
<1>2. UNION {Outputs(t) : t \in Threads} = {0}
  BY Groups DEF Outputs
<1>3. Result = SetToBag({Product(j, j \div launch.group, j) : j \in 0 .. launch.k - 1})
  BY <1>1, AllParts DEF Result, Total, Of
<1>4. QED
  BY <1>2, <1>3, OutAtEnd

\* and for a norm.
LEMMA NormAtEnd == BlockInv => NormRight
<1>. SUFFICES ASSUME BlockInv, Kernel = "norm", Finished
              PROVE  out = [i \in 0 .. launch.hidden - 1 |->
                              [x |-> {"x", "res"},
                               sum |-> SetToBag({Square(j, {"x", "res"}) : j \in 0 .. launch.hidden - 1})]]
  BY DEF NormRight
<1>1. launch \in Launches
  BY DEF BlockInv, Together
<1>2. launch.hidden \in Nat
  BY <1>1, OfLaunch
<1>3. UNION {Outputs(t) : t \in Threads} = 0 .. launch.hidden - 1
  <2>1. \A t \in Threads : Outputs(t) = Stripe(t, launch.hidden)
    BY DEF Outputs
  <2>2. QED
    BY <1>2, <2>1, Stripes
<1>4. PartsOf("sum", Threads) = {Square(j, {"x", "res"}) : j \in 0 .. launch.hidden - 1}
  BY <1>1, AllParts DEF Row
<1>5. Result = [x |-> {"x", "res"}, sum |-> SetToBag({Square(j, {"x", "res"}) : j \in 0 .. launch.hidden - 1})]
  BY <1>4 DEF Result, Total, Of, Row
<1>6. QED
  BY <1>3, <1>5, OutAtEnd

\* Every schedule keeps the invariant.
LEMMA BlockInvHolds == BlockSpec => []BlockInv
<1>1. QED
  BY BlockInvInit, BlockInvNext, PTL DEF BlockSpec

\* For any power of two of threads and any launch, attn_paged_par_kernel leaves
\* in every output the mixture attn_paged_kernel does: the window's positions,
\* each once, under one maximum and one sum, however its threads run.
THEOREM AttentionIsRight == BlockSpec => []AttentionRight
<1>1. QED
  BY BlockInvHolds, AttentionAtEnd, PTL

\* Both kernels w4_matmul chooses from (v1 and v2) add up every column once,
\* with the scale of its own group: the vectorized one is only taken where a
\* word of eight columns has one scale.
THEOREM ProductIsRight == BlockSpec => []W4Right
<1>1. QED
  BY BlockInvHolds, ProductAtEnd, PTL

\* rmsnorm and add_rmsnorm scale every element, the residual added once, by the
\* sum of all squares.
THEOREM NormIsRight == BlockSpec => []NormRight
<1>1. QED
  BY BlockInvHolds, NormAtEnd, PTL
=============================================================================
