--------------------------- MODULE MoERoutingProofs ---------------------------
(***************************************************************************)
(* Proofs about moe_forward, for any number of experts, tokens and calls   *)
(* and any scores: what the router picks, where the permutation puts it,   *)
(* and that every token gets its mixture.                                  *)
(***************************************************************************)
EXTENDS MoERouting, FiniteSetTheorems, WellFoundedInduction, TLAPS

-----------------------------------------------------------------------------
(* Induction over the numbers up to a bound.                               *)

\* A set of naturals has a least element.
LEMMA LeastOf ==
  ASSUME NEW T \in SUBSET Nat, T # {}
  PROVE  \E x \in T : \A y \in T : x <= y
<1>. DEFINE R == {ss \in Nat \X Nat : ss[1] < ss[2]}
<1>1. IsWellFoundedOn(R, Nat)
  <2>1. IsWellFoundedOn(OpToRel(<, Nat), Nat)
    BY NatLessThanWellFounded
  <2>2. QED
    BY <2>1, Zenon DEF OpToRel
<1>2. PICK x \in T : \A y \in T : ~ (<<y, x>> \in R)
  BY <1>1, WFMin, Zenon
<1>3. ASSUME NEW y \in T PROVE x <= y
  <2>1. ~ (<<y, x>> \in R)
    BY <1>2
  <2>2. x \in Nat /\ y \in Nat /\ ~ (y < x)
    BY <2>1
  <2>3. QED
    BY <2>2
<1>4. QED
  BY <1>3

\* A set with 0 that with a number below n has the next has all up to n.
LEMMA UpTo ==
  ASSUME NEW n \in Nat, NEW S, 0 \in S, \A i \in 1 .. n : i - 1 \in S => i \in S
  PROVE  0 .. n \subseteq S
<1>. DEFINE T == (0 .. n) \ S
<1>1. ASSUME T # {} PROVE FALSE
  <2>. T \in SUBSET Nat
    OBVIOUS
  <2>. HIDE DEF T
  <2>1. PICK x \in T : \A y \in T : x <= y
    BY <1>1, LeastOf
  <2>. USE DEF T
  <2>2. x \in 1 .. n
    OBVIOUS
  <2>3. x - 1 \notin T
    BY <2>1, <2>2
  <2>4. QED
    BY <2>2, <2>3
<1>2. QED
  BY <1>1

\* Steps that lead from members of D to members of D, and a path by them.
Steps(n, D) == [1 .. n -> [D -> D]]
Follows(f, n, D, a, g) == f \in [0 .. n -> D] /\ f[0] = a /\ \A i \in 1 .. n : f[i] = g[i][f[i - 1]]

\* A function can be defined by its first value and by each from the one before.
LEMMA StepByStep ==
  ASSUME NEW n \in Nat, NEW D, NEW g, g \in Steps(n, D), NEW a \in D
  PROVE  \E f : Follows(f, n, D, a, g)
<1>. USE DEF Steps, Follows
<1>. DEFINE Rule(f, m) == f \in [0 .. m -> D] /\ f[0] = a /\ \A i \in 1 .. m : f[i] = g[i][f[i - 1]]
            S == {m \in 0 .. n : \E f : Rule(f, m)}
<1>1. 0 \in S
  <2>1. Rule([i \in 0 .. 0 |-> a], 0)
    OBVIOUS
  <2>2. \E f : Rule(f, 0)
    BY <2>1
  <2>3. 0 \in 0 .. n
    OBVIOUS
  <2>4. QED
    BY <2>2, <2>3
<1>2. ASSUME NEW m \in 1 .. n, m - 1 \in S PROVE m \in S
  <2>1. PICK f : Rule(f, m - 1)
    BY <1>2
  <2>. DEFINE h == [i \in 0 .. m |-> IF i = m THEN g[m][f[m - 1]] ELSE f[i]]
  <2>2. Rule(h, m)
    <3>1. m - 1 \in 0 .. m - 1 /\ m \in Nat /\ m > 0
      OBVIOUS
    <3>2. h \in [0 .. m -> D]
      BY <2>1, <3>1
    <3>3. ASSUME NEW i \in 1 .. m PROVE h[i] = g[i][h[i - 1]]
      <4>1. i - 1 \in 0 .. m - 1 /\ i \in 0 .. m /\ i - 1 \in 0 .. m /\ i - 1 # m
        BY <3>1
      <4>2. h[i - 1] = f[i - 1]
        BY <4>1
      <4>3. CASE i = m
        BY <4>1, <4>2, <4>3
      <4>4. CASE i # m
        <5>1. h[i] = f[i] /\ i \in 1 .. m - 1
          BY <4>1, <4>4
        <5>2. QED
          BY <2>1, <4>2, <5>1
      <4>5. QED
        BY <4>3, <4>4
    <3>4. h[0] = a
      BY <2>1, <3>1
    <3>5. QED
      BY <3>2, <3>3, <3>4
  <2>. HIDE DEF h, Rule
  <2>3. \E x : Rule(x, m)
    BY <2>2
  <2>4. QED
    BY <2>3
<1>3. n \in S
  <2>. HIDE DEF S
  <2>1. 0 .. n \subseteq S
    BY <1>1, <1>2, UpTo
  <2>2. QED
    BY <2>1
<1>4. QED
  BY <1>3

-----------------------------------------------------------------------------
(* The router.                                                             *)

LEMMA Sizes ==
  /\ NumExperts \in Nat \ {0} /\ TopK \in 1 .. NumExperts /\ TopK \in Nat /\ MaxTokens \in Nat \ {0}
  /\ Scores \subseteq Nat /\ 0 \notin Experts /\ Experts \subseteq Nat
BY MoEAssumption DEF MoEAssumption, Experts

\* Ahead orders the experts.
LEMMA AheadOrders ==
  ASSUME bias \in [Experts -> Int], NEW row \in [Experts -> Int]
  PROVE  /\ \A e \in Experts : Metric(row, e) \in Int /\ ~ Ahead(row, e, e)
         /\ \A e, f \in Experts : e # f => Ahead(row, e, f) \/ Ahead(row, f, e)
         /\ \A e, f \in Experts : ~ (Ahead(row, e, f) /\ Ahead(row, f, e))
         /\ \A e, f, g \in Experts : Ahead(row, e, f) /\ Ahead(row, f, g) => Ahead(row, e, g)
<1>1. \A e \in Experts : Metric(row, e) \in Int /\ e \in Nat
  BY DEF Metric, Experts
<1>. HIDE DEF Metric
<1>2. QED
  BY <1>1 DEF Ahead

NextBest(row, used, b, e) ==
  IF e \notin used /\ (b = 0 \/ Metric(row, e) > Metric(row, b)) THEN e ELSE b

\* The scan of route_kernel over the experts.
LEMMA BestLoop ==
  ASSUME NEW row, NEW used
  PROVE  \E f : /\ f[0] = 0
                /\ \A e \in Experts : f[e] = NextBest(row, used, f[e - 1], e)
                /\ Best(row, used) = f[NumExperts] /\ f[NumExperts] \in Int
<1>. DEFINE R(p) == [e \in 0 .. NumExperts |-> IF e = 0 THEN 0 ELSE NextBest(row, used, p[e - 1], e)]
            g == [e \in 1 .. NumExperts |-> [b \in Int |-> NextBest(row, used, b, e)]]
<1>1. NumExperts \in Nat /\ Experts = 1 .. NumExperts
  BY Sizes DEF Experts
<1>2. \A b \in Int : \A e \in 1 .. NumExperts : NextBest(row, used, b, e) \in Int
  BY DEF NextBest
<1>3. \A e \in 1 .. NumExperts : g[e] = [b \in Int |-> NextBest(row, used, b, e)]
  OBVIOUS
<1>. HIDE DEF g
<1>4. g \in [1 .. NumExperts -> [Int -> Int]]
  <2>1. \A e \in 1 .. NumExperts : g[e] \in [Int -> Int]
    BY <1>2, <1>3
  <2>2. QED
    BY <2>1 DEF g
<1>5. PICK f \in [0 .. NumExperts -> Int] :
        f[0] = 0 /\ \A e \in 1 .. NumExperts : f[e] = g[e][f[e - 1]]
  <2>1. 0 \in Int
    OBVIOUS
  <2>2. \E f : Follows(f, NumExperts, Int, 0, g)
    <3>1. g \in Steps(NumExperts, Int)
      BY <1>4 DEF Steps
    <3>2. QED
      BY <1>1, <2>1, <3>1, StepByStep
  <2>3. QED
    BY <2>2 DEF Follows
<1>6. ASSUME NEW e \in 1 .. NumExperts PROVE f[e] = NextBest(row, used, f[e - 1], e)
  <2>1. e - 1 \in 0 .. NumExperts
    BY <1>1
  <2>2. f[e - 1] \in Int
    BY <2>1, <1>5
  <2>3. g[e][f[e - 1]] = NextBest(row, used, f[e - 1], e)
    BY <1>3, <2>2
  <2>4. QED
    BY <1>5, <2>3
<1>7. f = R(f)
  BY <1>5, <1>6
<1>. DEFINE p == CHOOSE p : p = R(p)
<1>8. Best(row, used) = p[NumExperts]
  BY DEF Best, NextBest
<1>. HIDE DEF R
<1>9. p = R(p)
  BY <1>7
<1>. HIDE DEF p
<1>10. p = [e \in 0 .. NumExperts |-> IF e = 0 THEN 0 ELSE NextBest(row, used, p[e - 1], e)]
  BY <1>9 DEF R
<1>11. 0 \in 0 .. NumExperts /\ 1 .. NumExperts \subseteq 0 .. NumExperts /\ 0 \notin 1 .. NumExperts
  BY <1>1
<1>12. p[0] = 0 /\ \A e \in 1 .. NumExperts : p[e] = NextBest(row, used, p[e - 1], e)
  BY <1>10, <1>11, Zenon
<1>. DEFINE S == {e \in 0 .. NumExperts : p[e] \in Int}
<1>13. NumExperts \in S
  <2>1. 0 \in S
    BY <1>11, <1>12
  <2>2. ASSUME NEW e \in 1 .. NumExperts, e - 1 \in S PROVE e \in S
    BY <1>11, <1>12, <2>2 DEF NextBest
  <2>. HIDE DEF S
  <2>3. 0 .. NumExperts \subseteq S
    BY <1>1, <2>1, <2>2, UpTo
  <2>4. QED
    BY <1>1, <2>3
<1>14. QED
  BY <1>1, <1>8, <1>12, <1>13

\* The scan finds the expert not yet used that is ahead of all the others.
LEMMA BestRight ==
  ASSUME bias \in [Experts -> Int], NEW row \in [Experts -> Int], NEW used, NEW some \in Experts \ used
  PROVE  /\ Best(row, used) \in Experts \ used
         /\ \A e \in Experts \ used : e = Best(row, used) \/ Ahead(row, Best(row, used), e)
<1>1. PICK f : /\ f[0] = 0
               /\ \A e \in Experts : f[e] = NextBest(row, used, f[e - 1], e)
               /\ Best(row, used) = f[NumExperts]
  BY BestLoop
<1>. DEFINE Found(i) == IF (1 .. i) \subseteq used THEN f[i] = 0
                        ELSE /\ f[i] \in (1 .. i) \ used
                             /\ \A e \in (1 .. i) \ used : e = f[i] \/ Ahead(row, f[i], e)
            S == {i \in 0 .. NumExperts : Found(i)}
<1>2. NumExperts \in Nat /\ Experts = 1 .. NumExperts
  BY Sizes DEF Experts
<1>3. 0 \in S
  BY <1>1, <1>2
<1>4. ASSUME NEW i \in 1 .. NumExperts, i - 1 \in S PROVE i \in S
  <2>1. i \in Experts /\ i \in 0 .. NumExperts /\ i - 1 \in Nat /\ 1 .. i = (1 .. i - 1) \cup {i} /\ i \notin 1 .. i - 1
    BY <1>2
  <2>2. \A e \in 1 .. i : e \in Experts /\ e # 0
    BY <1>2
  <2>3. f[i] = NextBest(row, used, f[i - 1], i)
    BY <1>1, <2>1
  <2>4. Found(i - 1)
    BY <1>4
  <2>5. \A e \in 1 .. i - 1 : e < i /\ e \in Int
    OBVIOUS
  <2>6. \A e \in Experts : Metric(row, e) \in Int
    BY AheadOrders
  <2>7. CASE i \in used
    <3>1. f[i] = f[i - 1] /\ (1 .. i) \ used = (1 .. i - 1) \ used
      BY <2>1, <2>3, <2>7 DEF NextBest
    <3>2. (1 .. i) \subseteq used <=> (1 .. i - 1) \subseteq used
      BY <2>1, <2>7
    <3>3. f[i - 1] \in (1 .. i - 1) \ used => f[i] \in (1 .. i) \ used
      BY <3>1
    <3>4. Found(i)
      BY <2>4, <3>1, <3>2, <3>3
    <3>5. QED
      BY <2>1, <3>4
  <2>8. CASE i \notin used /\ (1 .. i - 1) \subseteq used
    <3>1. f[i] = i
      BY <2>3, <2>4, <2>8 DEF NextBest
    <3>2. (1 .. i) \ used = {i}
      BY <2>1, <2>8
    <3>3. Found(i)
      BY <3>1, <3>2
    <3>4. QED
      BY <2>1, <3>3
  <2>9. CASE i \notin used /\ ~ (1 .. i - 1) \subseteq used
    <3>. DEFINE b == f[i - 1]
    <3>1. b \in (1 .. i - 1) \ used /\ \A e \in (1 .. i - 1) \ used : e = b \/ Ahead(row, b, e)
      BY <2>4, <2>9
    <3>. HIDE DEF b
    <3>2. b \in Experts /\ b # 0 /\ b < i
      BY <2>1, <2>2, <2>5, <3>1
    <3>3. (1 .. i) \ used = ((1 .. i - 1) \ used) \cup {i}
      BY <2>1, <2>9
    <3>4. CASE Metric(row, i) > Metric(row, b)
      <4>1. f[i] = i /\ Ahead(row, i, b)
        BY <2>3, <2>9, <3>4 DEF NextBest, Ahead, b
      <4>2. \A e \in (1 .. i - 1) \ used : Ahead(row, i, e)
        BY <2>1, <2>2, <3>1, <3>2, <4>1, AheadOrders
      <4>3. Found(i)
        BY <3>3, <4>1, <4>2
      <4>4. QED
        BY <2>1, <4>3
    <3>5. CASE ~ Metric(row, i) > Metric(row, b)
      <4>1. f[i] = b
        BY <2>3, <3>2, <3>5 DEF NextBest, b
      <4>2. Ahead(row, b, i)
        BY <2>1, <2>6, <3>2, <3>5 DEF Ahead
      <4>3. Found(i)
        BY <3>1, <3>3, <4>1, <4>2
      <4>4. QED
        BY <2>1, <4>3
    <3>6. QED
      BY <3>4, <3>5
  <2>10. QED
    BY <2>7, <2>8, <2>9
<1>5. NumExperts \in S
  <2>. HIDE DEF S
  <2>1. 0 .. NumExperts \subseteq S
    BY <1>2, <1>3, <1>4, UpTo
  <2>2. QED
    BY <1>2, <2>1
<1>6. ~ (1 .. NumExperts) \subseteq used
  BY <1>2
<1>7. QED
  BY <1>1, <1>2, <1>5, <1>6

NextPick(row, q) == Append(q, Best(row, Range(q)))

\* The picks of route_kernel, one after the other.
LEMMA PicksLoop ==
  ASSUME NEW row
  PROVE  \E f : /\ f[0] = <<>>
                /\ \A i \in 1 .. TopK : f[i] = NextPick(row, f[i - 1])
                /\ Picks(row) = f[TopK]
<1>. DEFINE D == Seq(Int)
            R(p) == [i \in 0 .. TopK |-> IF i = 0 THEN <<>> ELSE NextPick(row, p[i - 1])]
            g == [i \in 1 .. TopK |-> [q \in D |-> NextPick(row, q)]]
<1>1. TopK \in Nat
  BY Sizes
<1>2. ASSUME NEW q \in D PROVE NextPick(row, q) \in D
  <2>1. Best(row, Range(q)) \in Int
    BY BestLoop
  <2>2. QED
    BY <2>1 DEF NextPick
<1>. HIDE DEF D
<1>3. \A i \in 1 .. TopK : g[i] = [q \in D |-> NextPick(row, q)]
  OBVIOUS
<1>4. [q \in D |-> NextPick(row, q)] \in [D -> D]
  BY <1>2
<1>5. g \in Steps(TopK, D)
  BY <1>4 DEF Steps
<1>. HIDE DEF g
<1>6. PICK f : Follows(f, TopK, D, <<>>, g)
  <2>1. <<>> \in D
    BY DEF D
  <2>2. QED
    BY <1>1, <1>5, <2>1, StepByStep
<1>7. f \in [0 .. TopK -> D] /\ f[0] = <<>> /\ \A i \in 1 .. TopK : f[i] = g[i][f[i - 1]]
  BY <1>6 DEF Follows
<1>8. ASSUME NEW i \in 1 .. TopK PROVE f[i] = NextPick(row, f[i - 1])
  <2>1. i - 1 \in 0 .. TopK
    BY <1>1
  <2>2. f[i - 1] \in D
    BY <2>1, <1>7
  <2>3. g[i][f[i - 1]] = NextPick(row, f[i - 1])
    BY <1>3, <2>2
  <2>4. QED
    BY <1>7, <2>3
<1>9. f = R(f)
  BY <1>7, <1>8
<1>. DEFINE p == CHOOSE p : p = R(p)
<1>10. Picks(row) = p[TopK]
  BY DEF Picks, NextPick
<1>. HIDE DEF R
<1>11. p = R(p)
  BY <1>9
<1>. HIDE DEF p
<1>12. p = [i \in 0 .. TopK |-> IF i = 0 THEN <<>> ELSE NextPick(row, p[i - 1])]
  BY <1>11 DEF R
<1>13. 0 \in 0 .. TopK /\ 1 .. TopK \subseteq 0 .. TopK /\ 0 \notin 1 .. TopK
  BY <1>1
<1>14. p[0] = <<>> /\ \A i \in 1 .. TopK : p[i] = NextPick(row, p[i - 1])
  BY <1>12, <1>13, Zenon
<1>15. QED
  BY <1>10, <1>14

\* As many picks as there are, without a repetition.
LEMMA CountOfPicks ==
  ASSUME NEW n \in Nat, NEW q \in [1 .. n -> Experts], \A i, j \in 1 .. n : q[i] = q[j] => i = j
  PROVE  IsFiniteSet({q[i] : i \in 1 .. n}) /\ Cardinality({q[i] : i \in 1 .. n}) = n
<1>. DEFINE U == {q[i] : i \in 1 .. n}
<1>1. q \in Bijection(1 .. n, U)
  BY DEF Bijection, Injection, Surjection, IsInjective
<1>2. ExistsBijection(1 .. n, U)
  BY <1>1 DEF ExistsBijection
<1>. HIDE DEF U
<1>3. IsFiniteSet(1 .. n) /\ Cardinality(1 .. n) = n
  BY FS_Interval
<1>4. IsFiniteSet(U) /\ Cardinality(U) = n
  BY <1>2, <1>3, FS_Bijection
<1>5. QED
  BY <1>4 DEF U

LEMMA CountOfExperts == IsFiniteSet(Experts) /\ Cardinality(Experts) = NumExperts
BY Sizes, FS_Interval DEF Experts

\* The picks are TopK experts ahead of all the others, each once.
LEMMA PicksLead ==
  ASSUME bias \in [Experts -> Int], NEW row \in [Experts -> Int]
  PROVE  /\ Picks(row) \in Seq(Experts) /\ Len(Picks(row)) = TopK
         /\ \A i, j \in 1 .. TopK : Picks(row)[i] = Picks(row)[j] => i = j
         /\ \A b \in Range(Picks(row)) : \A e \in Experts \ Range(Picks(row)) : Ahead(row, b, e)
<1>1. PICK f : /\ f[0] = <<>>
               /\ \A i \in 1 .. TopK : f[i] = NextPick(row, f[i - 1])
               /\ Picks(row) = f[TopK]
  BY PicksLoop
<1>. DEFINE Lead(q, n) == /\ q \in Seq(Experts) /\ Len(q) = n
                          /\ \A i, j \in 1 .. n : q[i] = q[j] => i = j
                          /\ \A b \in Range(q) : \A e \in Experts \ Range(q) : Ahead(row, b, e)
            S == {i \in 0 .. TopK : Lead(f[i], i)}
<1>2. TopK \in Nat /\ TopK <= NumExperts /\ NumExperts \in Nat
  BY Sizes
<1>3. 0 \in S
  <2>1. Range(<<>>) = {} /\ <<>> \in Seq(Experts) /\ Len(<<>>) = 0
    BY DEF Range
  <2>2. Lead(f[0], 0)
    BY <1>1, <2>1
  <2>3. QED
    BY <1>2, <2>2
<1>4. ASSUME NEW i \in 1 .. TopK, i - 1 \in S PROVE i \in S
  <2>. DEFINE q == f[i - 1]
              U == Range(q)
              b == Best(row, U)
  <2>1. Lead(q, i - 1) /\ i - 1 \in Nat
    BY <1>2, <1>4
  <2>2. f[i] = Append(q, b)
    BY <1>1 DEF NextPick
  <2>. HIDE DEF q
  <2>3. U = {q[j] : j \in 1 .. i - 1} /\ U \subseteq Experts /\ q \in [1 .. i - 1 -> Experts]
    BY <2>1 DEF Range
  <2>4. IsFiniteSet(U) /\ Cardinality(U) = i - 1
    BY <2>1, <2>3, CountOfPicks
  <2>. HIDE DEF U
  <2>5. PICK some \in Experts : some \notin U
    <3>1. U # Experts
      BY <1>2, <2>1, <2>4, CountOfExperts
    <3>2. QED
      BY <2>3, <3>1
  <2>6. b \in Experts \ U /\ \A e \in Experts \ U : e = b \/ Ahead(row, b, e)
    BY <2>5, BestRight
  <2>. HIDE DEF b
  <2>7. f[i] \in Seq(Experts) /\ Len(f[i]) = i
    BY <2>1, <2>2, <2>6
  <2>8. \A j \in 1 .. i : f[i][j] = IF j = i THEN b ELSE q[j]
    BY <2>1, <2>2
  <2>9. \A j \in 1 .. i - 1 : q[j] # b
    BY <2>3, <2>6
  <2>10. ASSUME NEW j \in 1 .. i, NEW k \in 1 .. i, f[i][j] = f[i][k] PROVE j = k
    <3>1. j # i => j \in 1 .. i - 1
      BY <2>1
    <3>2. k # i => k \in 1 .. i - 1
      BY <2>1
    <3>3. QED
      BY <2>1, <2>8, <2>9, <2>10, <3>1, <3>2
  <2>11. Range(f[i]) = U \cup {b}
    <3>1. DOMAIN f[i] = 1 .. i /\ 1 .. i = (1 .. i - 1) \cup {i} /\ i \notin 1 .. i - 1
      BY <2>1, <2>7
    <3>2. Range(f[i]) = {f[i][j] : j \in 1 .. i}
      BY <3>1 DEF Range
    <3>3. \A j \in 1 .. i - 1 : j \in 1 .. i /\ f[i][j] = q[j]
      BY <2>8, <3>1
    <3>4. i \in 1 .. i /\ f[i][i] = b
      BY <2>8, <3>1
    <3>5. ASSUME NEW x \in Range(f[i]) PROVE x \in U \cup {b}
      <4>1. PICK j \in 1 .. i : x = f[i][j]
        BY <3>2
      <4>2. QED
        BY <2>3, <3>1, <3>3, <3>4, <4>1
    <3>6. ASSUME NEW x \in U PROVE x \in Range(f[i])
      <4>1. PICK j \in 1 .. i - 1 : x = q[j]
        BY <2>3
      <4>2. QED
        BY <3>2, <3>3, <4>1
    <3>7. QED
      BY <3>2, <3>4, <3>5, <3>6
  <2>12. ASSUME NEW c \in U \cup {b}, NEW e \in Experts \ (U \cup {b}) PROVE Ahead(row, c, e)
    BY <2>1, <2>6 DEF U
  <2>13. Lead(f[i], i)
    BY <2>7, <2>10, <2>11, <2>12
  <2>. HIDE DEF Lead
  <2>14. i \in 0 .. TopK
    BY <1>2
  <2>15. QED
    BY <2>13, <2>14
<1>5. TopK \in S
  <2>. HIDE DEF S
  <2>1. 0 .. TopK \subseteq S
    BY <1>2, <1>3, <1>4, UpTo
  <2>2. QED
    BY <1>2, <2>1
<1>6. QED
  BY <1>1, <1>5

\* What the loop of route_kernel picks are the token's experts: those that fewer
\* than TopK others are ahead of, each once, at a tie of scores too.
THEOREM PicksRight ==
  ASSUME bias \in [Experts -> Int], NEW row \in [Experts -> Int]
  PROVE  /\ Picks(row) \in [1 .. TopK -> Experts]
         /\ \A i, j \in 1 .. TopK : Picks(row)[i] = Picks(row)[j] => i = j
         /\ {Picks(row)[i] : i \in 1 .. TopK} = Chosen(row)
<1>. DEFINE q == Picks(row)
            U == {q[i] : i \in 1 .. TopK}
            Leaders(e) == {f \in Experts : Ahead(row, f, e)}
<1>1. /\ q \in Seq(Experts) /\ Len(q) = TopK
      /\ \A i, j \in 1 .. TopK : q[i] = q[j] => i = j
      /\ \A b \in Range(q) : \A e \in Experts \ Range(q) : Ahead(row, b, e)
  BY PicksLead
<1>. HIDE DEF q
<1>2. q \in [1 .. TopK -> Experts] /\ Range(q) = U /\ U \subseteq Experts /\ TopK \in Nat
  BY <1>1, Sizes DEF Range
<1>3. IsFiniteSet(U) /\ Cardinality(U) = TopK
  BY <1>1, <1>2, CountOfPicks
<1>. HIDE DEF U
<1>4. ASSUME NEW e \in Experts PROVE IsFiniteSet(Leaders(e)) /\ Cardinality(Leaders(e)) \in Nat
  <2>1. Leaders(e) \in SUBSET Experts
    OBVIOUS
  <2>. HIDE DEF Leaders
  <2>2. QED
    BY <2>1, CountOfExperts, FS_Subset, FS_CardinalityType
<1>5. ASSUME NEW e \in U PROVE e \in Experts /\ Cardinality(Leaders(e)) < TopK
  <2>1. e \in Experts
    BY <1>2
  <2>2. Leaders(e) \in SUBSET (U \ {e})
    <3>1. ASSUME NEW f \in Leaders(e) PROVE f \in U /\ f # e
      BY <1>1, <1>2, <1>5, <2>1, <3>1, AheadOrders
    <3>2. QED
      BY <3>1
  <2>3. IsFiniteSet(U \ {e}) /\ Cardinality(U \ {e}) = TopK - 1
    BY <1>3, FS_RemoveElement
  <2>. HIDE DEF Leaders
  <2>4. Cardinality(Leaders(e)) <= TopK - 1
    BY <2>2, <2>3, FS_Subset
  <2>5. QED
    BY <1>2, <1>4, <2>1, <2>4
<1>6. ASSUME NEW e \in Experts, e \notin U PROVE ~ Cardinality(Leaders(e)) < TopK
  <2>1. U \in SUBSET Leaders(e)
    BY <1>1, <1>2, <1>6
  <2>. HIDE DEF Leaders
  <2>2. TopK <= Cardinality(Leaders(e))
    BY <1>3, <1>4, <2>1, FS_Subset
  <2>3. QED
    BY <1>2, <1>4, <2>2
<1>7. U = Chosen(row)
  BY <1>2, <1>5, <1>6 DEF Chosen
<1>8. QED
  BY <1>1, <1>2, <1>7 DEF q, U

-----------------------------------------------------------------------------
(* The inductive invariant.                                                *)

Domains ==
  /\ at \in {"idle", "route", "permute", "gather", "experts", "scatter"}
  /\ bias \in [Experts -> Int]
  /\ scores \in Seq([Experts -> Scores]) /\ NumTokens <= MaxTokens
  /\ DOMAIN topk = 1 .. MaxRows /\ DOMAIN perm = 1 .. MaxRows
  /\ DOMAIN xg = 1 .. MaxRows /\ DOMAIN down = 1 .. MaxRows
  /\ DOMAIN out = 1 .. MaxTokens

\* After route_kernel each slot has one of its token's experts, with its share,
\* and each of them is in one slot of the token.
Routed ==
  /\ \A s \in Rows : /\ topk[s].expert \in Chosen(scores[TokenOf(s)])
                     /\ topk[s].w = Share(scores[TokenOf(s)], topk[s].expert)
  /\ \A t \in 1 .. NumTokens, e \in Experts : e \in Chosen(scores[t]) =>
       \E s \in Rows : TokenOf(s) = t /\ topk[s].expert = e
  /\ \A s, u \in Rows :
       TokenOf(s) = TokenOf(u) /\ topk[s].expert = topk[u].expert => s = u

\* Which expert each row is for, and after how many rows an expert's segment
\* starts: the rows of each expert are its segment, and are those of the tokens
\* that chose it, each once.
Layout(own, start) ==
  /\ own \in [Rows -> Experts] /\ start \in [1 .. NumExperts + 1 -> 0 .. NumTokens * TopK]
  /\ start[1] = 0 /\ start[NumExperts + 1] = NumTokens * TopK
  /\ \A e \in Experts : seg[e] \in Nat /\ start[e + 1] = start[e] + seg[e]
  /\ \A r \in Rows, e \in Experts : own[r] = e <=> r \in start[e] + 1 .. start[e + 1]
  /\ \A r \in Rows : /\ perm[r].tok \in 1 .. NumTokens
                     /\ own[r] \in Chosen(scores[perm[r].tok])
                     /\ perm[r].w = Share(scores[perm[r].tok], own[r])
  /\ \A t \in 1 .. NumTokens, e \in Experts : e \in Chosen(scores[t]) =>
       \E r \in Rows : perm[r].tok = t /\ own[r] = e
  /\ \A r, q \in Rows : perm[r].tok = perm[q].tok /\ own[r] = own[q] => r = q

\* What expert e makes of row r.
Applied(r, e) == [call |-> call, expert |-> e, of |-> Hidden(perm[r].tok)]

Gathered == \A r \in Rows : xg[r] = Hidden(perm[r].tok)

\* The segments before the offset have been through their experts.
ExpertsDone(own, start) ==
  /\ expert \in 1 .. NumExperts + 1
  /\ off = start[expert]
  /\ \A r \in Rows : r <= off => down[r] = Applied(r, own[r])

\* A token's sum is that of its rows whose block has run.
Added(t, own) ==
  {[w |-> perm[r].w, row |-> Applied(r, own[r])] : r \in {q \in Rows \ scattering : perm[q].tok = t}}
SumsRight(own) ==
  /\ scattering \subseteq Rows
  /\ \A r \in Rows : down[r] = Applied(r, own[r])
  /\ \A t \in 1 .. NumTokens : out[t] = SetToBag(Added(t, own))

MoEInv ==
  /\ Domains
  /\ at = "permute" => Routed
  /\ at \in {"gather", "experts", "scatter"} =>
       \E own, start : /\ Layout(own, start)
                       /\ at = "experts" => (Gathered /\ ExpertsDone(own, start))
                       /\ at = "scatter" => SumsRight(own)
  /\ OutIsMixture

-----------------------------------------------------------------------------
(* The slots.                                                              *)

LEMMA QuotientRemainder ==
  ASSUME NEW x \in Nat, NEW k \in Nat \ {0}
  PROVE  x \div k \in Nat /\ x % k \in 0 .. k - 1 /\ x = k * (x \div k) + (x % k)
OBVIOUS

LEMMA QuotientUnique ==
  ASSUME NEW q \in Nat, NEW k \in Nat \ {0}, NEW r \in 0 .. k - 1
  PROVE  (k * q + r) \div k = q /\ (k * q + r) % k = r
OBVIOUS

LEMMA ProductGrows ==
  ASSUME NEW a \in Nat, NEW b \in Nat, a <= b, NEW k \in Nat
  PROVE  a * k \in Nat /\ b * k \in Nat /\ a * k <= b * k
OBVIOUS

\* A slot is a token and one of its picks.
LEMMA Slots ==
  ASSUME Domains
  PROVE  /\ NumTokens \in Nat /\ NumTokens * TopK \in Nat /\ Rows \subseteq 1 .. MaxRows
         /\ \A s \in Rows : TokenOf(s) \in 1 .. NumTokens /\ PickOf(s) \in 1 .. TopK
         /\ \A t \in 1 .. NumTokens, i \in 1 .. TopK :
              \E s \in Rows : TokenOf(s) = t /\ PickOf(s) = i
         /\ \A s, u \in Rows : TokenOf(s) = TokenOf(u) /\ PickOf(s) = PickOf(u) => s = u
<1>. DEFINE n == NumTokens
<1>1. n \in Nat /\ n <= MaxTokens /\ TopK \in Nat \ {0} /\ MaxTokens \in Nat
  BY Sizes DEF Domains, NumTokens
<1>. HIDE DEF n
<1>2. n * TopK \in Nat /\ n * TopK <= MaxRows /\ MaxRows \in Nat
  BY <1>1, ProductGrows DEF MaxRows
<1>3. Rows = 1 .. n * TopK
  BY DEF Rows, n
<1>4. ASSUME NEW s \in Rows
      PROVE  /\ TokenOf(s) \in 1 .. n /\ PickOf(s) \in 1 .. TopK
             /\ s = TopK * (TokenOf(s) - 1) + PickOf(s)
  <2>. DEFINE a == (s - 1) \div TopK
              b == (s - 1) % TopK
  <2>1. s - 1 \in Nat /\ s \in Nat /\ s - 1 < n * TopK
    BY <1>2, <1>3
  <2>2. a \in Nat /\ b \in 0 .. TopK - 1 /\ s - 1 = TopK * a + b
    BY <1>1, <2>1, QuotientRemainder
  <2>3. TokenOf(s) = a + 1 /\ PickOf(s) = b + 1
    BY DEF TokenOf, PickOf
  <2>. HIDE DEF a, b
  <2>4. a < n
    <3>1. CASE n <= a
      <4>1. n * TopK <= a * TopK /\ a * TopK = TopK * a
        BY <1>1, <2>2, <3>1, ProductGrows
      <4>2. QED
        BY <1>1, <1>2, <2>1, <2>2, <4>1
    <3>2. QED
      BY <1>1, <2>2, <3>1
  <2>5. TopK * a \in Nat
    BY <1>1, <2>2
  <2>6. QED
    BY <1>1, <2>1, <2>2, <2>3, <2>4, <2>5
<1>5. ASSUME NEW t \in 1 .. n, NEW i \in 1 .. TopK
      PROVE  \E s \in Rows : TokenOf(s) = t /\ PickOf(s) = i
  <2>. DEFINE s == TopK * (t - 1) + (i - 1) + 1
  <2>1. t - 1 \in Nat /\ i - 1 \in 0 .. TopK - 1 /\ t <= n
    BY <1>1
  <2>2. TopK * (t - 1) \in Nat /\ TopK * t = TopK * (t - 1) + TopK
    BY <1>1
  <2>3. t * TopK <= n * TopK /\ t * TopK = TopK * t
    BY <1>1, <2>1, ProductGrows
  <2>4. s \in Rows
    BY <1>1, <1>2, <1>3, <2>1, <2>2, <2>3
  <2>5. s - 1 = TopK * (t - 1) + (i - 1)
    BY <2>1, <2>2
  <2>. HIDE DEF s
  <2>6. (s - 1) \div TopK = t - 1 /\ (s - 1) % TopK = i - 1
    <3>. DEFINE q == t - 1
                r == i - 1
    <3>1. q \in Nat /\ r \in 0 .. TopK - 1 /\ s - 1 = TopK * q + r
      BY <2>1, <2>5
    <3>. HIDE DEF q, r
    <3>2. (TopK * q + r) \div TopK = q /\ (TopK * q + r) % TopK = r
      BY <1>1, <3>1, QuotientUnique
    <3>3. QED
      BY <3>1, <3>2 DEF q, r
  <2>7. TokenOf(s) = t /\ PickOf(s) = i
    BY <2>1, <2>6 DEF TokenOf, PickOf
  <2>8. QED
    BY <2>4, <2>7
<1>6. ASSUME NEW s \in Rows, NEW u \in Rows, TokenOf(s) = TokenOf(u), PickOf(s) = PickOf(u) PROVE s = u
  <2>1. s = TopK * (TokenOf(s) - 1) + PickOf(s) /\ u = TopK * (TokenOf(u) - 1) + PickOf(u)
    BY <1>4
  <2>2. QED
    BY <1>6, <2>1
<1>7. Rows \subseteq 1 .. MaxRows
  BY <1>2, <1>3
<1>8. QED
  BY <1>1, <1>2, <1>4, <1>5, <1>6, <1>7 DEF n

\* While the bias stands, so do a row's experts and their shares.
LEMMA Frozen ==
  ASSUME bias' = bias
  PROVE  \A row : Chosen(row)' = Chosen(row) /\ \A e : Share(row, e)' = Share(row, e)
<1>1. ASSUME NEW row PROVE Chosen(row)' = Chosen(row)
  <2>1. \A e, f : Ahead(row, f, e)' <=> Ahead(row, f, e)
    BY DEF Ahead, Metric
  <2>2. \A e : {f \in Experts : Ahead(row, f, e)}' = {f \in Experts : Ahead(row, f, e)}
    BY <2>1 DEF Experts
  <2>3. QED
    BY <2>2 DEF Chosen, Experts
<1>2. ASSUME NEW row, NEW e PROVE Share(row, e)' = Share(row, e)
  BY <1>1 DEF Share
<1>3. QED
  BY <1>1, <1>2

\* The weight of a pick is its share.
LEMMA WeightRight ==
  ASSUME bias \in [Experts -> Int], NEW row \in [Experts -> Int], NEW i \in 1 .. TopK
  PROVE  Weight(row, Picks(row), i) = Share(row, Picks(row)[i])
<1>. DEFINE q == Picks(row)
            term(j) == <<q[j], row[q[j]]>>
            V == {term(j) : j \in 1 .. TopK}
            W == {<<f, row[f]>> : f \in Chosen(row)}
            den == [v \in V |-> Cardinality({j \in 1 .. TopK : term(j) = v})]
<1>1. /\ q \in [1 .. TopK -> Experts]
      /\ \A j, k \in 1 .. TopK : q[j] = q[k] => j = k
      /\ {q[j] : j \in 1 .. TopK} = Chosen(row)
  BY PicksRight
<1>2. Weight(row, q, i) = [num |-> term(i), den |-> den]
  BY DEF Weight
<1>. HIDE DEF q
<1>3. V = W
  <2>1. \A j \in 1 .. TopK : q[j] \in Chosen(row)
    BY <1>1
  <2>2. \A f \in Chosen(row) : \E j \in 1 .. TopK : f = q[j]
    BY <1>1
  <2>3. QED
    BY <2>1, <2>2
<1>4. ASSUME NEW v \in V PROVE den[v] = 1
  <2>1. PICK j \in 1 .. TopK : v = term(j)
    BY <1>4
  <2>2. {k \in 1 .. TopK : term(k) = v} = {j}
    BY <1>1, <2>1
  <2>. HIDE DEF V, term
  <2>3. Cardinality({k \in 1 .. TopK : term(k) = v}) = 1
    BY <2>2, FS_Singleton
  <2>4. QED
    BY <1>4, <2>3
<1>5. den = SetToBag(W)
  <2>1. den = [v \in V |-> 1]
    <3>. HIDE DEF V
    <3>1. QED
      BY <1>4
  <2>2. QED
    BY <1>3, <2>1 DEF SetToBag
<1>6. QED
  BY <1>2, <1>5 DEF Share, q

\* The scores of a token.
LEMMA RowsOfScores ==
  ASSUME Domains, NEW t \in 1 .. NumTokens
  PROVE  scores[t] \in [Experts -> Int]
<1>. DEFINE D == [Experts -> Scores]
<1>1. scores \in Seq(D) /\ t \in 1 .. Len(scores)
  BY DEF Domains, NumTokens
<1>2. ASSUME NEW x \in [Experts -> Scores] PROVE x \in [Experts -> Int]
  <2>1. Scores \subseteq Int
    BY Sizes
  <2>2. \A e \in Experts : x[e] \in Int
    BY <2>1
  <2>3. QED
    BY <2>2
<1>. HIDE DEF D
<1>3. scores[t] \in D
  BY <1>1
<1>4. QED
  BY <1>2, <1>3 DEF D

LEMMA RouteRouts ==
  ASSUME Domains, Route
  PROVE  Routed'
<1>. DEFINE row(s) == scores[TokenOf(s)]
            q(t) == Picks(scores[t])
<1>1. bias' = bias /\ scores' = scores /\ Rows' = Rows /\ NumTokens' = NumTokens
  BY DEF Route, Rows, NumTokens
<1>2. /\ Rows \subseteq 1 .. MaxRows
      /\ \A s \in Rows : TokenOf(s) \in 1 .. NumTokens /\ PickOf(s) \in 1 .. TopK
      /\ \A t \in 1 .. NumTokens, i \in 1 .. TopK :
           \E s \in Rows : TokenOf(s) = t /\ PickOf(s) = i
      /\ \A s, u \in Rows : TokenOf(s) = TokenOf(u) /\ PickOf(s) = PickOf(u) => s = u
  BY Slots
<1>3. ASSUME NEW t \in 1 .. NumTokens
      PROVE  /\ q(t) \in [1 .. TopK -> Experts]
             /\ \A j, k \in 1 .. TopK : q(t)[j] = q(t)[k] => j = k
             /\ {q(t)[j] : j \in 1 .. TopK} = Chosen(scores[t])
  BY RowsOfScores, PicksRight DEF Domains
<1>4. ASSUME NEW s \in Rows
      PROVE  topk'[s].expert = q(TokenOf(s))[PickOf(s)] /\ topk'[s].w = Share(row(s), topk'[s].expert)
  <2>1. topk'[s] = [expert |-> q(TokenOf(s))[PickOf(s)], w |-> Weight(row(s), q(TokenOf(s)), PickOf(s))]
    BY <1>2 DEF Route, Domains
  <2>2. row(s) \in [Experts -> Int] /\ PickOf(s) \in 1 .. TopK /\ bias \in [Experts -> Int]
    BY <1>2, RowsOfScores DEF Domains
  <2>3. Weight(row(s), q(TokenOf(s)), PickOf(s)) = Share(row(s), q(TokenOf(s))[PickOf(s)])
    BY <2>2, WeightRight
  <2>4. QED
    BY <2>1, <2>3
<1>. HIDE DEF q
<1>5. ASSUME NEW s \in Rows
      PROVE  topk'[s].expert \in Chosen(row(s)) /\ topk'[s].w = Share(row(s), topk'[s].expert)
  BY <1>2, <1>3, <1>4
<1>6. ASSUME NEW t \in 1 .. NumTokens, NEW e \in Chosen(scores[t])
      PROVE  \E s \in Rows : TokenOf(s) = t /\ topk'[s].expert = e
  <2>1. PICK i \in 1 .. TopK : e = q(t)[i]
    BY <1>3
  <2>2. PICK s \in Rows : TokenOf(s) = t /\ PickOf(s) = i
    BY <1>2
  <2>3. QED
    BY <1>4, <2>1, <2>2
<1>7. ASSUME NEW s \in Rows, NEW u \in Rows, TokenOf(s) = TokenOf(u), topk'[s].expert = topk'[u].expert
      PROVE  s = u
  <2>1. PickOf(s) = PickOf(u)
    BY <1>2, <1>3, <1>4, <1>7
  <2>2. QED
    BY <1>2, <1>7, <2>1
<1>8. Experts' = Experts /\ \A s : TokenOf(s)' = TokenOf(s)
  BY DEF Experts, TokenOf
<1>9. QED
  BY <1>1, <1>5, <1>6, <1>7, <1>8, Frozen DEF Routed

-----------------------------------------------------------------------------
(* The permutation.                                                        *)

\* The slots that come to their row before s does, and those of lower experts.
Before(s) == {u \in Rows : \/ topk[u].expert < topk[s].expert
                           \/ topk[u].expert = topk[s].expert /\ u < s}
Below(e) == {s \in Rows : topk[s].expert < e}
Of(e) == {s \in Rows : topk[s].expert = e}

LEMMA SlotNumbers ==
  ASSUME Domains, Routed
  PROVE  /\ Rows = 1 .. NumTokens * TopK /\ NumTokens * TopK \in Nat
         /\ IsFiniteSet(Rows) /\ Cardinality(Rows) = NumTokens * TopK
         /\ \A s \in Rows : s \in Int /\ topk[s].expert \in Experts /\ topk[s].expert \in Int
<1>1. NumTokens * TopK \in Nat
  BY Slots
<1>2. \A s \in Rows : topk[s].expert \in Experts
  BY DEF Routed, Chosen
<1>3. Rows = 1 .. NumTokens * TopK
  BY DEF Rows
<1>. HIDE DEF Rows
<1>4. IsFiniteSet(Rows) /\ Cardinality(Rows) = NumTokens * TopK
  BY <1>1, <1>3, FS_Interval
<1>5. QED
  BY <1>1, <1>2, <1>3, <1>4 DEF Experts

\* Any part of the slots can be counted.
LEMMA PartsCount ==
  ASSUME Domains, Routed, NEW A \in SUBSET Rows
  PROVE  /\ IsFiniteSet(A) /\ Cardinality(A) \in 0 .. NumTokens * TopK
         /\ \A B \in SUBSET A : Cardinality(B) <= Cardinality(A)
         /\ \A s \in A : Cardinality(A \ {s}) = Cardinality(A) - 1
<1>1. IsFiniteSet(A) /\ Cardinality(A) <= NumTokens * TopK
  BY SlotNumbers, FS_Subset
<1>2. Cardinality(A) \in Nat /\ NumTokens * TopK \in Nat
  BY <1>1, SlotNumbers, FS_CardinalityType
<1>3. \A B \in SUBSET A : Cardinality(B) <= Cardinality(A)
  BY <1>1, FS_Subset
<1>4. \A s \in A : Cardinality(A \ {s}) = Cardinality(A) - 1
  BY <1>1, FS_RemoveElement
<1>5. QED
  BY <1>1, <1>2, <1>3, <1>4

\* More slots come before a later one.
LEMMA PlacesGrow ==
  ASSUME Domains, Routed, NEW s \in Rows, NEW u \in Rows, s \in Before(u)
  PROVE  Place(s) < Place(u)
<1>1. Before(s) \subseteq Before(u) \ {s} /\ Before(u) \in SUBSET Rows
  BY SlotNumbers DEF Before
<1>2. Place(s) = Cardinality(Before(s)) + 1 /\ Place(u) = Cardinality(Before(u)) + 1
  BY DEF Place, Before
<1>3. Before(u) \ {s} \in SUBSET Rows /\ Before(s) \in SUBSET (Before(u) \ {s}) /\ Before(s) \in SUBSET Rows
  BY <1>1
<1>. HIDE DEF Before
<1>4. Cardinality(Before(u) \ {s}) = Cardinality(Before(u)) - 1
  BY <1>1, PartsCount
<1>5. Cardinality(Before(s)) <= Cardinality(Before(u) \ {s})
  BY <1>3, PartsCount
<1>6. Cardinality(Before(s)) \in Nat /\ Cardinality(Before(u)) \in Nat
  BY <1>1, <1>3, PartsCount
<1>7. QED
  BY <1>2, <1>4, <1>5, <1>6

\* Each slot has a row of its own, and each row a slot.
LEMMA PlacesRight ==
  ASSUME Domains, Routed
  PROVE  /\ \A s \in Rows : Place(s) \in Rows
         /\ \A s, u \in Rows : Place(s) = Place(u) => s = u
         /\ \A r \in Rows : SlotAt(r) \in Rows /\ Place(SlotAt(r)) = r
<1>1. ASSUME NEW s \in Rows PROVE Place(s) \in Rows
  <2>1. Before(s) \in SUBSET (Rows \ {s})
    BY SlotNumbers DEF Before
  <2>2. Place(s) = Cardinality(Before(s)) + 1
    BY DEF Place, Before
  <2>. HIDE DEF Before
  <2>3. Rows \in SUBSET Rows /\ Rows \ {s} \in SUBSET Rows /\ Before(s) \in SUBSET Rows
    BY <2>1
  <2>4. Cardinality(Rows \ {s}) = NumTokens * TopK - 1
    BY <2>3, PartsCount, SlotNumbers
  <2>5. Cardinality(Before(s)) <= NumTokens * TopK - 1
    BY <2>1, <2>3, <2>4, PartsCount
  <2>6. Cardinality(Before(s)) \in Nat
    BY <2>3, PartsCount
  <2>7. QED
    BY <2>2, <2>5, <2>6, SlotNumbers
<1>2. ASSUME NEW s \in Rows, NEW u \in Rows, Place(s) = Place(u) PROVE s = u
  <2>1. s # u => s \in Before(u) \/ u \in Before(s)
    BY SlotNumbers DEF Before
  <2>2. Place(s) \in Int /\ Place(u) \in Int
    BY <1>1, SlotNumbers
  <2>3. QED
    BY <1>2, <2>1, <2>2, PlacesGrow
<1>. DEFINE f == [s \in Rows |-> Place(s)]
<1>3. f \in Injection(Rows, Rows)
  BY <1>1, <1>2 DEF Injection, IsInjective
<1>4. f \in Surjection(Rows, Rows)
  <2>. HIDE DEF f
  <2>1. QED
    BY <1>3, SlotNumbers, FS_Injection
<1>5. ASSUME NEW r \in Rows PROVE SlotAt(r) \in Rows /\ Place(SlotAt(r)) = r
  <2>1. \E s \in Rows : f[s] = r
    BY <1>4 DEF Surjection
  <2>2. \E s \in Rows : Place(s) = r
    BY <2>1
  <2>3. QED
    BY <2>2 DEF SlotAt
<1>6. QED
  BY <1>1, <1>2, <1>5

\* An expert's slots are placed after those of the lower experts, and with
\* them come before all others.
LEMMA Segments ==
  ASSUME Domains, Routed
  PROVE  /\ \A e \in 1 .. NumExperts + 1 : Cardinality(Below(e)) \in 0 .. NumTokens * TopK
         /\ Cardinality(Below(1)) = 0
         /\ Cardinality(Below(NumExperts + 1)) = NumTokens * TopK
         /\ \A e \in Experts : /\ Cardinality(Of(e)) \in Nat
                                /\ Cardinality(Below(e + 1)) = Cardinality(Below(e)) + Cardinality(Of(e))
         /\ \A s \in Rows, e \in Experts :
              topk[s].expert = e <=> Place(s) \in Cardinality(Below(e)) + 1 .. Cardinality(Below(e + 1))
<1>1. NumExperts \in Nat /\ Experts = 1 .. NumExperts
  BY Sizes DEF Experts
<1>2. ASSUME NEW e PROVE Below(e) \in SUBSET Rows /\ Of(e) \in SUBSET Rows
  BY DEF Below, Of
<1>3. ASSUME NEW e
      PROVE  /\ Cardinality(Below(e)) \in Nat /\ Cardinality(Of(e)) \in Nat
             /\ Cardinality(Below(e)) \in 0 .. NumTokens * TopK
  BY <1>2, PartsCount, SlotNumbers
<1>4. Cardinality(Below(1)) = 0
  <2>1. Below(1) = {}
    BY <1>1, SlotNumbers DEF Below
  <2>2. QED
    BY <2>1, FS_EmptySet
<1>5. Cardinality(Below(NumExperts + 1)) = NumTokens * TopK
  <2>1. Below(NumExperts + 1) = Rows
    BY <1>1, SlotNumbers DEF Below
  <2>2. QED
    BY <2>1, SlotNumbers
<1>6. ASSUME NEW e \in Experts
      PROVE  Cardinality(Below(e + 1)) = Cardinality(Below(e)) + Cardinality(Of(e))
  <2>1. Below(e + 1) = Below(e) \cup Of(e) /\ Below(e) \cap Of(e) = {}
    BY <1>1, SlotNumbers DEF Below, Of
  <2>2. IsFiniteSet(Below(e)) /\ IsFiniteSet(Of(e))
    BY <1>2, PartsCount
  <2>3. Cardinality(Below(e) \cap Of(e)) = 0
    BY <2>1, FS_EmptySet
  <2>4. Cardinality(Below(e) \cup Of(e)) = Cardinality(Below(e)) + Cardinality(Of(e)) - 0
    BY <2>2, <2>3, FS_Union
  <2>5. Cardinality(Below(e + 1)) = Cardinality(Below(e) \cup Of(e))
    BY <2>1
  <2>6. \A a, b \in Nat : a + b - 0 = a + b
    OBVIOUS
  <2>7. Cardinality(Below(e)) \in Nat /\ Cardinality(Of(e)) \in Nat
    BY <1>3
  <2>8. QED
    BY <2>4, <2>5, <2>6, <2>7
<1>7. ASSUME NEW s \in Rows, NEW e \in Experts, topk[s].expert = e
      PROVE  Place(s) \in Cardinality(Below(e)) + 1 .. Cardinality(Below(e + 1))
  <2>1. Below(e) \in SUBSET Before(s) /\ Before(s) \in SUBSET (Below(e + 1) \ {s}) /\ s \in Below(e + 1)
    BY <1>1, <1>7, SlotNumbers DEF Below, Before
  <2>2. Place(s) = Cardinality(Before(s)) + 1 /\ Before(s) \in SUBSET Rows
    BY DEF Place, Before
  <2>3. Cardinality(Below(e)) <= Cardinality(Before(s)) /\ Cardinality(Before(s)) \in Nat
    BY <2>1, <2>2, PartsCount
  <2>4. Below(e + 1) \in SUBSET Rows /\ Below(e + 1) \ {s} \in SUBSET Rows
    BY <1>2
  <2>5. Cardinality(Before(s)) <= Cardinality(Below(e + 1) \ {s})
    BY <2>1, <2>4, PartsCount
  <2>6. Cardinality(Below(e + 1) \ {s}) = Cardinality(Below(e + 1)) - 1
    BY <2>1, <2>4, PartsCount
  <2>7. QED
    BY <1>3, <2>2, <2>3, <2>5, <2>6
<1>8. ASSUME NEW d \in Experts, NEW e \in Experts, d < e
      PROVE  Cardinality(Below(d + 1)) <= Cardinality(Below(e))
  <2>1. Below(d + 1) \in SUBSET Below(e)
    BY <1>1, <1>8, SlotNumbers DEF Below
  <2>2. QED
    BY <1>2, <2>1, PartsCount
<1>9. ASSUME NEW s \in Rows, NEW e \in Experts,
             Place(s) \in Cardinality(Below(e)) + 1 .. Cardinality(Below(e + 1))
      PROVE  topk[s].expert = e
  <2>. DEFINE d == topk[s].expert
  <2>1. d \in Experts /\ Place(s) \in Cardinality(Below(d)) + 1 .. Cardinality(Below(d + 1))
    BY <1>7, SlotNumbers
  <2>. HIDE DEF d
  <2>2. /\ Cardinality(Below(d)) \in Nat /\ Cardinality(Below(d + 1)) \in Nat
        /\ Cardinality(Below(e)) \in Nat /\ Cardinality(Below(e + 1)) \in Nat
    BY <1>3
  <2>3. ~ d < e
    BY <1>8, <1>9, <2>1, <2>2
  <2>4. ~ e < d
    BY <1>8, <1>9, <2>1, <2>2
  <2>5. d = e
    BY <1>1, <2>1, <2>3, <2>4
  <2>6. QED
    BY <2>5 DEF d
<1>10. QED
  BY <1>3, <1>4, <1>5, <1>6, <1>7, <1>9

\* What the host's loops leave is laid out by expert.
LEMMA PermuteLays ==
  ASSUME Domains, Routed, Permute
  PROVE  \E own, start : Layout(own, start)'
<1>. DEFINE own == [r \in Rows |-> topk[SlotAt(r)].expert]
            start == [e \in 1 .. NumExperts + 1 |-> Cardinality(Below(e))]
<1>1. bias' = bias /\ scores' = scores /\ Rows' = Rows /\ NumTokens' = NumTokens
  BY DEF Permute, Rows, NumTokens
<1>2. NumExperts \in Nat \ {0} /\ Experts = 1 .. NumExperts
  BY Sizes DEF Experts
<1>3. /\ \A s \in Rows : Place(s) \in Rows
      /\ \A s, u \in Rows : Place(s) = Place(u) => s = u
      /\ \A r \in Rows : SlotAt(r) \in Rows /\ Place(SlotAt(r)) = r
  BY PlacesRight
<1>4. ASSUME NEW r \in Rows
      PROVE  perm'[r].tok = TokenOf(SlotAt(r)) /\ perm'[r].w = topk[SlotAt(r)].w
  <2>1. r \in DOMAIN perm
    BY Slots DEF Domains
  <2>2. perm'[r] = [tok |-> TokenOf(SlotAt(r)), w |-> topk[SlotAt(r)].w]
    BY <2>1 DEF Permute
  <2>3. QED
    BY <2>2
<1>5. ASSUME NEW r \in Rows PROVE own[r] = topk[SlotAt(r)].expert
  OBVIOUS
<1>6. ASSUME NEW e \in 1 .. NumExperts + 1 PROVE start[e] = Cardinality(Below(e))
  OBVIOUS
<1>7. own \in [Rows -> Experts] /\ start \in [1 .. NumExperts + 1 -> 0 .. NumTokens * TopK]
  BY <1>3, Segments, SlotNumbers
<1>. HIDE DEF own, start
<1>8. ASSUME NEW e \in Experts
      PROVE  /\ seg'[e] \in Nat /\ start[e + 1] = start[e] + seg'[e]
             /\ start[e] = Cardinality(Below(e)) /\ start[e + 1] = Cardinality(Below(e + 1))
  <2>1. seg'[e] = Cardinality(Of(e))
    BY DEF Permute, Of
  <2>2. e \in 1 .. NumExperts + 1 /\ e + 1 \in 1 .. NumExperts + 1
    BY <1>2
  <2>3. QED
    BY <1>6, <2>1, <2>2, Segments
<1>9. start[1] = 0 /\ start[NumExperts + 1] = NumTokens * TopK
  <2>1. 1 \in 1 .. NumExperts + 1 /\ NumExperts + 1 \in 1 .. NumExperts + 1
    BY <1>2
  <2>2. QED
    BY <1>6, <2>1, Segments
<1>10. ASSUME NEW r \in Rows, NEW e \in Experts PROVE own[r] = e <=> r \in start[e] + 1 .. start[e + 1]
  <2>1. SlotAt(r) \in Rows /\ Place(SlotAt(r)) = r
    BY <1>3
  <2>2. topk[SlotAt(r)].expert = e <=> r \in Cardinality(Below(e)) + 1 .. Cardinality(Below(e + 1))
    BY <2>1, Segments
  <2>3. QED
    BY <1>5, <1>8, <2>2
<1>11. ASSUME NEW r \in Rows
       PROVE  /\ perm'[r].tok \in 1 .. NumTokens
              /\ own[r] \in Chosen(scores[perm'[r].tok])
              /\ perm'[r].w = Share(scores[perm'[r].tok], own[r])
  BY <1>3, <1>4, <1>5, Slots DEF Routed
<1>12. ASSUME NEW t \in 1 .. NumTokens, NEW e \in Chosen(scores[t])
       PROVE  \E r \in Rows : perm'[r].tok = t /\ own[r] = e
  <2>1. PICK s \in Rows : TokenOf(s) = t /\ topk[s].expert = e
    BY DEF Routed, Chosen
  <2>2. Place(s) \in Rows /\ SlotAt(Place(s)) = s
    BY <1>3, <2>1
  <2>3. QED
    BY <1>4, <1>5, <2>1, <2>2
<1>13. ASSUME NEW r \in Rows, NEW q \in Rows, perm'[r].tok = perm'[q].tok, own[r] = own[q] PROVE r = q
  <2>1. SlotAt(r) = SlotAt(q)
    BY <1>3, <1>4, <1>5, <1>13 DEF Routed
  <2>2. QED
    BY <1>3, <2>1
<1>14. PICK o, st : o = own /\ st = start
  OBVIOUS
<1>15. Layout(o, st)'
  <2>1. Experts' = Experts
    BY DEF Experts
  <2>2. /\ o \in [Rows -> Experts] /\ st \in [1 .. NumExperts + 1 -> 0 .. NumTokens * TopK]
        /\ st[1] = 0 /\ st[NumExperts + 1] = NumTokens * TopK
        /\ \A e \in Experts : seg'[e] \in Nat /\ st[e + 1] = st[e] + seg'[e]
        /\ \A r \in Rows, e \in Experts : o[r] = e <=> r \in st[e] + 1 .. st[e + 1]
    BY <1>7, <1>8, <1>9, <1>10, <1>14
  <2>3. /\ \A r \in Rows : /\ perm'[r].tok \in 1 .. NumTokens
                           /\ o[r] \in Chosen(scores[perm'[r].tok])
                           /\ perm'[r].w = Share(scores[perm'[r].tok], o[r])
        /\ \A t \in 1 .. NumTokens, e \in Experts : e \in Chosen(scores[t]) =>
             \E r \in Rows : perm'[r].tok = t /\ o[r] = e
        /\ \A r, q \in Rows : perm'[r].tok = perm'[q].tok /\ o[r] = o[q] => r = q
    BY <1>11, <1>12, <1>13, <1>14
  <2>4. QED
    BY <1>1, <2>1, <2>2, <2>3, Frozen DEF Layout
<1>16. QED
  BY <1>15

\* While the scores and the permutation stand, so does the layout.
LEMMA LayoutStands ==
  ASSUME UNCHANGED <<bias, scores, perm, seg>>, NEW own, NEW start, Layout(own, start)
  PROVE  Layout(own, start)'
<1>1. Rows' = Rows /\ NumTokens' = NumTokens /\ Experts' = Experts
  BY DEF Rows, NumTokens, Experts
<1>. USE DEF Layout
<1>2. (/\ own \in [Rows -> Experts] /\ start \in [1 .. NumExperts + 1 -> 0 .. NumTokens * TopK]
  /\ start[1] = 0 /\ start[NumExperts + 1] = NumTokens * TopK)'
  BY <1>1
<1>3. (\A e \in Experts : seg[e] \in Nat /\ start[e + 1] = start[e] + seg[e])'
  BY <1>1
<1>4. (\A r \in Rows, e \in Experts : own[r] = e <=> r \in start[e] + 1 .. start[e + 1])'
  BY <1>1
<1>5. (\A r \in Rows : /\ perm[r].tok \in 1 .. NumTokens
                     /\ own[r] \in Chosen(scores[perm[r].tok])
                     /\ perm[r].w = Share(scores[perm[r].tok], own[r]))'
  BY <1>1, Frozen
<1>6. (\A t \in 1 .. NumTokens, e \in Experts : e \in Chosen(scores[t]) =>
       \E r \in Rows : perm[r].tok = t /\ own[r] = e)'
  BY <1>1, Frozen
<1>7. (\A r, q \in Rows : perm[r].tok = perm[q].tok /\ own[r] = own[q] => r = q)'
  BY <1>1
<1>8. QED
  BY <1>2, <1>3, <1>4, <1>5, <1>6, <1>7

LEMMA DomainsStay ==
  ASSUME Domains, [MoENext]_moeVars
  PROVE  Domains'
<1>. USE DEF Domains
<1>1. CASE Forward
  <2>1. PICK n \in 1 .. MaxTokens : scores' \in [1 .. n -> [Experts -> Scores]]
    BY <1>1 DEF Forward
  <2>. DEFINE D == [Experts -> Scores]
  <2>2. n \in Nat /\ n <= MaxTokens /\ scores' \in [1 .. n -> D]
    BY <2>1, Sizes
  <2>. HIDE DEF D
  <2>3. scores' \in Seq(D) /\ Len(scores') = n
    BY <2>2
  <2>4. scores' \in Seq([Experts -> Scores]) /\ NumTokens' <= MaxTokens
    BY <2>2, <2>3 DEF D, NumTokens
  <2>5. bias' = bias /\ Experts' = Experts /\ at' = "route" /\ UNCHANGED <<topk, perm, xg, down, out>>
    BY <1>1 DEF Forward, buffers, Experts
  <2>6. QED
    BY <2>4, <2>5 DEF MaxRows
<1>2. CASE Route
  BY <1>2 DEF Route, MaxRows, NumTokens, Experts
<1>3. CASE Permute
  BY <1>3 DEF Permute, MaxRows, NumTokens, Experts
<1>4. CASE Gather
  BY <1>4 DEF Gather, MaxRows, NumTokens, Experts
<1>5. CASE ExpertMLP
  BY <1>5 DEF ExpertMLP, MaxRows, NumTokens, Experts
<1>6. CASE Clear
  BY <1>6 DEF Clear, Cleared, buffers, MaxRows, NumTokens, Experts
<1>7. ASSUME NEW r \in 1 .. MaxRows, Scatter(r) PROVE Domains'
  BY <1>7 DEF Scatter, buffers, MaxRows, NumTokens, Experts
<1>8. CASE Return
  BY <1>8 DEF Return, buffers, MaxRows, NumTokens, Experts
<1>9. CASE MoEDone \/ UNCHANGED moeVars
  BY <1>9 DEF MoEDone, moeVars, buffers, MaxRows, NumTokens, Experts
<1>10. QED
  BY <1>1, <1>2, <1>3, <1>4, <1>5, <1>6, <1>7, <1>8, <1>9 DEF MoENext

-----------------------------------------------------------------------------
(* The invariant holds.                                                    *)

\* A term that a bag has not yet.
LEMMA BagGrows ==
  ASSUME NEW S, NEW x, x \notin S
  PROVE  SetToBag(S) (+) SetToBag({x}) = SetToBag(S \cup {x})
BY DEF SetToBag, (+)

LEMMA RoutedStands ==
  ASSUME UNCHANGED <<bias, scores, topk>>, Routed
  PROVE  Routed'
<1>1. Rows' = Rows /\ NumTokens' = NumTokens /\ Experts' = Experts /\ \A s : TokenOf(s)' = TokenOf(s)
  BY DEF Rows, NumTokens, Experts, TokenOf
<1>. USE DEF Routed
<1>2. (\A s \in Rows : /\ topk[s].expert \in Chosen(scores[TokenOf(s)])
                      /\ topk[s].w = Share(scores[TokenOf(s)], topk[s].expert))'
  BY <1>1, Frozen
<1>3. (\A t \in 1 .. NumTokens, e \in Experts : e \in Chosen(scores[t]) =>
       \E s \in Rows : TokenOf(s) = t /\ topk[s].expert = e)'
  BY <1>1, Frozen
<1>4. (\A s, u \in Rows :
       TokenOf(s) = TokenOf(u) /\ topk[s].expert = topk[u].expert => s = u)'
  BY <1>1
<1>5. QED
  BY <1>2, <1>3, <1>4

LEMMA MixtureStands ==
  ASSUME UNCHANGED <<bias, scores, call>>, NEW t
  PROVE  Mixture(t)' = Mixture(t)
<1>1. \A e : e \in Chosen(scores[t])' <=> e \in Chosen(scores[t])
  BY Frozen
<1>2. \A e : Share(scores[t], e)' = Share(scores[t], e)
  BY Frozen
<1>3. Hidden(t)' = Hidden(t)
  BY DEF Hidden
<1>4. QED
  BY <1>1, <1>2, <1>3 DEF Mixture

LEMMA ExpertsDoneStands ==
  ASSUME UNCHANGED <<call, scores, perm, expert, off, xg, down>>, NEW own, NEW start,
         Gathered, ExpertsDone(own, start)
  PROVE  Gathered' /\ ExpertsDone(own, start)'
BY DEF Gathered, ExpertsDone, Applied, Hidden, Rows, NumTokens

LEMMA SumsStand ==
  ASSUME UNCHANGED <<call, scores, perm, down, out, scattering>>, NEW own, SumsRight(own)
  PROVE  SumsRight(own)'
<1>1. Rows' = Rows /\ NumTokens' = NumTokens
  BY DEF Rows, NumTokens
<1>2. \A r, e : Applied(r, e)' = Applied(r, e)
  BY DEF Applied, Hidden
<1>3. ASSUME NEW t PROVE Added(t, own)' = Added(t, own)
  BY <1>1, <1>2 DEF Added
<1>4. QED
  BY <1>1, <1>2, <1>3 DEF SumsRight

LEMMA MoEInitInv == MoEInit => MoEInv
<1>. SUFFICES ASSUME MoEInit PROVE MoEInv
  OBVIOUS
<1>1. bias \in [Experts -> Int]
  BY MoEAssumption DEF MoEInit, MoEAssumption
<1>2. scores = <<>> /\ scores \in Seq([Experts -> Scores]) /\ NumTokens <= MaxTokens
  BY Sizes DEF MoEInit, NumTokens
<1>3. Domains
  BY <1>1, <1>2 DEF MoEInit, Domains
<1>4. QED
  BY <1>3 DEF MoEInit, MoEInv, OutIsMixture

\* The next expert takes its own segment, and no other row.
LEMMA ExpertMLPAdvances ==
  ASSUME Domains, NEW own, NEW start, Layout(own, start), Gathered, ExpertsDone(own, start), ExpertMLP
  PROVE  Gathered' /\ ExpertsDone(own, start)'
<1>1. Rows' = Rows /\ Rows \subseteq 1 .. MaxRows /\ \A r, e : Applied(r, e)' = Applied(r, e)
  BY Slots DEF ExpertMLP, Rows, NumTokens, Applied, Hidden
<1>2. /\ expert \in Experts /\ expert' \in 1 .. NumExperts + 1 /\ expert \in 1 .. NumExperts + 1
      /\ expert' = expert + 1
  BY Sizes DEF ExpertMLP, ExpertsDone, Experts
<1>3. off = start[expert] /\ off' = start[expert'] /\ off' = off + seg[expert] /\ off \in Nat /\ seg[expert] \in Nat
  BY <1>2 DEF Layout, ExpertMLP, ExpertsDone
<1>4. Gathered'
  BY <1>1 DEF Gathered, ExpertMLP, Hidden
<1>5. ASSUME NEW r \in Rows, r <= off' PROVE down'[r] = Applied(r, own[r])
  <2>1. r \in DOMAIN down /\ r \in Nat
    BY <1>1 DEF Domains
  <2>2. CASE r <= off
    <3>1. down'[r] = down[r]
      BY <1>3, <2>1, <2>2 DEF ExpertMLP
    <3>2. QED
      BY <2>2, <3>1 DEF ExpertsDone
  <2>3. CASE ~ r <= off
    <3>1. r \in off + 1 .. off + seg[expert] /\ r \in start[expert] + 1 .. start[expert + 1]
      BY <1>2, <1>3, <1>5, <2>1, <2>3
    <3>2. own[r] = expert
      BY <1>2, <3>1 DEF Layout
    <3>3. down'[r] = [call |-> call, expert |-> expert, of |-> xg[r]]
      BY <2>1, <3>1 DEF ExpertMLP
    <3>4. QED
      BY <3>2, <3>3 DEF Gathered, Applied
  <2>4. QED
    BY <2>2, <2>3
<1>6. QED
  BY <1>1, <1>2, <1>3, <1>4, <1>5 DEF ExpertsDone

\* Past the last expert every row has been through its own.
LEMMA ClearStarts ==
  ASSUME Domains, NEW own, NEW start, Layout(own, start), ExpertsDone(own, start), Clear
  PROVE  SumsRight(own)'
<1>1. /\ Rows' = Rows /\ NumTokens' = NumTokens /\ UNCHANGED <<call, perm, down>>
      /\ \A r, e : Applied(r, e)' = Applied(r, e)
  BY DEF Clear, buffers, Rows, NumTokens, Applied, Hidden
<1>2. expert = NumExperts + 1
  BY Sizes DEF Clear, ExpertsDone
<1>3. off = NumTokens * TopK
  BY <1>2 DEF ExpertsDone, Layout
<1>4. \A r \in Rows : r <= off
  BY <1>3, Slots DEF Rows
<1>5. \A r \in Rows : down'[r] = Applied(r, own[r])
  BY <1>1, <1>4 DEF ExpertsDone
<1>6. scattering' = Rows
  BY DEF Clear
<1>7. ASSUME NEW t PROVE Added(t, own)' = {}
  BY <1>1, <1>6 DEF Added
<1>8. ASSUME NEW t \in 1 .. NumTokens PROVE out'[t] = SetToBag({})
  <2>1. t \in DOMAIN out
    BY Sizes, Slots DEF Domains
  <2>2. out'[t] = EmptyBag
    BY <2>1 DEF Clear, Cleared
  <2>3. QED
    BY <2>2 DEF EmptyBag
<1>9. QED
  BY <1>1, <1>5, <1>6, <1>7, <1>8 DEF SumsRight

\* A row's block adds one term more, which its token's sum has not yet.
LEMMA ScatterAdds ==
  ASSUME Domains, NEW own, NEW start, Layout(own, start), SumsRight(own), NEW r, Scatter(r)
  PROVE  SumsRight(own)'
<1>. DEFINE u == perm[r].tok
            x == [w |-> perm[r].w, row |-> Applied(r, own[r])]
<1>1. /\ Rows' = Rows /\ NumTokens' = NumTokens /\ UNCHANGED <<call, perm, down>>
      /\ \A q, e : Applied(q, e)' = Applied(q, e)
  BY DEF Scatter, buffers, Rows, NumTokens, Applied, Hidden
<1>2. r \in Rows /\ r \in scattering /\ scattering' = scattering \ {r} /\ scattering' \subseteq Rows
  BY DEF Scatter, SumsRight
<1>3. u \in 1 .. NumTokens /\ u \in DOMAIN out
  BY <1>2, Sizes, Slots DEF Layout, Domains
<1>4. x \notin Added(u, own)
  <2>1. ASSUME NEW q \in Rows \ scattering, perm[q].tok = u,
               x = [w |-> perm[q].w, row |-> Applied(q, own[q])]
        PROVE  FALSE
    <3>1. Applied(r, own[r]) = Applied(q, own[q])
      BY <2>1
    <3>2. own[r] = own[q]
      BY <3>1 DEF Applied
    <3>3. QED
      BY <1>2, <2>1, <3>2 DEF Layout
  <2>2. QED
    BY <2>1 DEF Added
<1>5. ASSUME NEW t, t = u PROVE Added(t, own)' = Added(t, own) \cup {x}
  <2>1. {q \in Rows \ scattering' : perm[q].tok = t} = {q \in Rows \ scattering : perm[q].tok = t} \cup {r}
    BY <1>2, <1>5
  <2>2. QED
    BY <1>1, <2>1 DEF Added
<1>6. ASSUME NEW t \in 1 .. NumTokens, t # u PROVE Added(t, own)' = Added(t, own)
  <2>1. {q \in Rows \ scattering' : perm[q].tok = t} = {q \in Rows \ scattering : perm[q].tok = t}
    BY <1>2, <1>6
  <2>2. QED
    BY <1>1, <2>1 DEF Added
<1>7. out' = [out EXCEPT ![u] = out[u] (+) SetToBag({x})]
  BY <1>2 DEF Scatter, SumsRight
<1>8. out'[u] = SetToBag(Added(u, own) \cup {x})
  <2>1. out[u] = SetToBag(Added(u, own))
    BY <1>3 DEF SumsRight
  <2>2. out'[u] = out[u] (+) SetToBag({x})
    BY <1>3, <1>7
  <2>. HIDE DEF x, u
  <2>3. QED
    BY <1>4, <2>1, <2>2, BagGrows
<1>9. ASSUME NEW t \in 1 .. NumTokens PROVE out'[t] = SetToBag(Added(t, own)')
  <2>1. CASE t = u
    BY <1>5, <1>8, <2>1
  <2>2. CASE t # u
    <3>1. out'[t] = out[t]
      BY <1>3, <1>7, <2>2
    <3>2. QED
      BY <1>6, <2>2, <3>1 DEF SumsRight
  <2>3. QED
    BY <2>1, <2>2
<1>10. QED
  BY <1>1, <1>2, <1>9 DEF SumsRight

\* With no block left to run each token has its mixture.
LEMMA ReturnMixes ==
  ASSUME Domains, NEW own, NEW start, Layout(own, start), SumsRight(own), Return
  PROVE  OutIsMixture'
<1>1. UNCHANGED <<bias, scores, call, out>> /\ NumTokens' = NumTokens
  BY DEF Return, NumTokens
<1>2. ASSUME NEW t \in 1 .. NumTokens PROVE out[t] = SetToBag(Mixture(t))
  <2>1. Added(t, own) = {[w |-> perm[r].w, row |-> Applied(r, own[r])] : r \in {q \in Rows : perm[q].tok = t}}
    BY DEF Added, Return
  <2>. DEFINE term(e) == [w |-> Share(scores[t], e), row |-> [call |-> call, expert |-> e, of |-> Hidden(t)]]
  <2>2. ASSUME NEW r \in Rows, perm[r].tok = t
        PROVE  own[r] \in Chosen(scores[t]) /\ [w |-> perm[r].w, row |-> Applied(r, own[r])] = term(own[r])
    BY <2>2 DEF Layout, Applied
  <2>3. ASSUME NEW e \in Chosen(scores[t]) PROVE \E r \in Rows : perm[r].tok = t /\ own[r] = e
    BY DEF Layout, Chosen
  <2>4. Mixture(t) = {term(e) : e \in Chosen(scores[t])}
    BY DEF Mixture
  <2>. HIDE DEF term
  <2>5. Added(t, own) = Mixture(t)
    <3>1. ASSUME NEW y \in Added(t, own) PROVE y \in Mixture(t)
      <4>1. PICK r \in Rows : perm[r].tok = t /\ y = [w |-> perm[r].w, row |-> Applied(r, own[r])]
        BY <2>1
      <4>2. QED
        BY <2>2, <2>4, <4>1
    <3>2. ASSUME NEW y \in Mixture(t) PROVE y \in Added(t, own)
      <4>1. PICK e \in Chosen(scores[t]) : y = term(e)
        BY <2>4
      <4>2. PICK r \in Rows : perm[r].tok = t /\ own[r] = e
        BY <2>3
      <4>3. y = [w |-> perm[r].w, row |-> Applied(r, own[r])]
        BY <2>2, <4>1, <4>2
      <4>4. QED
        BY <2>1, <4>2, <4>3
    <3>3. QED
      BY <3>1, <3>2
  <2>6. QED
    BY <2>5 DEF SumsRight
<1>3. ASSUME NEW t \in 1 .. NumTokens PROVE out'[t] = SetToBag(Mixture(t)')
  BY <1>1, <1>2, MixtureStands
<1>4. QED
  BY <1>1, <1>3 DEF OutIsMixture

LEMMA MoENextInv ==
  ASSUME MoEInv, [MoENext]_moeVars
  PROVE  MoEInv'
<1>. USE DEF MoEInv
<1>1. Domains'
  BY DomainsStay
<1>2. CASE Forward
  BY <1>1, <1>2 DEF Forward, OutIsMixture
<1>3. CASE Route
  BY <1>1, <1>3, RouteRouts DEF Route, OutIsMixture
<1>4. CASE Permute
  <2>1. at = "permute" /\ at' = "gather"
    BY <1>4 DEF Permute
  <2>2. \E own, start : Layout(own, start)'
    BY <1>4, <2>1, PermuteLays
  <2>3. QED
    BY <1>1, <2>1, <2>2 DEF OutIsMixture
<1>5. CASE Gather
  <2>1. at = "gather" /\ at' = "experts" /\ UNCHANGED <<bias, scores, perm, seg>>
    BY <1>5 DEF Gather
  <2>2. PICK own, start : Layout(own, start)
    BY <2>1
  <2>3. Layout(own, start)'
    BY <2>1, <2>2, LayoutStands
  <2>4. Rows' = Rows /\ Rows \subseteq 1 .. MaxRows
    BY <2>1, Slots DEF Rows, NumTokens
  <2>5. Gathered'
    BY <1>5, <2>4 DEF Gather, Gathered, Hidden, Domains
  <2>6. ExpertsDone(own, start)'
    BY <1>5, <2>2, <2>4, Sizes DEF Gather, ExpertsDone, Layout
  <2>7. QED
    BY <1>1, <2>1, <2>3, <2>5, <2>6 DEF OutIsMixture
<1>6. CASE ExpertMLP
  <2>1. at = "experts" /\ at' = "experts" /\ UNCHANGED <<bias, scores, perm, seg>>
    BY <1>6 DEF ExpertMLP
  <2>2. PICK own, start : Layout(own, start) /\ Gathered /\ ExpertsDone(own, start)
    BY <2>1
  <2>3. Layout(own, start)'
    BY <2>1, <2>2, LayoutStands
  <2>4. Gathered' /\ ExpertsDone(own, start)'
    BY <1>6, <2>2, ExpertMLPAdvances
  <2>5. QED
    BY <1>1, <2>1, <2>3, <2>4 DEF OutIsMixture
<1>7. CASE Clear
  <2>1. at = "experts" /\ at' = "scatter" /\ UNCHANGED <<bias, scores, perm, seg>>
    BY <1>7 DEF Clear, buffers
  <2>2. PICK own, start : Layout(own, start) /\ ExpertsDone(own, start)
    BY <2>1
  <2>3. Layout(own, start)' /\ SumsRight(own)'
    BY <1>7, <2>1, <2>2, LayoutStands, ClearStarts
  <2>4. QED
    BY <1>1, <2>1, <2>3 DEF OutIsMixture
<1>8. ASSUME NEW r \in 1 .. MaxRows, Scatter(r) PROVE MoEInv'
  <2>1. at = "scatter" /\ at' = "scatter" /\ UNCHANGED <<bias, scores, perm, seg>>
    BY <1>8 DEF Scatter, buffers
  <2>2. PICK own, start : Layout(own, start) /\ SumsRight(own)
    BY <2>1
  <2>3. Layout(own, start)' /\ SumsRight(own)'
    BY <1>8, <2>1, <2>2, LayoutStands, ScatterAdds
  <2>4. QED
    BY <1>1, <2>1, <2>3 DEF OutIsMixture
<1>9. CASE Return
  <2>1. at = "scatter" /\ at' = "idle"
    BY <1>9 DEF Return
  <2>2. PICK own, start : Layout(own, start) /\ SumsRight(own)
    BY <2>1
  <2>3. OutIsMixture'
    BY <1>9, <2>2, ReturnMixes
  <2>4. QED
    BY <1>1, <2>1, <2>3
<1>10. CASE MoEDone \/ UNCHANGED moeVars
  <2>1. UNCHANGED <<at, call, bias, scores, topk, perm, seg, xg, down, expert, off, out, scattering>>
    BY <1>10 DEF MoEDone, moeVars, buffers
  <2>2. at = "permute" => Routed'
    BY <2>1, RoutedStands
  <2>3. OutIsMixture'
    <3>1. NumTokens' = NumTokens
      BY <2>1 DEF NumTokens
    <3>2. \A t : Mixture(t)' = Mixture(t)
      BY <2>1, MixtureStands
    <3>3. QED
      BY <2>1, <3>1, <3>2 DEF OutIsMixture
  <2>4. CASE at \in {"gather", "experts", "scatter"}
    <3>1. PICK own, start : /\ Layout(own, start)
                            /\ at = "experts" => (Gathered /\ ExpertsDone(own, start))
                            /\ at = "scatter" => SumsRight(own)
      BY <2>4
    <3>2. Layout(own, start)'
      BY <2>1, <3>1, LayoutStands
    <3>3. at = "experts" => Gathered' /\ ExpertsDone(own, start)'
      BY <2>1, <3>1, ExpertsDoneStands
    <3>4. at = "scatter" => SumsRight(own)'
      BY <2>1, <3>1, SumsStand
    <3>5. QED
      BY <1>1, <2>1, <2>2, <2>3, <3>2, <3>3, <3>4
  <2>5. QED
    BY <1>1, <2>1, <2>2, <2>3, <2>4
<1>11. QED
  BY <1>2, <1>3, <1>4, <1>5, <1>6, <1>7, <1>8, <1>9, <1>10 DEF MoENext

\* What the layout says of the segment at the offset.
LEMMA InvSegmentsRight == MoEInv => SegmentsRight
<1>. SUFFICES ASSUME MoEInv, at = "experts", expert <= NumExperts PROVE SegmentsRight
  BY DEF SegmentsRight
<1>1. PICK own, start : Layout(own, start) /\ ExpertsDone(own, start)
  BY DEF MoEInv
<1>2. Domains
  BY DEF MoEInv
<1>. DEFINE segment == off + 1 .. off + seg[expert]
            tokens == {perm[r].tok : r \in segment}
<1>3. expert \in Experts /\ expert \in 1 .. NumExperts + 1
  BY <1>1, Sizes DEF ExpertsDone, Experts
<1>4. segment = start[expert] + 1 .. start[expert + 1] /\ off \in Nat /\ seg[expert] \in Nat
  BY <1>1, <1>3 DEF ExpertsDone, Layout
<1>5. \A r \in Rows : own[r] = expert <=> r \in segment
  BY <1>1, <1>3, <1>4 DEF Layout
<1>6. segment \subseteq Rows
  <2>1. expert + 1 \in 1 .. NumExperts + 1
    BY <1>3, Sizes DEF Experts
  <2>2. start[expert + 1] \in 0 .. NumTokens * TopK /\ start[expert] \in 0 .. NumTokens * TopK
    BY <1>1, <1>3, <2>1 DEF Layout
  <2>3. NumTokens * TopK \in Nat
    BY <1>2, Slots
  <2>4. QED
    BY <1>4, <2>2, <2>3 DEF Rows
<1>7. tokens = {t \in 1 .. NumTokens : expert \in Chosen(scores[t])}
  BY <1>1, <1>3, <1>5, <1>6 DEF Layout
<1>8. Cardinality(segment) = Cardinality(tokens)
  <2>. DEFINE f == [r \in segment |-> perm[r].tok]
  <2>1. \A r, q \in segment : perm[r].tok = perm[q].tok => r = q
    BY <1>1, <1>5, <1>6 DEF Layout
  <2>2. IsFiniteSet(segment)
    BY <1>4, FS_Interval
  <2>. HIDE DEF segment
  <2>3. f \in Bijection(segment, tokens)
    BY <2>1 DEF Bijection, Injection, Surjection, IsInjective
  <2>4. ExistsBijection(segment, tokens)
    BY <2>3 DEF ExistsBijection
  <2>. HIDE DEF tokens
  <2>5. QED
    BY <2>2, <2>4, FS_Bijection
<1>9. QED
  BY <1>7, <1>8 DEF SegmentsRight

\* The invariant holds of every forward (moe_forward).
THEOREM SpecInv == MoESpec => []MoEInv
<1>1. MoEInit => MoEInv
  BY MoEInitInv
<1>2. MoEInv /\ [MoENext]_moeVars => MoEInv'
  BY MoENextInv
<1>3. QED
  BY <1>1, <1>2, PTL DEF MoESpec

\* The rows each expert is run on are those of the tokens that chose it, for
\* any numbers of experts, picks and tokens and any scores (moe_forward).
THEOREM SegmentsAlwaysRight == MoESpec => []SegmentsRight
BY SpecInv, InvSegmentsRight, PTL

\* Each token gets its experts' outputs for its own hidden state of this call,
\* each once and with its share, in whatever order the rows are added
\* (moe_forward, scatter_add_kernel).
THEOREM OutAlwaysMixture == MoESpec => []OutIsMixture
<1>1. MoEInv => OutIsMixture
  BY DEF MoEInv
<1>2. QED
  BY <1>1, SpecInv, PTL
=============================================================================
