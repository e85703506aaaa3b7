-------------------------- MODULE KVAllocatorProofs --------------------------
(***************************************************************************)
(* Proofs about the KV allocator, for every pool, block size and set of    *)
(* sequences: its type, the partition of the blocks (which is inductive as *)
(* it stands), the coverage and the stability of what was written, and     *)
(* that it implements BlockPool.                                           *)
(***************************************************************************)
EXTENDS KVAllocator, SequenceTheorems, TLAPS

-----------------------------------------------------------------------------
(* Sequences without repetitions. *)

\* s has j + k elements; keep is its first j, and cut the rest read from the end.
IsCut(s, j, k, keep, cut) ==
  /\ j \in Nat /\ k \in Nat
  /\ DOMAIN s = 1 .. j + k
  /\ DOMAIN keep = 1 .. j /\ \A i \in 1 .. j : keep[i] = s[i]
  /\ DOMAIN cut = 1 .. k /\ \A i \in 1 .. k : cut[i] = s[j + k - i + 1]

LEMMA CutFunction ==
  ASSUME NEW s, NEW j, NEW k, NEW keep, NEW cut, IsCut(s, j, k, keep, cut)
  PROVE  /\ Range(s) = Range(keep) \cup Range(cut)
         /\ IsInjective(s) => /\ IsInjective(keep) /\ IsInjective(cut)
                              /\ Range(keep) \cap Range(cut) = {}
<1>. USE DEF IsCut
<1>. DEFINE L == j + k
<1>1. \A i \in 1 .. j : i \in 1 .. L /\ keep[i] = s[i]
  OBVIOUS
<1>2. \A i \in 1 .. k : L - i + 1 \in 1 .. L /\ cut[i] = s[L - i + 1]
  OBVIOUS
<1>3. ASSUME NEW i \in 1 .. L, i \notin 1 .. j
      PROVE  L - i + 1 \in 1 .. k /\ cut[L - i + 1] = s[i]
  <2>1. L - i + 1 \in 1 .. k /\ L - (L - i + 1) + 1 = i
    BY <1>3
  <2>2. QED
    BY <2>1
<1>4. Range(s) = Range(keep) \cup Range(cut)
  <2>1. Range(keep) \subseteq Range(s) /\ Range(cut) \subseteq Range(s)
    BY <1>1, <1>2 DEF Range
  <2>2. ASSUME NEW i \in 1 .. L
        PROVE  s[i] \in Range(keep) \cup Range(cut)
    <3>1. CASE i \in 1 .. j
      BY <3>1, <1>1 DEF Range
    <3>2. CASE i \notin 1 .. j
      <4>1. L - i + 1 \in 1 .. k /\ cut[L - i + 1] = s[i]
        BY <3>2, <1>3
      <4>2. QED
        BY <4>1 DEF Range
    <3>3. QED
      BY <3>1, <3>2
  <2>3. Range(s) \subseteq Range(keep) \cup Range(cut)
    BY <2>2 DEF Range
  <2>4. QED
    BY <2>1, <2>3
<1>5. ASSUME IsInjective(s)
      PROVE  IsInjective(keep) /\ IsInjective(cut) /\ Range(keep) \cap Range(cut) = {}
  <2>1. \A a, b \in 1 .. L : s[a] = s[b] => a = b
    BY <1>5 DEF IsInjective
  <2>2. IsInjective(keep)
    BY <1>1, <2>1 DEF IsInjective
  <2>3. IsInjective(cut)
    <3>1. SUFFICES ASSUME NEW a \in 1 .. k, NEW b \in 1 .. k, cut[a] = cut[b]
                   PROVE  a = b
      BY DEF IsInjective
    <3>2. L - a + 1 = L - b + 1
      BY <3>1, <1>2, <2>1
    <3>3. QED
      BY <3>2
  <2>4. ASSUME NEW a \in 1 .. j, NEW b \in 1 .. k
        PROVE  keep[a] # cut[b]
    <3>1. a # L - b + 1
      OBVIOUS
    <3>2. QED
      BY <3>1, <1>1, <1>2, <2>1
  <2>5. Range(keep) \cap Range(cut) = {}
    BY <2>4 DEF Range
  <2>6. QED
    BY <2>2, <2>3, <2>5
<1>6. QED
  BY <1>4, <1>5

\* Two sequences without repetitions and without a common element, one after
\* the other, are one.
LEMMA ConcatInjective ==
  ASSUME NEW S, NEW s \in Seq(S), NEW t \in Seq(S),
         IsInjective(s), IsInjective(t), Range(s) \cap Range(t) = {}
  PROVE  IsInjective(s \o t)
<1>1. /\ Len(s) \in Nat /\ DOMAIN s = 1 .. Len(s)
      /\ Len(t) \in Nat /\ DOMAIN t = 1 .. Len(t)
  BY LenProperties
<1>2. /\ DOMAIN (s \o t) = 1 .. Len(s) + Len(t)
      /\ \A i \in 1 .. Len(s) + Len(t) :
           (s \o t)[i] = IF i <= Len(s) THEN s[i] ELSE t[i - Len(s)]
  BY ConcatProperties, LenProperties
<1>3. \A i \in 1 .. Len(s), j \in 1 .. Len(t) : s[i] # t[j]
  BY <1>1 DEF Range
<1>4. SUFFICES ASSUME NEW i \in 1 .. Len(s) + Len(t), NEW j \in 1 .. Len(s) + Len(t),
                      (s \o t)[i] = (s \o t)[j]
               PROVE  i = j
  BY <1>2 DEF IsInjective
<1>5. CASE i <= Len(s) /\ j <= Len(s)
  BY <1>1, <1>2, <1>4, <1>5 DEF IsInjective
<1>6. CASE i > Len(s) /\ j > Len(s)
  <2>1. /\ i - Len(s) \in 1 .. Len(t) /\ j - Len(s) \in 1 .. Len(t)
        /\ t[i - Len(s)] = t[j - Len(s)]
    BY <1>1, <1>2, <1>4, <1>6
  <2>2. i - Len(s) = j - Len(s)
    BY <2>1, <1>1 DEF IsInjective
  <2>3. QED
    BY <2>2, <1>1
<1>7. CASE i <= Len(s) /\ j > Len(s)
  <2>1. i \in 1 .. Len(s) /\ j - Len(s) \in 1 .. Len(t) /\ s[i] = t[j - Len(s)]
    BY <1>1, <1>2, <1>4, <1>7
  <2>2. QED
    BY <2>1, <1>3
<1>8. CASE i > Len(s) /\ j <= Len(s)
  <2>1. j \in 1 .. Len(s) /\ i - Len(s) \in 1 .. Len(t) /\ s[j] = t[i - Len(s)]
    BY <1>1, <1>2, <1>4, <1>8
  <2>2. QED
    BY <2>1, <1>3
<1>9. QED
  BY <1>1, <1>5, <1>6, <1>7, <1>8

-----------------------------------------------------------------------------
(* What a call asks for and takes. *)

LEMMA BlocksForNat == \A n \in Nat : BlocksFor(n) \in Nat
BY KVAssumption DEF BlocksFor

LEMMA BlocksForMonotone == \A m, n \in Nat : m <= n => BlocksFor(m) <= BlocksFor(n)
BY KVAssumption DEF BlocksFor

LEMMA MissingNat ==
  ASSUME KVTypeOK, NEW s \in Seqs, NEW n \in Nat
  PROVE  Missing(s, n) \in Nat
<1>1. BlocksFor(len[s] + n) \in Nat
  <2>1. len[s] + n \in Nat
    BY DEF KVTypeOK
  <2>2. QED
    BY <2>1, BlocksForNat
<1>2. Len(table[s]) \in Nat
  BY LenProperties DEF KVTypeOK
<1>3. QED
  BY <1>1, <1>2 DEF Missing

\* Popping k blocks keeps the first part of the free list and yields the rest.
LEMMA PoppedProperties ==
  ASSUME KVTypeOK, NEW k \in Nat, k <= Len(free)
  PROVE  LET rest == SubSeq(free, 1, Len(free) - k)
         IN  /\ rest \in Seq(Blocks) /\ Popped(k) \in Seq(Blocks) /\ Len(Popped(k)) = k
             /\ IsCut(free, Len(free) - k, k, rest, Popped(k))
<1>. DEFINE rest == SubSeq(free, 1, Len(free) - k)
<1>1. PICK j \in Nat : j = Len(free) - k
  <2>1. Len(free) \in Nat
    BY LenProperties DEF KVTypeOK
  <2>2. Len(free) - k \in Nat
    BY <2>1
  <2>3. QED
    BY <2>2
<1>2. free \in [1 .. j + k -> Blocks] /\ Len(free) = j + k
  BY <1>1, LenProperties DEF KVTypeOK
<1>3. rest \in Seq(Blocks) /\ Len(rest) = j /\ \A i \in 1 .. j : rest[i] = free[i]
  <2>1. rest = SubSeq(free, 1, j) /\ j \in Int /\ \A i \in 1 .. j : free[i] \in Blocks
    BY <1>1, <1>2
  <2>. HIDE DEF rest
  <2>2. QED
    BY <2>1, SubSeqProperties
<1>4. /\ DOMAIN Popped(k) = 1 .. k
      /\ \A i \in 1 .. k : Popped(k)[i] = free[j + k - i + 1]
      /\ Popped(k) \in [1 .. k -> Blocks]
  BY <1>2 DEF Popped
<1>5. Popped(k) \in Seq(Blocks) /\ Len(Popped(k)) = k
  BY <1>4, SeqDef, LenProperties
<1>6. DOMAIN rest = 1 .. j
  <2>. HIDE DEF rest
  <2>1. QED
    BY <1>3, LenProperties
<1>7. IsCut(free, j, k, rest, Popped(k))
  <2>. HIDE DEF rest
  <2>1. QED
    BY <1>2, <1>3, <1>4, <1>6 DEF IsCut
<1>8. QED
  BY <1>1, <1>3, <1>5, <1>7

-----------------------------------------------------------------------------
(* One call at a time.  InPool gathers what a call does to the sets of     *)
(* blocks: it is both what the partition needs and BlockPool's step.       *)

KVInv == KVTypeOK /\ BlocksPartitioned

Grown(s, P) ==
  /\ P \subseteq Range(free)
  /\ Range(free)' = Range(free) \ P
  /\ Range(table'[s]) = Range(table[s]) \cup P
  /\ \A t \in Seqs \ {s} : table'[t] = table[t]

LEMMA TakeStep ==
  ASSUME KVInv, NEW s \in Seqs, NEW k \in Nat, k <= Len(free), Take(s, k)
  PROVE  KVInv' /\ Grown(s, Range(Popped(k)))
<1>. DEFINE P == Popped(k)
<1>1. /\ free' \in Seq(Blocks) /\ P \in Seq(Blocks) /\ Len(P) = k
      /\ IsCut(free, Len(free) - k, k, free', P)
  BY PoppedProperties DEF KVInv, Take
<1>. HIDE DEF P
<1>2. /\ Range(free) = Range(free') \cup Range(P)
      /\ IsInjective(free') /\ IsInjective(P) /\ Range(free') \cap Range(P) = {}
  BY <1>1, CutFunction DEF KVInv, BlocksPartitioned, FreeOnce
<1>3. table \in [Seqs -> Seq(Blocks)] /\ table' = [table EXCEPT ![s] = table[s] \o P]
  BY DEF KVInv, KVTypeOK, Take, P
<1>4. /\ table'[s] = table[s] \o P
      /\ table'[s] \in Seq(Blocks) /\ Range(table'[s]) = Range(table[s]) \cup Range(P)
  BY <1>1, <1>3, ConcatProperties, RangeConcatenation
<1>5. \A t \in Seqs \ {s} : table'[t] = table[t]
  BY <1>3
<1>6. IsInjective(table'[s])
  <2>1. IsInjective(table[s]) /\ Range(table[s]) \cap Range(P) = {}
    BY <1>2 DEF KVInv, BlocksPartitioned, HeldOnce, FreeNotHeld
  <2>2. QED
    BY <1>1, <1>2, <1>3, <1>4, <2>1, ConcatInjective
<1>7. Grown(s, Range(P))
  BY <1>2, <1>4, <1>5 DEF Grown
<1>8. KVTypeOK'
  <2>1. table' \in [Seqs -> Seq(Blocks)]
    BY <1>1, <1>3, ConcatProperties
  <2>2. QED
    BY <1>1, <2>1 DEF KVInv, KVTypeOK, Take, Blocks
<1>9. BlocksPartitioned'
  <2>1. FreeOnce'
    BY <1>2 DEF FreeOnce
  <2>2. HeldOnce'
    BY <1>5, <1>6 DEF HeldOnce, KVInv, BlocksPartitioned
  <2>3. FreeNotHeld'
    BY <1>2, <1>4, <1>5 DEF FreeNotHeld, KVInv, BlocksPartitioned
  <2>4. HeldByOne'
    BY <1>2, <1>4, <1>5 DEF HeldByOne, FreeNotHeld, KVInv, BlocksPartitioned
  <2>5. NoneLost'
    BY <1>2, <1>4, <1>5 DEF NoneLost, Blocks, KVInv, BlocksPartitioned
  <2>6. QED
    BY <2>1, <2>2, <2>3, <2>4, <2>5 DEF BlocksPartitioned
<1>10. QED
  BY <1>7, <1>8, <1>9 DEF KVInv, P

Shrunk(s) ==
  /\ Range(free)' = Range(free) \cup Range(table[s])
  /\ table'[s] = <<>>
  /\ \A t \in Seqs \ {s} : table'[t] = table[t]

LEMMA ReleaseStep ==
  ASSUME KVInv, NEW s \in Seqs, Release(s)
  PROVE  KVInv' /\ Shrunk(s)
<1>1. /\ free \in Seq(Blocks) /\ table \in [Seqs -> Seq(Blocks)]
      /\ free' = free \o table[s] /\ table' = [table EXCEPT ![s] = <<>>]
  BY DEF KVInv, KVTypeOK, Release
<1>2. /\ free' \in Seq(Blocks)
      /\ Range(free') = Range(free) \cup Range(table[s])
  BY <1>1, ConcatProperties, RangeConcatenation
<1>3. IsInjective(free')
  <2>1. /\ IsInjective(free) /\ IsInjective(table[s])
        /\ Range(free) \cap Range(table[s]) = {}
    BY DEF KVInv, BlocksPartitioned, FreeOnce, HeldOnce, FreeNotHeld
  <2>2. QED
    BY <1>1, <2>1, ConcatInjective
<1>4. /\ table'[s] = <<>> /\ Range(table'[s]) = {} /\ IsInjective(table'[s])
      /\ \A t \in Seqs \ {s} : table'[t] = table[t]
  BY <1>1 DEF Range, IsInjective
<1>5. Shrunk(s)
  BY <1>2, <1>4 DEF Shrunk
<1>6. KVTypeOK'
  <2>1. table' \in [Seqs -> Seq(Blocks)]
    BY <1>1
  <2>2. QED
    BY <1>2, <2>1 DEF KVInv, KVTypeOK, Release, Blocks
<1>7. BlocksPartitioned'
  <2>1. FreeOnce'
    BY <1>3 DEF FreeOnce
  <2>2. HeldOnce'
    BY <1>4 DEF HeldOnce, KVInv, BlocksPartitioned
  <2>3. FreeNotHeld'
    BY <1>2, <1>4 DEF FreeNotHeld, HeldByOne, KVInv, BlocksPartitioned
  <2>4. HeldByOne'
    BY <1>4 DEF HeldByOne, KVInv, BlocksPartitioned
  <2>5. NoneLost'
    BY <1>2, <1>4 DEF NoneLost, Blocks, KVInv, BlocksPartitioned
  <2>6. QED
    BY <2>1, <2>2, <2>3, <2>4, <2>5 DEF BlocksPartitioned
<1>8. QED
  BY <1>5, <1>6, <1>7 DEF KVInv

LEMMA CommitStep ==
  ASSUME KVInv, NEW s \in Seqs, NEW n \in Nat, Commit(s, n)
  PROVE  KVInv'
<1>1. KVTypeOK'
  BY DEF KVInv, KVTypeOK, Commit, Blocks
<1>2. BlocksPartitioned'
  BY DEF KVInv, Commit, BlocksPartitioned, FreeOnce, HeldOnce, FreeNotHeld, HeldByOne,
         NoneLost, Blocks
<1>3. QED
  BY <1>1, <1>2 DEF KVInv

\* Both outcomes of Reserve take blocks off the free list, all of them or
\* what is missing.
LEMMA ReserveTakes ==
  ASSUME KVTypeOK, NEW s \in Seqs, NEW n \in Nat, ReserveOk(s, n) \/ ReserveShort(s, n)
  PROVE  \E k \in Nat : k <= Len(free) /\ Take(s, k)
<1>1. CASE ReserveOk(s, n)
  BY <1>1, MissingNat DEF ReserveOk
<1>2. CASE ReserveShort(s, n)
  <2>1. Len(free) \in Nat /\ Len(free) <= Len(free)
    BY LenProperties DEF KVTypeOK
  <2>2. QED
    BY <1>2, <2>1 DEF ReserveShort
<1>3. QED
  BY <1>1, <1>2

LEMMA KVInitInv == KVInit => KVInv
<1>. SUFFICES ASSUME KVInit PROVE KVInv
  OBVIOUS
<1>1. /\ free \in [1 .. NumBlocks -> Blocks] /\ DOMAIN free = 1 .. NumBlocks
      /\ \A i \in 1 .. NumBlocks : free[i] = NumBlocks - i
      /\ \A s \in Seqs : table[s] = <<>> /\ Range(table[s]) = {}
  BY KVAssumption DEF KVInit, Blocks, Range
<1>2. KVTypeOK
  <2>1. free \in Seq(Blocks)
    BY <1>1, KVAssumption, SeqDef
  <2>2. QED
    BY <2>1 DEF KVInit, KVTypeOK
<1>3. FreeOnce
  BY <1>1, KVAssumption DEF FreeOnce, IsInjective
<1>4. HeldOnce
  BY <1>1 DEF HeldOnce, IsInjective
<1>5. FreeNotHeld /\ HeldByOne
  BY <1>1 DEF FreeNotHeld, HeldByOne
<1>6. NoneLost
  <2>1. \A b \in Blocks : NumBlocks - b \in 1 .. NumBlocks /\ free[NumBlocks - b] = b
    BY <1>1, KVAssumption DEF Blocks
  <2>2. QED
    BY <1>1, <2>1 DEF NoneLost, Range
<1>7. QED
  BY <1>2, <1>3, <1>4, <1>5, <1>6 DEF KVInv, BlocksPartitioned

\* A call of the allocator, for any number of tokens: KVNext bounds it by
\* MaxSeq, which no step of these proofs needs.
AnyCall == \E s \in Seqs : Release(s) \/ \E n \in Nat : KVStep(s, n)

LEMMA NextIsCall == [KVNext]_kvVars => [AnyCall]_kvVars
<1>1. 1 .. MaxSeq \subseteq Nat
  OBVIOUS
<1>2. QED
  BY <1>1 DEF KVNext, AnyCall

LEMMA CallInv == KVInv /\ [AnyCall]_kvVars => KVInv'
<1>. SUFFICES ASSUME KVInv, [AnyCall]_kvVars PROVE KVInv'
  OBVIOUS
<1>1. CASE UNCHANGED kvVars
  BY <1>1 DEF KVInv, kvVars, KVTypeOK, BlocksPartitioned, FreeOnce, HeldOnce, FreeNotHeld,
              HeldByOne, NoneLost, Blocks
<1>2. ASSUME NEW s \in Seqs, Release(s) PROVE KVInv'
  BY <1>2, ReleaseStep
<1>3. ASSUME NEW s \in Seqs, NEW n \in Nat, KVStep(s, n) PROVE KVInv'
  <2>1. CASE ReserveOk(s, n) \/ ReserveShort(s, n)
    BY <2>1, ReserveTakes, TakeStep DEF KVInv
  <2>2. CASE Commit(s, n)
    BY <2>2, CommitStep
  <2>3. QED
    BY <1>3, <2>1, <2>2 DEF KVStep
<1>4. QED
  BY <1>1, <1>2, <1>3 DEF AnyCall

\* The allocator's state keeps its type in every run: the ids on the free list
\* and in the tables are ids of the pool.
THEOREM KVTypeCorrect == KVSpec => []KVTypeOK
<1>1. KVInv => KVTypeOK
  BY DEF KVInv
<1>2. QED
  BY KVInitInv, CallInv, NextIsCall, <1>1, PTL DEF KVSpec

\* The pool stays partitioned in every run: whatever the order of Reserve,
\* Commit and Release, no block is shared or lost.
THEOREM PoolPartitioned == KVSpec => []BlocksPartitioned
<1>1. KVInv => BlocksPartitioned
  BY DEF KVInv
<1>2. QED
  BY KVInitInv, CallInv, NextIsCall, <1>1, PTL DEF KVSpec

-----------------------------------------------------------------------------
(* What was written stays covered, and stays where it is. *)

LEMMA CoverGrows == \A a, b \in Nat : a <= b => BlockSize * a <= BlockSize * b
BY KVAssumption

\* n positions fit in the blocks Reserve computes for them.
LEMMA BlocksForCover == \A n \in Nat : n <= BlockSize * BlocksFor(n)
BY KVAssumption DEF BlocksFor

\* A table never loses a block or has one moved, but by Release.
LEMMA TakeExtends ==
  ASSUME KVTypeOK, NEW s \in Seqs, NEW k \in Nat, k <= Len(free), Take(s, k)
  PROVE  /\ Len(table'[s]) = Len(table[s]) + k
         /\ \A t \in Seqs : /\ Len(table[t]) <= Len(table'[t])
                            /\ \A i \in DOMAIN table[t] :
                                 i \in DOMAIN table'[t] /\ table'[t][i] = table[t][i]
<1>. DEFINE P == Popped(k)
<1>1. P \in Seq(Blocks) /\ Len(P) = k
  BY PoppedProperties
<1>2. table \in [Seqs -> Seq(Blocks)] /\ table' = [table EXCEPT ![s] = table[s] \o P]
  BY DEF KVTypeOK, Take
<1>. HIDE DEF P
<1>3. /\ table[s] \in Seq(Blocks) /\ table'[s] = table[s] \o P
      /\ \A t \in Seqs \ {s} : table'[t] = table[t]
  BY <1>2
<1>4. /\ table'[s] \in Seq(Blocks) /\ Len(table'[s]) = Len(table[s]) + k
      /\ \A i \in 1 .. Len(table[s]) + k : i <= Len(table[s]) => table'[s][i] = table[s][i]
  <2>1. table[s] \in Seq(Blocks) /\ P \in Seq(Blocks) /\ Len(P) = k
    BY <1>1, <1>3
  <2>2. /\ table[s] \o P \in Seq(Blocks) /\ Len(table[s] \o P) = Len(table[s]) + k
        /\ \A i \in 1 .. Len(table[s]) + k :
             i <= Len(table[s]) => (table[s] \o P)[i] = table[s][i]
    BY <2>1, ConcatProperties
  <2>3. QED
    BY <1>3, <2>2
<1>5. /\ Len(table[s]) \in Nat /\ DOMAIN table[s] = 1 .. Len(table[s])
      /\ DOMAIN table'[s] = 1 .. Len(table[s]) + k
  BY <1>3, <1>4, LenProperties
<1>6. ASSUME NEW t \in Seqs
      PROVE  /\ Len(table[t]) <= Len(table'[t])
             /\ \A i \in DOMAIN table[t] : i \in DOMAIN table'[t] /\ table'[t][i] = table[t][i]
  <2>1. CASE t = s
    BY <2>1, <1>4, <1>5
  <2>2. CASE t # s
    <3>1. Len(table[t]) \in Nat
      BY <1>2, LenProperties
    <3>2. table'[t] = table[t]
      BY <2>2, <1>3
    <3>3. QED
      BY <3>1, <3>2
  <2>3. QED
    BY <2>1, <2>2
<1>7. QED
  BY <1>4, <1>6

\* A Reserve that succeeds covers the tokens it was asked for.
LEMMA ReserveOkCovers ==
  ASSUME KVTypeOK, NEW s \in Seqs, NEW n \in Nat, ReserveOk(s, n)
  PROVE  Covered(s, n)'
<1>1. /\ len[s] + n \in Nat /\ BlocksFor(len[s] + n) \in Nat /\ Len(table[s]) \in Nat
      /\ Missing(s, n) \in Nat
  <2>1. len[s] + n \in Nat /\ table[s] \in Seq(Blocks)
    BY DEF KVTypeOK
  <2>2. BlocksFor(len[s] + n) \in Nat
    BY <2>1, BlocksForNat
  <2>3. Len(table[s]) \in Nat
    BY <2>1, LenProperties
  <2>4. QED
    BY <2>1, <2>2, <2>3, MissingNat
<1>2. Len(table'[s]) = Len(table[s]) + Missing(s, n)
  BY <1>1, TakeExtends DEF ReserveOk
<1>3. Len(table'[s]) \in Nat /\ BlocksFor(len[s] + n) <= Len(table'[s])
  BY <1>1, <1>2 DEF Missing
<1>4. BlockSize * BlocksFor(len[s] + n) <= BlockSize * Len(table'[s])
  BY <1>1, <1>3, CoverGrows
<1>5. len[s] + n <= BlockSize * BlocksFor(len[s] + n)
  BY <1>1, BlocksForCover
<1>6. len[s] + n <= BlockSize * Len(table'[s])
  <2>. DEFINE x == BlockSize * BlocksFor(len[s] + n)
              y == BlockSize * Len(table'[s])
  <2>1. x \in Nat /\ y \in Nat
    BY <1>1, <1>3, KVAssumption
  <2>. HIDE DEF x, y
  <2>2. x <= y /\ len[s] + n <= x
    BY <1>4, <1>5 DEF x, y
  <2>3. len[s] + n <= y
    BY <2>1, <2>2, <1>1
  <2>4. QED
    BY <2>3 DEF y
<1>7. len' = len
  BY DEF ReserveOk, Take
<1>8. QED
  BY <1>6, <1>7 DEF Covered

\* Commit is within its obligation, and everything else keeps or grows tables.
LEMMA CoveredNext == KVTypeOK /\ WrittenIsCovered /\ [AnyCall]_kvVars => WrittenIsCovered'
<1>. SUFFICES ASSUME KVTypeOK, WrittenIsCovered, [AnyCall]_kvVars, NEW t \in Seqs
              PROVE  len'[t] <= BlockSize * Len(table'[t])
  BY DEF WrittenIsCovered
<1>1. len[t] \in Nat /\ len[t] <= BlockSize * Len(table[t]) /\ Len(table[t]) \in Nat
  <2>1. table[t] \in Seq(Blocks)
    BY DEF KVTypeOK
  <2>2. Len(table[t]) \in Nat
    BY <2>1, LenProperties
  <2>3. QED
    BY <2>2 DEF KVTypeOK, WrittenIsCovered
<1>2. CASE UNCHANGED kvVars
  BY <1>1, <1>2 DEF kvVars
<1>3. ASSUME NEW s \in Seqs, Release(s)
      PROVE  len'[t] <= BlockSize * Len(table'[t])
  <2>1. CASE t = s
    BY <1>3, <2>1, KVAssumption DEF Release, KVTypeOK
  <2>2. CASE t # s
    BY <1>1, <1>3, <2>2 DEF Release, KVTypeOK
  <2>3. QED
    BY <2>1, <2>2
<1>4. ASSUME NEW s \in Seqs, NEW n \in Nat, ReserveOk(s, n) \/ ReserveShort(s, n)
      PROVE  len'[t] <= BlockSize * Len(table'[t])
  <2>1. PICK k \in Nat : k <= Len(free) /\ Take(s, k)
    BY <1>4, ReserveTakes
  <2>2. Len(table[t]) <= Len(table'[t]) /\ len' = len
    BY <2>1, TakeExtends DEF Take
  <2>3. Len(table'[t]) \in Nat
    <3>1. CASE t = s
      <4>1. Len(table'[t]) = Len(table[t]) + k
        BY <2>1, <3>1, TakeExtends
      <4>2. QED
        BY <4>1, <1>1
    <3>2. CASE t # s
      BY <3>2, <2>1, <1>1 DEF Take, KVTypeOK
    <3>3. QED
      BY <3>1, <3>2
  <2>. DEFINE x == BlockSize * Len(table[t])
              y == BlockSize * Len(table'[t])
  <2>4. x <= y /\ x \in Nat /\ y \in Nat
    BY <1>1, <2>2, <2>3, CoverGrows, KVAssumption
  <2>5. len[t] <= x
    BY <1>1
  <2>. HIDE DEF x, y
  <2>6. len[t] <= y
    BY <1>1, <2>4, <2>5
  <2>7. QED
    BY <2>2, <2>6 DEF y
<1>5. ASSUME NEW s \in Seqs, NEW n \in Nat, Covered(s, n), Commit(s, n)
      PROVE  len'[t] <= BlockSize * Len(table'[t])
  BY <1>1, <1>5 DEF Covered, Commit, KVTypeOK
<1>6. QED
  BY <1>2, <1>3, <1>4, <1>5 DEF AnyCall, KVStep

\* Every position written by a covered Commit lies in a block the sequence
\* holds, in every run.
THEOREM WrittenCovered == KVSpec => []WrittenIsCovered
<1>1. KVInit => WrittenIsCovered
  BY KVAssumption DEF KVInit, WrittenIsCovered
<1>2. KVInv => KVTypeOK
  BY DEF KVInv
<1>3. QED
  BY KVInitInv, CallInv, CoveredNext, NextIsCall, <1>1, <1>2, PTL DEF KVSpec

LEMMA CallKeepsWritten ==
  ASSUME KVTypeOK, [AnyCall]_kvVars
  PROVE  [KeepsWritten]_kvVars
<1>1. \A t \in Seqs : len[t] >= len[t]
  BY DEF KVTypeOK
<1>2. ASSUME NEW s \in Seqs, Release(s) PROVE KeepsWritten
  BY <1>1, <1>2 DEF Release, KVTypeOK, KeepsWritten
<1>3. ASSUME NEW s \in Seqs, NEW n \in Nat, ReserveOk(s, n) \/ ReserveShort(s, n) PROVE KeepsWritten
  <2>1. PICK k \in Nat : k <= Len(free) /\ Take(s, k)
    BY <1>3, ReserveTakes
  <2>2. \A t \in Seqs : \A i \in DOMAIN table[t] :
           i \in DOMAIN table'[t] /\ table'[t][i] = table[t][i]
    BY <2>1, TakeExtends
  <2>3. \A t \in Seqs : len'[t] >= len[t]
    BY <1>1, <2>1 DEF Take
  <2>4. QED
    BY <2>2, <2>3 DEF KeepsWritten
<1>4. ASSUME NEW s \in Seqs, NEW n \in Nat, Commit(s, n) PROVE KeepsWritten
  <2>1. table' = table /\ \A t \in Seqs : len'[t] >= len[t]
    BY <1>4 DEF Commit, KVTypeOK
  <2>2. QED
    BY <2>1 DEF KeepsWritten
<1>5. CASE AnyCall
  <2>1. PICK s \in Seqs : Release(s) \/ \E n \in Nat : KVStep(s, n)
    BY <1>5 DEF AnyCall
  <2>2. CASE Release(s)
    BY <2>2, <1>2
  <2>3. ASSUME NEW n \in Nat, KVStep(s, n) PROVE KeepsWritten
    <3>1. n \in Nat
      OBVIOUS
    <3>2. CASE ReserveOk(s, n) \/ ReserveShort(s, n)
      BY <1>3, <3>1, <3>2
    <3>3. CASE Commit(s, n)
      BY <1>4, <3>1, <3>3
    <3>4. QED
      BY <2>3, <3>2, <3>3 DEF KVStep
  <2>4. QED
    BY <2>1, <2>2, <2>3
<1>6. QED
  BY <1>5

\* The block of a written position never changes while its sequence lives.
THEOREM StaysPut == KVSpec => WrittenStaysPut
<1>1. KVTypeOK /\ [AnyCall]_kvVars => [KeepsWritten]_kvVars
  BY CallKeepsWritten
<1>2. KVInv => KVTypeOK
  BY DEF KVInv
<1>3. QED
  BY KVInitInv, CallInv, NextIsCall, <1>1, <1>2, PTL DEF KVSpec, WrittenStaysPut

-----------------------------------------------------------------------------
(* The refinement. *)

HeldBlocks == [s \in Seqs |-> Range(table[s])]

LEMMA GrownRefines ==
  ASSUME KVTypeOK, NEW s \in Seqs, NEW P, Grown(s, P)
  PROVE  Pool!PoolNext
<1>1. P \in SUBSET Range(free)
  BY DEF Grown
<1>2. Range(free)' = Range(free) \ P
  BY DEF Grown
<1>3. HeldBlocks' = [HeldBlocks EXCEPT ![s] = HeldBlocks[s] \cup P]
  BY DEF Grown, HeldBlocks
<1>4. Pool!Grow(s, P)
  BY <1>1, <1>2, <1>3 DEF Pool!Grow, HeldBlocks
<1>5. QED
  BY <1>1, <1>4 DEF Pool!PoolNext

LEMMA ShrunkRefines ==
  ASSUME KVTypeOK, NEW s \in Seqs, Shrunk(s)
  PROVE  Pool!PoolNext
<1>1. Range(table'[s]) = {}
  BY DEF Shrunk, Range
<1>2. HeldBlocks' = [HeldBlocks EXCEPT ![s] = {}]
  BY <1>1 DEF Shrunk, HeldBlocks
<1>3. Pool!GiveBack(s)
  BY <1>2 DEF Pool!GiveBack, Shrunk, HeldBlocks
<1>4. QED
  BY <1>3 DEF Pool!PoolNext

LEMMA PoolStarts == KVInit => Pool!PoolInit
<1>. SUFFICES ASSUME KVInit PROVE Pool!PoolInit
  OBVIOUS
<1>1. /\ DOMAIN free = 1 .. NumBlocks
      /\ \A i \in 1 .. NumBlocks : free[i] = NumBlocks - i /\ free[i] \in Blocks
  BY KVAssumption DEF KVInit, Blocks
<1>2. \A b \in Blocks : NumBlocks - b \in 1 .. NumBlocks /\ free[NumBlocks - b] = b
  BY <1>1, KVAssumption DEF Blocks
<1>3. Range(free) = Blocks
  BY <1>1, <1>2 DEF Range
<1>4. \A s \in Seqs : Range(table[s]) = {}
  BY DEF KVInit, Range
<1>5. QED
  BY <1>3, <1>4 DEF Pool!PoolInit

LEMMA CallRefines ==
  ASSUME KVInv, [AnyCall]_kvVars
  PROVE  [Pool!PoolNext]_(Pool!poolVars)
<1>1. KVTypeOK
  BY DEF KVInv
<1>2. ASSUME NEW s \in Seqs, Release(s) PROVE Pool!PoolNext
  BY <1>1, <1>2, ReleaseStep, ShrunkRefines
<1>3. ASSUME NEW s \in Seqs, NEW n \in Nat, ReserveOk(s, n) \/ ReserveShort(s, n)
      PROVE  Pool!PoolNext
  <2>1. PICK k \in Nat : k <= Len(free) /\ Take(s, k)
    BY <1>1, <1>3, ReserveTakes
  <2>2. Grown(s, Range(Popped(k)))
    BY <2>1, TakeStep
  <2>3. QED
    BY <1>1, <2>2, GrownRefines
<1>4. ASSUME NEW s \in Seqs, NEW n \in Nat, Commit(s, n)
      PROVE  UNCHANGED Pool!poolVars
  BY <1>4 DEF Commit, Pool!poolVars
<1>5. CASE UNCHANGED kvVars
  BY <1>5 DEF kvVars, Pool!poolVars
<1>6. CASE AnyCall
  <2>1. PICK s \in Seqs : Release(s) \/ \E n \in Nat : KVStep(s, n)
    BY <1>6 DEF AnyCall
  <2>2. CASE Release(s)
    BY <2>2, <1>2
  <2>3. ASSUME NEW n \in Nat, KVStep(s, n)
        PROVE  [Pool!PoolNext]_(Pool!poolVars)
    <3>1. n \in Nat
      OBVIOUS
    <3>2. CASE ReserveOk(s, n) \/ ReserveShort(s, n)
      BY <1>3, <3>1, <3>2
    <3>3. CASE Commit(s, n)
      BY <1>4, <3>1, <3>3
    <3>4. QED
      BY <2>3, <3>2, <3>3 DEF KVStep
  <2>4. QED
    BY <2>1, <2>2, <2>3
<1>7. QED
  BY <1>5, <1>6

\* Every run of the allocator is one of the abstract pool: a Reserve takes
\* blocks nobody has, a Release gives back what its sequence holds.
THEOREM AllocatorImplementsPool == KVSpec => ImplementsPool
<1>1. KVInv /\ [AnyCall]_kvVars => [Pool!PoolNext]_(Pool!poolVars)
  BY CallRefines
<1>2. QED
  BY KVInitInv, CallInv, NextIsCall, PoolStarts, <1>1, PTL DEF KVSpec, ImplementsPool, Pool!PoolSpec
=============================================================================
