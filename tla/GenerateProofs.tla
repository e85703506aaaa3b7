---------------------------- MODULE GenerateProofs ----------------------------
(***************************************************************************)
(* Proofs about the single-sequence path, for every pool, block size and   *)
(* limit: its calls keep to the allocator's contract, so the pool's        *)
(* theorems hold of it; a call gives back what it took; and an error that  *)
(* is not the device's means that there was no room.                       *)
(***************************************************************************)
EXTENDS Generate, KVAllocatorProofs, FiniteSetTheorems

-----------------------------------------------------------------------------
(* A batch of one.                                                         *)

LEMMA SameCount == \A S : Backend!Cardinality(S) = Cardinality(S)
BY DEF Backend!Cardinality, Cardinality

LEMMA RowsOfOne ==
  ASSUME NEW e, e.n \in Nat
  PROVE  Cardinality(Backend!Rows(<<e>>)) = e.n
<1>1. Backend!Rows(<<e>>) = {1} \X (1 .. e.n)
  BY DEF Backend!Rows
<1>2. IsFiniteSet(1 .. e.n) /\ Cardinality(1 .. e.n) = e.n
  BY FS_Interval
<1>3. IsFiniteSet({1}) /\ Cardinality({1}) = 1
  BY FS_Singleton
<1>4. Cardinality({1} \X (1 .. e.n)) = 1 * e.n
  BY <1>2, <1>3, FS_Product
<1>5. 1 * e.n = e.n
  <2>1. PICK n \in Nat : n = e.n
    OBVIOUS
  <2>2. QED
    BY <2>1
<1>6. QED
  BY <1>1, <1>4, <1>5

LEMMA WidthOfOne ==
  ASSUME NEW e, Len(e.table) \in Nat
  PROVE  Backend!Width(<<e>>) = Len(e.table)
<1>1. {Len(<<e>>[i].table) : i \in DOMAIN <<e>>} \cup {0} = {Len(e.table), 0}
  <2>1. DOMAIN <<e>> = {1} /\ <<e>>[1] = e
    OBVIOUS
  <2>2. QED
    BY <2>1
<1>2. PICK w : w = Len(e.table) /\ w \in Nat
  OBVIOUS
<1>3. \A x \in {w, 0} : (\A y \in {w, 0} : x >= y) <=> x = w
  BY <1>2
<1>4. (CHOOSE x \in {w, 0} : \A y \in {w, 0} : x >= y) = w
  BY <1>3
<1>5. QED
  BY <1>1, <1>2, <1>4 DEF Backend!Width, Backend!Max

\* A sequence whose blocks are those that its tokens need is accepted, if
\* there are tokens and they end within MaxSeq.
LEMMA AcceptsWithinRange ==
  ASSUME KVTypeOK, NEW s \in Seqs, NEW n \in Nat, n > 0, len[s] + n <= MaxSeq,
         Len(table[s]) = BlocksFor(len[s] + n)
  PROVE  Backend!Accepts(<<[n |-> n, pos |-> len[s], table |-> table[s]]>>)
<1>. DEFINE e == [n |-> n, pos |-> len[s], table |-> table[s]]
            batch == <<e>>
<1>1. /\ len[s] \in Nat /\ table[s] \in Seq(Blocks)
      /\ MaxSeq \in Nat /\ BlockSize \in Nat /\ NumBlocks \in Nat
  BY KVAssumption DEF KVTypeOK
<1>2. PICK k \in Nat : k = BlocksFor(len[s] + n) /\ k = Len(table[s])
  BY <1>1, BlocksForNat
<1>3. /\ DOMAIN table[s] = 1 .. k
      /\ \A b \in 1 .. k : table[s][b] \in Blocks
  BY <1>1, <1>2
<1>4. k <= BlocksFor(MaxSeq) /\ BlocksFor(MaxSeq) \in Nat
  <2>1. len[s] + n \in Nat
    BY <1>1
  <2>2. QED
    BY <1>1, <1>2, <2>1, BlocksForMonotone, BlocksForNat
<1>5. /\ e.n = n /\ e.pos = len[s] /\ e.table = table[s]
      /\ Len(batch) = 1 /\ DOMAIN batch = {1} /\ batch[1] = e
  OBVIOUS
<1>. HIDE DEF e, batch
<1>6. Backend!Width(batch) = k
  BY <1>2, <1>5, WidthOfOne DEF batch
<1>7. ~ Backend!BadCount(batch)
  BY <1>5 DEF Backend!BadCount, Backend!MaxBatchSeqs
<1>8. ~ Backend!BadSequence(e, k)
  <2>1. Backend!RoundUp(e.pos + e.n) = k
    BY <1>2, <1>5 DEF Backend!RoundUp, BlocksFor
  <2>2. ~ Backend!NoTokens(e) /\ ~ Backend!OutOfRange(e)
    BY <1>1, <1>5 DEF Backend!NoTokens, Backend!OutOfRange
  <2>3. ~ Backend!RowTooShort(e, k)
    BY <2>1 DEF Backend!RowTooShort
  <2>4. ~ Backend!BadBlock(e, k)
    <3>1. \A b \in 1 .. k : Backend!Row(e, k)[b] = table[s][b]
      BY <1>2, <1>5 DEF Backend!Row
    <3>2. QED
      BY <1>3, <2>1, <3>1 DEF Backend!BadBlock, Blocks
  <2>5. QED
    BY <2>2, <2>3, <2>4 DEF Backend!BadSequence
<1>9. ~ Backend!TooManyTokens(batch)
  <2>1. Cardinality(Backend!Rows(batch)) = n
    BY <1>5, RowsOfOne DEF batch
  <2>2. QED
    BY <1>1, <2>1, SameCount DEF Backend!TooManyTokens
<1>10. ~ Backend!StagingFull(batch)
  <2>1. Backend!RoundUp(MaxSeq) = BlocksFor(MaxSeq)
    BY DEF Backend!RoundUp, BlocksFor
  <2>2. QED
    BY <1>4, <1>5, <1>6, <2>1 DEF Backend!StagingFull, Backend!MaxBatchSeqs
<1>11. QED
  BY <1>5, <1>6, <1>7, <1>8, <1>9, <1>10 DEF Backend!Accepts, batch, e

-----------------------------------------------------------------------------
(* The blocks of a call.                                                   *)

LEMMA InjectiveCount ==
  ASSUME NEW S, NEW s \in Seq(S), IsInjective(s)
  PROVE  IsFiniteSet(Range(s)) /\ Cardinality(Range(s)) = Len(s)
<1>1. Len(s) \in Nat /\ DOMAIN s = 1 .. Len(s) /\ s \in [1 .. Len(s) -> S]
  BY LenProperties
<1>2. s \in [1 .. Len(s) -> Range(s)]
  BY <1>1 DEF Range
<1>3. s \in Bijection(1 .. Len(s), Range(s))
  BY <1>1, <1>2 DEF Bijection, Injection, Surjection, IsInjective, Range
<1>4. ExistsBijection(1 .. Len(s), Range(s))
  BY <1>3 DEF ExistsBijection
<1>5. IsFiniteSet(1 .. Len(s)) /\ Cardinality(1 .. Len(s)) = Len(s)
  BY <1>1, FS_Interval
<1>6. QED
  BY <1>4, <1>5, FS_Bijection

\* What a sequence holds and what is free, counted.
LEMMA CountedBlocks ==
  ASSUME KVInv, NEW s \in Seqs
  PROVE  Cardinality(Range(free) \cup Range(table[s])) = Len(free) + Len(table[s])
<1>1. free \in Seq(Blocks) /\ table[s] \in Seq(Blocks)
  BY DEF KVInv, KVTypeOK
<1>2. IsInjective(free) /\ IsInjective(table[s]) /\ Range(free) \cap Range(table[s]) = {}
  BY DEF KVInv, BlocksPartitioned, FreeOnce, HeldOnce, FreeNotHeld
<1>3. IsFiniteSet(Range(free)) /\ Cardinality(Range(free)) = Len(free)
  BY <1>1, <1>2, InjectiveCount
<1>4. IsFiniteSet(Range(table[s])) /\ Cardinality(Range(table[s])) = Len(table[s])
  BY <1>1, <1>2, InjectiveCount
<1>5. Cardinality(Range(free) \cup Range(table[s])) = Len(free) + Len(table[s]) - Cardinality({})
  <2>1. Cardinality(Range(free) \cup Range(table[s]))
          = Cardinality(Range(free)) + Cardinality(Range(table[s])) - Cardinality(Range(free) \cap Range(table[s]))
    BY <1>3, <1>4, FS_Union
  <2>2. QED
    BY <1>2, <1>3, <1>4, <2>1
<1>6. Len(free) \in Nat /\ Len(table[s]) \in Nat /\ Cardinality({}) = 0
  BY <1>1, LenProperties, FS_EmptySet
<1>7. QED
  BY <1>5, <1>6

-----------------------------------------------------------------------------
(* The invariant.                                                          *)

Calls ==
  [by : {"generate", "prefill", "decode"}, seq : Seqs, prompt : Nat, max : Nat, eos : Nat,
   feed : Nat, stage : {"reserve", "forward", "sample", "return"}, out : Nat,
   err : {"none", "noroom", "refused", "fault"}, atCall : SUBSET Blocks]

CallTypeOK == call = NoCall \/ call \in Calls

\* The text so far.
Text == call.prompt + call.out

\* What is written and about to be written is the text so far.
FeedsText ==
  /\ call.stage \in {"reserve", "forward"} =>
       len[call.seq] + call.feed = Text /\ call.feed \in {call.prompt, 1}
  /\ call.stage = "sample" => len[call.seq] = Text

\* The sequence has the blocks of its text and no more.
HoldsText ==
  /\ call.stage = "reserve" => Len(table[call.seq]) <= BlocksFor(Text)
  /\ call.stage \in {"forward", "sample"} => Len(table[call.seq]) = BlocksFor(Text)

\* A call that goes on has met no error and no EOS.
GoesOn ==
  call # NoCall /\ call.stage # "return" =>
    /\ call.err = "none"
    /\ call.out <= call.max
    /\ call.by = "generate" => call.eos \notin 1 .. call.out

\* The blocks move between the free list and this one sequence.
OwnOrFree == call # NoCall => call.atCall = Range(free) \cup Range(table[call.seq])

GInv ==
  /\ KVInv /\ WrittenIsCovered
  /\ CallTypeOK
  /\ FeedsText /\ HoldsText /\ GoesOn /\ OwnOrFree
  /\ WholeTextOrNoRoom

LEMMA StageOfCall ==
  ASSUME CallTypeOK, call.stage # "none"
  PROVE  call \in Calls
BY DEF CallTypeOK, NoCall

LEMMA GInitInv == GInit => GInv
<1>. SUFFICES ASSUME GInit PROVE GInv
  OBVIOUS
<1>1. KVInv
  BY KVInitInv DEF GInit
<1>2. WrittenIsCovered
  BY KVAssumption DEF GInit, KVInit, WrittenIsCovered
<1>3. call = NoCall /\ call.stage = "none" /\ call.by = "nobody"
  BY DEF GInit, NoCall
<1>4. QED
  BY <1>1, <1>2, <1>3 DEF GInv, CallTypeOK, FeedsText, HoldsText, GoesOn, OwnOrFree, WholeTextOrNoRoom

\* Each step is a call of the allocator, or leaves it alone: what a call of
\* Forward commits it has reserved.
LEMMA StepIsCall ==
  ASSUME GInv, [GNext]_gVars
  PROVE  [AnyCall]_kvVars
<1>. USE DEF GInv
<1>1. CASE Reserve
  <2>1. call \in Calls
    BY <1>1, StageOfCall DEF Reserve
  <2>2. call.seq \in Seqs /\ call.feed \in Nat
    BY <2>1 DEF Calls
  <2>3. ReserveOk(call.seq, call.feed) \/ ReserveShort(call.seq, call.feed)
    BY <1>1 DEF Reserve
  <2>4. QED
    BY <2>2, <2>3 DEF AnyCall, KVStep
<1>2. CASE ForwardOk
  <2>1. call \in Calls
    BY <1>2, StageOfCall DEF ForwardOk
  <2>2. call.seq \in Seqs /\ call.feed \in Nat /\ call.prompt \in Nat /\ call.out \in Nat
    BY <2>1 DEF Calls
  <2>3. len[call.seq] + call.feed = Text /\ Len(table[call.seq]) = BlocksFor(Text) /\ Text \in Nat
    BY <1>2, <2>2 DEF ForwardOk, FeedsText, HoldsText, Text
  <2>4. Covered(call.seq, call.feed)
    BY <2>3, BlocksForCover DEF Covered
  <2>5. Commit(call.seq, call.feed)
    BY <1>2 DEF ForwardOk
  <2>6. QED
    BY <2>2, <2>4, <2>5 DEF AnyCall, KVStep
<1>3. CASE Return
  <2>1. call \in Calls
    BY <1>3, StageOfCall DEF Return
  <2>2. call.seq \in Seqs
    BY <2>1 DEF Calls
  <2>3. Release(call.seq) \/ UNCHANGED kvVars
    BY <1>3 DEF Return
  <2>4. QED
    BY <2>2, <2>3 DEF AnyCall
<1>4. CASE Others
  <2>1. KVNext
    BY <1>4 DEF Others
  <2>2. QED
    BY <2>1, NextIsCall
<1>5. CASE (\E prog \in {"generate", "prefill", "decode"} : Begin(prog)) \/ ForwardFails \/ LoopEnds \/ Sample
  BY <1>5 DEF Begin, ForwardFails, LoopEnds, Sample
<1>6. CASE UNCHANGED gVars
  BY <1>6 DEF gVars
<1>7. QED
  BY <1>1, <1>2, <1>3, <1>4, <1>5, <1>6 DEF GNext

-----------------------------------------------------------------------------
(* One step of a call.  The allocator's own invariants are kept by every   *)
(* call (StepIsCall); what is left is about this one.                      *)

TextInv == CallTypeOK /\ FeedsText /\ HoldsText /\ GoesOn /\ OwnOrFree /\ WholeTextOrNoRoom

LEMMA BeginStep ==
  ASSUME GInv, NEW prog \in {"generate", "prefill", "decode"}, Begin(prog)
  PROVE  TextInv'
<1>. PICK s \in Seqs, prompt \in 0 .. MaxSeq + 1, max \in 0 .. MaxTokens, eos \in 0 .. MaxTokens :
       /\ table[s] = <<>>
       /\ call' = [by |-> prog, seq |-> s, prompt |-> prompt, max |-> max, eos |-> eos,
                   feed |-> prompt, stage |-> "reserve", out |-> 0, err |-> "none",
                   atCall |-> Range(free)]
  BY DEF Begin
<1>1. UNCHANGED kvVars
  BY DEF Begin
<1>2. prompt \in Nat /\ max \in Nat /\ eos \in Nat
  BY KVAssumption, GenerateAssumption
<1>3. Range(free) \subseteq Blocks /\ len[s] \in Nat
  BY DEF GInv, KVInv, KVTypeOK, Range
<1>4. len[s] = 0
  BY <1>3, KVAssumption DEF GInv, WrittenIsCovered
<1>5. CallTypeOK'
  BY <1>2, <1>3 DEF CallTypeOK, Calls, Blocks
<1>6. FeedsText'
  BY <1>1, <1>2, <1>4 DEF FeedsText, Text, kvVars
<1>7. HoldsText'
  <2>1. BlocksFor(prompt + 0) \in Nat
    BY <1>2, BlocksForNat
  <2>2. Len(table[s]) = 0
    OBVIOUS
  <2>3. QED
    BY <1>1, <1>2, <2>1, <2>2 DEF HoldsText, Text, kvVars
<1>8. GoesOn' /\ WholeTextOrNoRoom'
  BY <1>2 DEF GoesOn, WholeTextOrNoRoom
<1>9. OwnOrFree'
  BY <1>1 DEF OwnOrFree, kvVars, Range
<1>10. QED
  BY <1>5, <1>6, <1>7, <1>8, <1>9 DEF TextInv

\* What a call in progress is, in rigid form.
LEMMA CallFacts ==
  ASSUME GInv, call.stage \in {"reserve", "forward", "sample", "return"}
  PROVE  /\ call \in Calls /\ call # NoCall
         /\ call.seq \in Seqs /\ call.prompt \in Nat /\ call.out \in Nat /\ call.feed \in Nat
         /\ call.max \in Nat /\ call.eos \in Nat /\ Text \in Nat
         /\ call.atCall = Range(free) \cup Range(table[call.seq])
         /\ len[call.seq] \in Nat /\ table[call.seq] \in Seq(Blocks) /\ free \in Seq(Blocks)
         /\ Len(table[call.seq]) \in Nat /\ Len(free) \in Nat
<1>1. call \in Calls /\ call # NoCall
  BY StageOfCall DEF GInv, NoCall
<1>2. /\ call.seq \in Seqs /\ call.prompt \in Nat /\ call.out \in Nat /\ call.feed \in Nat
      /\ call.max \in Nat /\ call.eos \in Nat
  BY <1>1 DEF Calls
<1>3. len[call.seq] \in Nat /\ table[call.seq] \in Seq(Blocks) /\ free \in Seq(Blocks)
  BY <1>2 DEF GInv, KVInv, KVTypeOK
<1>4. Len(table[call.seq]) \in Nat /\ Len(free) \in Nat
  BY <1>3, LenProperties
<1>5. call.atCall = Range(free) \cup Range(table[call.seq])
  BY <1>1 DEF GInv, OwnOrFree
<1>6. QED
  BY <1>1, <1>2, <1>3, <1>4, <1>5 DEF Text

\* A call that goes on has not sampled more than it returns at the most.
LEMMA OutWithinText ==
  ASSUME GInv, call.stage \in {"reserve", "forward", "sample"}, call.by = "generate"
  PROVE  call.out <= (IF call.eos \in 1 .. call.max THEN call.eos ELSE call.max)
<1>1. call.out \in Nat /\ call.max \in Nat /\ call.eos \in Nat /\ call # NoCall
  BY CallFacts
<1>2. call.out <= call.max /\ call.eos \notin 1 .. call.out
  BY <1>1 DEF GInv, GoesOn
<1>3. QED
  BY <1>1, <1>2

LEMMA ReserveOkStep ==
  ASSUME GInv, call.stage = "reserve", ReserveOk(call.seq, call.feed), Goes("forward", "none")
  PROVE  TextInv'
<1>. DEFINE s == call.seq
            k == Missing(s, call.feed)
<1>1. /\ call \in Calls /\ s \in Seqs /\ call.feed \in Nat /\ Text \in Nat
      /\ call.atCall = Range(free) \cup Range(table[s]) /\ Len(table[s]) \in Nat
  BY CallFacts
<1>2. len[s] + call.feed = Text /\ call.feed \in {call.prompt, 1} /\ Len(table[s]) <= BlocksFor(Text)
  BY DEF GInv, FeedsText, HoldsText
<1>3. call' = [call EXCEPT !.stage = "forward", !.err = "none"]
  BY DEF Goes
<1>4. k \in Nat /\ k <= Len(free) /\ Take(s, k) /\ UNCHANGED len
  BY <1>1, MissingNat DEF ReserveOk, Take, GInv, KVInv
<1>5. Len(table'[s]) = BlocksFor(Text)
  <2>1. Len(table'[s]) = Len(table[s]) + k
    BY <1>1, <1>4, TakeExtends DEF GInv, KVInv
  <2>2. BlocksFor(Text) \in Nat
    BY <1>1, BlocksForNat
  <2>3. k = BlocksFor(Text) - Len(table[s])
    BY <1>1, <1>2, <2>2 DEF Missing
  <2>4. QED
    BY <1>1, <2>1, <2>2, <2>3
<1>6. Range(free)' \cup Range(table'[s]) = call.atCall
  <2>1. Grown(s, Range(Popped(k)))
    BY <1>1, <1>4, TakeStep DEF GInv
  <2>2. QED
    BY <1>1, <2>1 DEF Grown
<1>. HIDE DEF k
<1>7. /\ call'.seq = s /\ call'.stage = "forward" /\ call'.err = "none" /\ call'.by = call.by
      /\ call'.prompt = call.prompt /\ call'.out = call.out /\ call'.feed = call.feed
      /\ call'.max = call.max /\ call'.eos = call.eos /\ call'.atCall = call.atCall
      /\ call' \in Calls /\ call' # NoCall
  BY <1>1, <1>3 DEF Calls, NoCall
<1>8. CallTypeOK'
  BY <1>7 DEF CallTypeOK, Calls, Blocks
<1>9. FeedsText'
  BY <1>2, <1>4, <1>7 DEF FeedsText, Text
<1>10. HoldsText'
  BY <1>5, <1>7 DEF HoldsText, Text, BlocksFor
<1>11. GoesOn'
  BY <1>1, <1>7 DEF GInv, GoesOn, NoCall
<1>12. OwnOrFree' /\ WholeTextOrNoRoom'
  BY <1>6, <1>7 DEF OwnOrFree, WholeTextOrNoRoom
<1>13. QED
  BY <1>8, <1>9, <1>10, <1>11, <1>12 DEF TextInv

LEMMA ReserveShortStep ==
  ASSUME GInv, call.stage = "reserve", ReserveShort(call.seq, call.feed), Goes("return", "noroom")
  PROVE  TextInv'
<1>. DEFINE s == call.seq
<1>1. /\ call \in Calls /\ s \in Seqs /\ call.feed \in Nat /\ Text \in Nat /\ call.out \in Nat
      /\ call.atCall = Range(free) \cup Range(table[s]) /\ Len(table[s]) \in Nat /\ Len(free) \in Nat
  BY CallFacts
<1>2. len[s] + call.feed = Text
  BY DEF GInv, FeedsText
<1>3. call' = [call EXCEPT !.stage = "return", !.err = "noroom"]
  BY DEF Goes
<1>4. Len(free) <= Len(free) /\ Take(s, Len(free))
  BY <1>1 DEF ReserveShort
<1>5. Range(free)' \cup Range(table'[s]) = call.atCall
  <2>1. Grown(s, Range(Popped(Len(free))))
    BY <1>1, <1>4, TakeStep DEF GInv
  <2>2. QED
    BY <1>1, <2>1 DEF Grown
<1>6. BlocksFor(Text) > Cardinality(call.atCall)
  <2>1. Cardinality(call.atCall) = Len(free) + Len(table[s])
    BY <1>1, CountedBlocks DEF GInv
  <2>2. BlocksFor(Text) \in Nat /\ Missing(s, call.feed) > Len(free)
    BY <1>1, BlocksForNat DEF ReserveShort
  <2>3. BlocksFor(Text) > Len(table[s]) + Len(free)
    BY <1>1, <1>2, <2>2 DEF Missing
  <2>4. QED
    BY <1>1, <2>1, <2>3
<1>7. /\ call'.seq = s /\ call'.stage = "return" /\ call'.err = "noroom" /\ call'.by = call.by
      /\ call'.prompt = call.prompt /\ call'.out = call.out
      /\ call'.max = call.max /\ call'.eos = call.eos /\ call'.atCall = call.atCall
      /\ call' \in Calls
  BY <1>1, <1>3 DEF Calls
<1>8. CallTypeOK'
  BY <1>7 DEF CallTypeOK, Calls, Blocks
<1>9. FeedsText' /\ HoldsText' /\ GoesOn' /\ OwnOrFree'
  BY <1>5, <1>7 DEF FeedsText, HoldsText, GoesOn, OwnOrFree
<1>10. WholeTextOrNoRoom'
  <2>1. call.by = "generate" => call.out <= (IF call.eos \in 1 .. call.max THEN call.eos ELSE call.max)
    BY OutWithinText
  <2>2. QED
    BY <1>6, <1>7, <2>1 DEF WholeTextOrNoRoom, Text, BlocksFor
<1>11. QED
  BY <1>8, <1>9, <1>10 DEF TextInv

\* The backend refuses a sequence that has its blocks for nothing else.
LEMMA RefusedForRange ==
  ASSUME GInv, call.stage = "forward", Refused
  PROVE  call.prompt = 0 \/ Text > MaxSeq
<1>1. /\ call.seq \in Seqs /\ call.feed \in Nat /\ call.prompt \in Nat /\ Text \in Nat
      /\ len[call.seq] \in Nat /\ MaxSeq \in Nat
  BY CallFacts, KVAssumption
<1>2. /\ len[call.seq] + call.feed = Text /\ call.feed \in {call.prompt, 1}
      /\ Len(table[call.seq]) = BlocksFor(Text)
  BY DEF GInv, FeedsText, HoldsText
<1>3. SUFFICES ASSUME call.feed > 0, Text <= MaxSeq PROVE FALSE
  BY <1>1, <1>2
<1>4. Backend!Accepts(<<[n |-> call.feed, pos |-> len[call.seq], table |-> table[call.seq]]>>)
  BY <1>1, <1>2, <1>3, AcceptsWithinRange DEF GInv, KVInv
<1>5. QED
  BY <1>4 DEF Refused

LEMMA ForwardFailsStep ==
  ASSUME GInv, ForwardFails
  PROVE  TextInv'
<1>1. /\ call \in Calls /\ call.seq \in Seqs /\ call.out \in Nat /\ call.prompt \in Nat
      /\ call.atCall = Range(free) \cup Range(table[call.seq])
  BY CallFacts DEF ForwardFails
<1>2. PICK err \in {"refused", "fault"} :
        call' = [call EXCEPT !.stage = "return", !.err = err] /\ (err = "refused" => Refused)
  BY DEF ForwardFails, Goes
<1>3. call.stage = "forward" /\ UNCHANGED kvVars
  BY DEF ForwardFails
<1>4. /\ call'.seq = call.seq /\ call'.stage = "return" /\ call'.err = err /\ call'.by = call.by
      /\ call'.prompt = call.prompt /\ call'.out = call.out
      /\ call'.max = call.max /\ call'.eos = call.eos /\ call'.atCall = call.atCall
      /\ call' \in Calls
  BY <1>1, <1>2 DEF Calls
<1>5. CallTypeOK'
  BY <1>4 DEF CallTypeOK, Calls, Blocks
<1>6. FeedsText' /\ HoldsText' /\ GoesOn' /\ OwnOrFree'
  BY <1>1, <1>3, <1>4 DEF FeedsText, HoldsText, GoesOn, OwnOrFree, kvVars
<1>7. WholeTextOrNoRoom'
  <2>1. call.by = "generate" => call.out <= (IF call.eos \in 1 .. call.max THEN call.eos ELSE call.max)
    BY <1>3, OutWithinText
  <2>2. err = "refused" => call.prompt = 0 \/ call.prompt + call.out > MaxSeq
    BY <1>2, <1>3, RefusedForRange DEF Text
  <2>3. QED
    BY <1>2, <1>4, <2>1, <2>2 DEF WholeTextOrNoRoom
<1>8. QED
  BY <1>5, <1>6, <1>7 DEF TextInv

LEMMA ForwardOkStep ==
  ASSUME GInv, ForwardOk
  PROVE  TextInv'
<1>1. /\ call \in Calls /\ call.seq \in Seqs /\ call # NoCall
      /\ call.atCall = Range(free) \cup Range(table[call.seq])
  BY CallFacts DEF ForwardOk
<1>2. /\ len[call.seq] + call.feed = Text /\ Len(table[call.seq]) = BlocksFor(Text)
      /\ call.stage = "forward"
  BY DEF GInv, FeedsText, HoldsText, ForwardOk
<1>3. len'[call.seq] = Text /\ UNCHANGED <<free, table>>
  BY <1>1, <1>2 DEF ForwardOk, Commit, GInv, KVInv, KVTypeOK
<1>4. /\ call'.seq = call.seq /\ call'.stage = "sample" /\ call'.err = "none" /\ call'.by = call.by
      /\ call'.prompt = call.prompt /\ call'.out = call.out
      /\ call'.max = call.max /\ call'.eos = call.eos /\ call'.atCall = call.atCall
      /\ call' \in Calls
  BY <1>1 DEF ForwardOk, Goes, Calls
<1>5. CallTypeOK'
  BY <1>4 DEF CallTypeOK, Calls, Blocks
<1>6. FeedsText' /\ HoldsText'
  BY <1>2, <1>3, <1>4 DEF FeedsText, HoldsText, Text, BlocksFor
<1>7. GoesOn'
  BY <1>1, <1>2, <1>4 DEF GInv, GoesOn
<1>8. OwnOrFree' /\ WholeTextOrNoRoom'
  BY <1>1, <1>3, <1>4 DEF OwnOrFree, WholeTextOrNoRoom
<1>9. QED
  BY <1>5, <1>6, <1>7, <1>8 DEF TextInv

LEMMA LoopEndsStep ==
  ASSUME GInv, LoopEnds
  PROVE  TextInv'
<1>1. /\ call \in Calls /\ call.seq \in Seqs /\ call # NoCall
      /\ call.out \in Nat /\ call.max \in Nat /\ call.eos \in Nat
      /\ call.atCall = Range(free) \cup Range(table[call.seq])
  BY CallFacts DEF LoopEnds
<1>2. call.stage = "sample" /\ UNCHANGED kvVars
  BY DEF LoopEnds
<1>3. /\ call'.seq = call.seq /\ call'.stage = "return" /\ call'.err = "none" /\ call'.by = call.by
      /\ call'.prompt = call.prompt /\ call'.out = call.out
      /\ call'.max = call.max /\ call'.eos = call.eos /\ call'.atCall = call.atCall
      /\ call' \in Calls
  BY <1>1 DEF LoopEnds, Goes, Calls
<1>4. CallTypeOK'
  BY <1>3 DEF CallTypeOK, Calls, Blocks
<1>5. FeedsText' /\ HoldsText' /\ GoesOn' /\ OwnOrFree'
  BY <1>1, <1>2, <1>3 DEF FeedsText, HoldsText, GoesOn, OwnOrFree, kvVars
<1>6. call.by = "generate" => call.out = (IF call.eos \in 1 .. call.max THEN call.eos ELSE call.max)
  <2>1. SUFFICES ASSUME call.by = "generate"
                 PROVE  call.out = (IF call.eos \in 1 .. call.max THEN call.eos ELSE call.max)
    OBVIOUS
  <2>2. call.out >= call.max
    BY <2>1 DEF LoopEnds, Enough
  <2>3. call.out <= call.max /\ call.eos \notin 1 .. call.out
    BY <1>1, <1>2, <2>1 DEF GInv, GoesOn
  <2>4. QED
    BY <1>1, <2>2, <2>3
<1>7. WholeTextOrNoRoom'
  BY <1>1, <1>3, <1>6 DEF WholeTextOrNoRoom
<1>8. QED
  BY <1>4, <1>5, <1>7 DEF TextInv

LEMMA NextToken ==
  ASSUME NEW c \in Calls, NEW n \in Nat, NEW stage \in {"return", "reserve"}
  PROVE  [c EXCEPT !.out = n, !.feed = 1, !.stage = stage] \in Calls
<1>1. [c EXCEPT !.out = n] \in Calls
  BY DEF Calls
<1>2. \A d \in Calls : [d EXCEPT !.feed = 1, !.stage = stage] \in Calls
  BY DEF Calls
<1>3. QED
  BY <1>1, <1>2

LEMMA SampleStep ==
  ASSUME GInv, Sample
  PROVE  TextInv'
<1>1. /\ call \in Calls /\ call.seq \in Seqs /\ call # NoCall /\ call.prompt \in Nat
      /\ call.out \in Nat /\ call.max \in Nat /\ call.eos \in Nat /\ Text \in Nat
      /\ call.atCall = Range(free) \cup Range(table[call.seq])
  BY CallFacts DEF Sample
<1>2. call.stage = "sample" /\ UNCHANGED kvVars /\ call.out < call.max
  BY <1>1 DEF Sample, Enough
<1>3. /\ len[call.seq] = Text /\ Len(table[call.seq]) = BlocksFor(Text) /\ call.err = "none"
      /\ call.by = "generate" => call.eos \notin 1 .. call.out
  BY <1>1, <1>2 DEF GInv, FeedsText, HoldsText, GoesOn
<1>4. PICK stage \in {"return", "reserve"}, out \in Nat :
        /\ call' = [call EXCEPT !.out = out, !.feed = 1, !.stage = stage]
        /\ out = call.out + 1
        /\ stage = "return" <=> call.by = "generate" /\ call.out + 1 = call.eos
  <2>1. PICK out \in Nat : out = call.out + 1
    BY <1>1
  <2>2. PICK stage \in {"return", "reserve"} :
          /\ call' = [call EXCEPT !.out = call.out + 1, !.feed = 1, !.stage = stage]
          /\ stage = "return" <=> call.by = "generate" /\ call.out + 1 = call.eos
    BY DEF Sample
  <2>3. call' = [call EXCEPT !.out = out, !.feed = 1, !.stage = stage]
    BY <2>1, <2>2
  <2>4. QED
    BY <2>1, <2>2, <2>3
<1>5. call' \in Calls
  BY <1>1, <1>4, NextToken
<1>6. /\ call'.seq = call.seq /\ call'.stage = stage
      /\ call'.err = "none" /\ call'.by = call.by /\ call'.feed = 1
      /\ call'.prompt = call.prompt /\ call'.out = out
      /\ call'.max = call.max /\ call'.eos = call.eos /\ call'.atCall = call.atCall
  BY <1>1, <1>3, <1>4 DEF Calls
<1>7. CallTypeOK'
  BY <1>5 DEF CallTypeOK, Calls, Blocks
<1>8. Text' = Text + 1
  BY <1>1, <1>4, <1>6 DEF Text
<1>9. FeedsText'
  BY <1>2, <1>3, <1>6, <1>8 DEF FeedsText, kvVars
<1>10. HoldsText'
  <2>1. BlocksFor(Text) <= BlocksFor(Text + 1)
    BY <1>1, BlocksForMonotone
  <2>2. BlocksFor(Text)' = BlocksFor(Text + 1)
    BY <1>8 DEF BlocksFor
  <2>3. QED
    BY <1>2, <1>3, <1>6, <2>1, <2>2 DEF HoldsText, kvVars
<1>11. GoesOn'
  <2>1. stage = "reserve" /\ call.by = "generate" => out # call.eos
    BY <1>4
  <2>2. out \in Nat /\ out = call.out + 1
    BY <1>4
  <2>3. QED
    BY <1>1, <1>2, <1>3, <1>6, <2>1, <2>2 DEF GoesOn
<1>12. OwnOrFree'
  BY <1>1, <1>2, <1>6 DEF OwnOrFree, kvVars
<1>13. WholeTextOrNoRoom'
  <2>1. stage = "return" => out = call.eos
    BY <1>4
  <2>2. out \in Nat /\ out = call.out + 1
    BY <1>4
  <2>3. QED
    BY <1>1, <1>2, <1>3, <1>6, <2>1, <2>2 DEF WholeTextOrNoRoom
<1>14. QED
  BY <1>7, <1>9, <1>10, <1>11, <1>12, <1>13 DEF TextInv

LEMMA GNextInv ==
  ASSUME GInv, [GNext]_gVars
  PROVE  GInv'
<1>1. KVInv' /\ WrittenIsCovered'
  BY StepIsCall, CallInv, CoveredNext DEF GInv, KVInv
<1>2. TextInv'
  <2>1. CASE \E prog \in {"generate", "prefill", "decode"} : Begin(prog)
    BY <2>1, BeginStep
  <2>2. CASE Reserve
    BY <2>2, ReserveOkStep, ReserveShortStep DEF Reserve
  <2>3. CASE ForwardFails \/ ForwardOk \/ LoopEnds \/ Sample
    BY <2>3, ForwardFailsStep, ForwardOkStep, LoopEndsStep, SampleStep
  <2>4. CASE Return \/ Others
    <3>1. call' = NoCall
      BY <2>4 DEF Return, Others
    <3>2. QED
      BY <3>1 DEF NoCall, TextInv, CallTypeOK, FeedsText, HoldsText, GoesOn, OwnOrFree,
                  WholeTextOrNoRoom
  <2>5. CASE UNCHANGED gVars
    BY <2>5 DEF gVars, kvVars, GInv, TextInv, CallTypeOK, Calls, Blocks, FeedsText, HoldsText, GoesOn,
                OwnOrFree, WholeTextOrNoRoom, Text, BlocksFor
  <2>6. QED
    BY <2>1, <2>2, <2>3, <2>4, <2>5 DEF GNext
<1>3. QED
  BY <1>1, <1>2 DEF GInv, TextInv

LEMMA GInductive == GSpec => []GInv
<1>1. GInv /\ [GNext]_gVars => GInv'
  BY GNextInv
<1>2. QED
  BY GInitInv, <1>1, PTL DEF GSpec

-----------------------------------------------------------------------------
\* Generate and the benchmark keep the pool whole, whoever else draws on it:
\* its ids, the partition of its blocks, and the coverage of what is written.
THEOREM GenerateKeepsPool == GSpec => [](KVTypeOK /\ BlocksPartitioned /\ WrittenIsCovered)
<1>1. GInv => KVTypeOK /\ BlocksPartitioned /\ WrittenIsCovered
  BY DEF GInv, KVInv
<1>2. QED
  BY GInductive, <1>1, PTL

\* Nothing a single sequence has written moves to another block.
THEOREM GenerateStaysPut == GSpec => WrittenStaysPut
<1>1. GInv /\ [GNext]_gVars => [KeepsWritten]_kvVars
  BY StepIsCall, CallKeepsWritten DEF GInv, KVInv
<1>2. QED
  BY GInductive, <1>1, PTL DEF GSpec, WrittenStaysPut

\* The single-sequence path uses the allocator as the abstract pool allows: a
\* call takes blocks nobody has, and gives back what its sequence holds.
THEOREM GenerateUsesPool == GSpec => ImplementsPool
<1>1. GInv /\ [GNext]_gVars => [Pool!PoolNext]_(Pool!poolVars)
  BY StepIsCall, CallRefines DEF GInv
<1>2. GInit => Pool!PoolInit
  BY PoolStarts DEF GInit
<1>3. QED
  BY GInductive, <1>1, <1>2, PTL DEF GSpec, ImplementsPool, Pool!PoolSpec

\* A text is returned whole, or with an error of the device, or because the
\* prompt and what was sampled do not fit a sequence or the blocks that were
\* free (Engine.Generate).
THEOREM TextOrNoRoom == GSpec => []WholeTextOrNoRoom
<1>1. GInv => WholeTextOrNoRoom
  BY DEF GInv
<1>2. QED
  BY GInductive, <1>1, PTL

\* Each return but a benchmark's failed decode gives back every block the call
\* took, also those of a Reserve or a forward that failed.
THEOREM CallsGiveBack == GSpec => PoolComesBack
<1>. DEFINE Back == call.stage = "return" =>
                     Range(free') = call.atCall \/ (call.by = "decode" /\ call.err # "none")
<1>1. ASSUME GInv, [GNext]_gVars PROVE [Back]_gVars
  <2>1. SUFFICES ASSUME GNext, call.stage = "return", ~ (call.by = "decode" /\ call.err # "none")
                 PROVE  Range(free') = call.atCall
    BY <1>1
  <2>2. Return
    BY <2>1 DEF GNext, Begin, Reserve, ForwardFails, ForwardOk, LoopEnds, Sample, Others, NoCall
  <2>3. call.seq \in Seqs /\ call.atCall = Range(free) \cup Range(table[call.seq])
    BY <1>1, <2>1, CallFacts
  <2>4. Release(call.seq)
    BY <2>1, <2>2 DEF Return, Releases
  <2>5. Range(free)' = Range(free) \cup Range(table[call.seq])
    BY <1>1, <2>3, <2>4, ReleaseStep DEF GInv, Shrunk
  <2>6. QED
    BY <2>3, <2>5
<1>2. QED
  BY GInductive, <1>1, PTL DEF GSpec, PoolComesBack
=============================================================================
