--------------------------- MODULE SchedulerProofs ---------------------------
(***************************************************************************)
(* Proofs about the scheduler, for every set of requests, prompt, limit,   *)
(* pool and batch size: its type; that no request is lost, duplicated or   *)
(* touched after its stream was closed; that a stream's channel always has *)
(* room; that the loop keeps to the allocator's specification, from which  *)
(* the partition of the pool and BlockPool follow; and, from IndInv, that  *)
(* blocks are held by live requests only, that no decode is left out of a  *)
(* step, that the counters add up, that a batch is within the limits of    *)
(* the backend, and what a client is promised: the KV a request has written*)
(* is never overwritten, so the loop serves every request as if it were    *)
(* alone.                                                                  *)
(***************************************************************************)
EXTENDS SchedulerProperties, KVAllocatorProofs, FiniteSetTheorems, WellFoundedInduction

-----------------------------------------------------------------------------
(* The strengthening that makes KVIsolated and ServesAlone inductive.       *)

\* What Submit has not let through has written nothing.
UntakenFresh == \A r \in Requests : ~ Taken(r) => ~ prefilled[r] /\ len[r] = 0

\* A live request has written what it has been sent but for the last token,
\* which it feeds next; before its prompt is in it has written nothing.
FeedsRight ==
  \A r \in Live :
    IF prefilled[r] THEN nextTok[r] = len[r] /\ len[r] = PromptLen[r] + generated[r] - 1
    ELSE len[r] = 0 /\ generated[r] = 0

TextsRight ==
  \A r \in Requests : \A k \in DOMAIN tokens[r] : tokens[r][k] = PromptLen[r] + k - 1

NotOver == \A r \in Live : generated[r] < SoloLen[r]

\* What the forward returned is right for each request still to be committed,
\* and so are the cells it wrote.
LogitsRight ==
  pc = "commit" =>
    \A i \in DOMAIN stepReqs :
      LET r == stepReqs[i]
          n == len[r] + FeedLen(r)
      IN  logits[i] = n /\ Intact(cells, r, n)

FailuresFail == pc = "failing" => why # "done"

RightInv ==
  /\ KVIsolated
  /\ UntakenFresh
  /\ FeedsRight
  /\ TextsRight
  /\ NotOver
  /\ LogitsRight
  /\ FailuresFail

-----------------------------------------------------------------------------
(* The strengthening that makes DecodesNeverSkipped inductive.              *)

\* Prompts only are in the channel or waiting, and only decodes are running
\* between two steps, or have been through this step's commit.
PromptsWait == \A r \in Range(queue) \cup Range(waiting) : ~ prefilled[r]
DecodesRun == \A r \in Range(running) \cup Range(nxt) : prefilled[r]

\* While a batch is formed the decodes come first, and the budget is enough
\* for those that are left.
DecodesAhead ==
  \A j \in DOMAIN todo :
    prefilled[todo[j]] => j <= budget /\ \A i \in 1 .. j : prefilled[todo[i]]

\* A step has no more requests than tokens, and neither have those it leaves
\* for the next.
StepWithinBudget ==
  /\ Len(running) <= MaxSeq
  /\ pc \in {"form", "forward"} \/ (pc = "failing" /\ after = "form") =>
       Len(stepReqs) + budget <= MaxSeq
  /\ pc = "commit" => Len(stepReqs) + Len(nxt) <= MaxSeq

BatchInv ==
  /\ UntakenFresh
  /\ skipped = <<>>
  /\ PromptsWait
  /\ DecodesRun
  /\ DecodesAhead
  /\ StepWithinBudget

-----------------------------------------------------------------------------
(* The strengthening that makes MetricsAddUp inductive.                     *)

Counters ==
  [total : Nat, done : Nat, tokens : Nat, prefill : Nat, steps : Nat, batched : Nat,
   ttft : Nat, itl : Nat, runningSeqs : Nat, queuedReqs : Nat, kvUsed : Int]

\* The first token and the end of the prefill are one commit.
BegunArePrefilled == \A r \in Requests : prefilled[r] <=> r \in Begun

MetricsInv ==
  /\ m \in Counters
  /\ BegunArePrefilled
  /\ \A S \in {Counted, Ended, Begun, Sent, PromptsIn} : IsFiniteSet(S)
  /\ MetricsAddUp

-----------------------------------------------------------------------------
(* The strengthening that makes BatchWithinLimits inductive.                *)

Forms == pc \in {"form", "forward"} \/ (pc = "failing" /\ after = "form")

\* There are never more requests under way than slots.
SlotsKept ==
  /\ Len(running) <= maxBatch
  /\ Forms => Len(todo) + Len(stepReqs) <= maxBatch
  /\ pc = "commit" => Len(stepReqs) + Len(nxt) <= maxBatch

\* What the batch feeds is what the budget has lost.
BudgetSpent ==
  Forms =>
    /\ IsFiniteSet(Backend!Rows(Batch))
    /\ Cardinality(Backend!Rows(Batch)) + budget = MaxSeq

\* No table is longer than what its request has written and feeds next.
TablesFit == \A r \in Requests : Len(table[r]) <= BlocksFor(len[r] + FeedLen(r))

LimitsInv ==
  /\ SlotsKept
  /\ pc = "forward" => stepReqs # <<>>
  /\ BudgetSpent
  /\ TablesFit

-----------------------------------------------------------------------------
(* Moving requests between lists. *)

\* The converse of ConcatInjective.
LEMMA ConcatSplits ==
  ASSUME NEW S, NEW s \in Seq(S), NEW t \in Seq(S), IsInjective(s \o t)
  PROVE  IsInjective(s) /\ IsInjective(t) /\ Range(s) \cap Range(t) = {}
<1>1. /\ Len(s) \in Nat /\ DOMAIN s = 1 .. Len(s)
      /\ Len(t) \in Nat /\ DOMAIN t = 1 .. Len(t)
      /\ DOMAIN (s \o t) = 1 .. Len(s) + Len(t)
  BY LenProperties, ConcatProperties
<1>2. /\ \A i \in 1 .. Len(s) : i \in DOMAIN (s \o t) /\ (s \o t)[i] = s[i]
      /\ \A i \in 1 .. Len(t) :
           Len(s) + i \in DOMAIN (s \o t) /\ (s \o t)[Len(s) + i] = t[i]
  BY <1>1, ConcatProperties
<1>3. \A i, j \in DOMAIN (s \o t) : (s \o t)[i] = (s \o t)[j] => i = j
  BY DEF IsInjective
<1>4. IsInjective(s)
  BY <1>1, <1>2, <1>3 DEF IsInjective
<1>5. IsInjective(t)
  <2>1. SUFFICES ASSUME NEW i \in 1 .. Len(t), NEW j \in 1 .. Len(t), t[i] = t[j]
                 PROVE  i = j
    BY <1>1 DEF IsInjective
  <2>2. Len(s) + i = Len(s) + j
    BY <2>1, <1>2, <1>3
  <2>3. QED
    BY <2>2, <1>1
<1>6. ASSUME NEW i \in 1 .. Len(s), NEW j \in 1 .. Len(t)
      PROVE  s[i] # t[j]
  <2>1. i # Len(s) + j
    BY <1>1
  <2>2. QED
    BY <2>1, <1>2, <1>3
<1>7. Range(s) \cap Range(t) = {}
  BY <1>1, <1>6 DEF Range
<1>8. QED
  BY <1>4, <1>5, <1>7

\* Families of eight lists, as the loop's Lists.
Family(L) == DOMAIN L = 1 .. 8 /\ \A a \in 1 .. 8 : L[a] \in Seq(Requests)

Distinct(L) ==
  /\ \A a \in 1 .. 8 : IsInjective(L[a])
  /\ \A a, b \in 1 .. 8 : a # b => Range(L[a]) \cap Range(L[b]) = {}

All(L) == UNION {Range(L[a]) : a \in 1 .. 8}

\* M is L with a first part p of list a taken off it and appended to list b.
Moves(L, M, a, b, p) ==
  /\ a \in 1 .. 8 /\ b \in 1 .. 8 /\ a # b
  /\ p \in Seq(Requests)
  /\ L[a] = p \o M[a]
  /\ M[b] = L[b] \o p
  /\ \A c \in 1 .. 8 : c # a /\ c # b => M[c] = L[c]

LEMMA RangeOfTwo ==
  ASSUME NEW p \in Seq(Requests), NEW q \in Seq(Requests)
  PROVE  Range(p \o q) = Range(p) \cup Range(q)
BY RangeConcatenation

LEMMA MovesKeeps ==
  ASSUME NEW L, NEW M, NEW a, NEW b, NEW p,
         Family(L), Family(M), Distinct(L), Moves(L, M, a, b, p)
  PROVE  Distinct(M) /\ All(M) = All(L)
<1>1. /\ p \in Seq(Requests) /\ M[a] \in Seq(Requests) /\ L[b] \in Seq(Requests)
      /\ a \in 1 .. 8 /\ b \in 1 .. 8 /\ a # b
  BY DEF Family, Moves
<1>2. /\ IsInjective(p) /\ IsInjective(M[a]) /\ Range(p) \cap Range(M[a]) = {}
      /\ Range(L[a]) = Range(p) \cup Range(M[a])
  <2>1. IsInjective(p \o M[a])
    BY <1>1 DEF Distinct, Moves
  <2>2. QED
    BY <1>1, <2>1, ConcatSplits, RangeOfTwo DEF Moves
<1>3. Range(M[b]) = Range(L[b]) \cup Range(p)
  BY <1>1, RangeOfTwo DEF Moves
<1>4. IsInjective(M[b])
  <2>1. IsInjective(L[b]) /\ Range(L[b]) \cap Range(p) = {}
    BY <1>1, <1>2 DEF Distinct
  <2>2. QED
    BY <1>1, <1>2, <2>1, ConcatInjective DEF Moves
<1>5. \A c \in 1 .. 8 : c # a /\ c # b => M[c] = L[c]
  BY DEF Moves
<1>6. Distinct(M)
  <2>1. \A c \in 1 .. 8 : IsInjective(M[c])
    BY <1>2, <1>4, <1>5 DEF Distinct
  <2>2. \A c, d \in 1 .. 8 : c # d => Range(M[c]) \cap Range(M[d]) = {}
    BY <1>1, <1>2, <1>3, <1>5 DEF Distinct
  <2>3. QED
    BY <2>1, <2>2 DEF Distinct
<1>7. All(M) = All(L)
  BY <1>1, <1>2, <1>3, <1>5 DEF All
<1>8. QED
  BY <1>6, <1>7

\* M is L without the head of list a.
Drops(L, M, a) ==
  /\ a \in 1 .. 8
  /\ L[a] # <<>>
  /\ M[a] = Tail(L[a])
  /\ \A c \in 1 .. 8 : c # a => M[c] = L[c]

\* A nonempty list is its head and its tail.
LEMMA HeadAndTail ==
  ASSUME NEW S, NEW s \in Seq(S), s # <<>>
  PROVE  /\ Head(s) \in S /\ Tail(s) \in Seq(S)
         /\ <<Head(s)>> \in Seq(S) /\ s = <<Head(s)>> \o Tail(s)
         /\ Range(<<Head(s)>>) = {Head(s)}
<1>1. /\ Head(s) \in S /\ Tail(s) \in Seq(S) /\ Len(Tail(s)) = Len(s) - 1
      /\ \A i \in 1 .. Len(Tail(s)) : Tail(s)[i] = s[i + 1]
  BY HeadTailProperties
<1>2. <<Head(s)>> \in Seq(S) /\ Len(<<Head(s)>>) = 1 /\ <<Head(s)>>[1] = Head(s)
  BY <1>1
<1>3. Len(s) \in Nat \ {0} /\ Head(s) = s[1]
  BY EmptySeq
<1>4. s = <<Head(s)>> \o Tail(s)
  <2>. DEFINE t == <<Head(s)>> \o Tail(s)
  <2>1. /\ t \in Seq(S) /\ Len(t) = 1 + Len(Tail(s))
        /\ \A i \in 1 .. 1 + Len(Tail(s)) :
             t[i] = IF i <= 1 THEN Head(s) ELSE Tail(s)[i - 1]
    BY <1>1, <1>2, ConcatProperties
  <2>2. \A i \in 1 .. Len(s) : t[i] = s[i]
    BY <1>1, <1>3, <2>1
  <2>3. Len(t) = Len(s)
    BY <1>1, <1>3, <2>1
  <2>. HIDE DEF t
  <2>4. s = t
    BY <2>1, <2>2, <2>3, SeqEqual
  <2>5. QED
    BY <2>4 DEF t
<1>5. Range(<<Head(s)>>) = {Head(s)}
  BY DEF Range
<1>6. QED
  BY <1>1, <1>2, <1>4, <1>5

LEMMA DropsKeeps ==
  ASSUME NEW L, NEW M, NEW a, Family(L), Family(M), Distinct(L), Drops(L, M, a)
  PROVE  Distinct(M) /\ All(M) = All(L) \ {Head(L[a])}
<1>. DEFINE r == Head(L[a])
<1>1. /\ a \in 1 .. 8 /\ L[a] \in Seq(Requests) /\ M[a] \in Seq(Requests)
      /\ <<r>> \in Seq(Requests) /\ L[a] = <<r>> \o M[a] /\ Range(<<r>>) = {r}
  BY HeadAndTail DEF Family, Drops
<1>. HIDE DEF r
<1>2. /\ IsInjective(M[a]) /\ r \notin Range(M[a])
      /\ Range(L[a]) = {r} \cup Range(M[a])
  <2>1. IsInjective(<<r>> \o M[a])
    BY <1>1 DEF Distinct
  <2>2. IsInjective(M[a]) /\ Range(<<r>>) \cap Range(M[a]) = {}
    BY <1>1, <2>1, ConcatSplits
  <2>3. Range(<<r>> \o M[a]) = Range(<<r>>) \cup Range(M[a])
    BY <1>1, RangeOfTwo
  <2>4. QED
    BY <1>1, <2>2, <2>3
<1>3. \A c \in 1 .. 8 : c # a => M[c] = L[c] /\ r \notin Range(M[c])
  BY <1>1, <1>2 DEF Distinct, Drops
<1>4. Distinct(M)
  BY <1>1, <1>2, <1>3 DEF Distinct
<1>5. All(M) = All(L) \ {r}
  BY <1>1, <1>2, <1>3 DEF All
<1>6. QED
  BY <1>4, <1>5 DEF r

\* M is L with a new request r at the end of list b.
Adds(L, M, b, r) ==
  /\ b \in 1 .. 8
  /\ r \in Requests \ All(L)
  /\ M[b] = Append(L[b], r)
  /\ \A c \in 1 .. 8 : c # b => M[c] = L[c]

LEMMA AddsKeeps ==
  ASSUME NEW L, NEW M, NEW b, NEW r, Family(L), Family(M), Distinct(L), Adds(L, M, b, r)
  PROVE  Distinct(M) /\ All(M) = All(L) \cup {r}
<1>1. /\ b \in 1 .. 8 /\ L[b] \in Seq(Requests) /\ <<r>> \in Seq(Requests)
      /\ M[b] = L[b] \o <<r>> /\ Range(<<r>>) = {r} /\ IsInjective(<<r>>)
  <2>1. b \in 1 .. 8 /\ r \in Requests /\ L[b] \in Seq(Requests) /\ M[b] = Append(L[b], r)
    BY DEF Family, Adds
  <2>2. M[b] = L[b] \o <<r>> /\ <<r>> \in Seq(Requests)
    BY <2>1, AppendIsConcat
  <2>3. Range(<<r>>) = {r} /\ IsInjective(<<r>>)
    BY DEF Range, IsInjective
  <2>4. QED
    BY <2>1, <2>2, <2>3
<1>2. \A c \in 1 .. 8 : r \notin Range(L[c])
  BY DEF Adds, All
<1>3. Range(M[b]) = Range(L[b]) \cup {r} /\ IsInjective(M[b])
  <2>1. Range(L[b]) \cap Range(<<r>>) = {} /\ IsInjective(L[b])
    BY <1>1, <1>2 DEF Distinct
  <2>2. IsInjective(L[b] \o <<r>>)
    BY <1>1, <2>1, ConcatInjective
  <2>3. Range(L[b] \o <<r>>) = Range(L[b]) \cup Range(<<r>>)
    <3>1. L[b] \in Seq(Requests) /\ <<r>> \in Seq(Requests)
      BY <1>1
    <3>2. QED
      BY <3>1, RangeOfTwo
  <2>4. QED
    BY <1>1, <2>2, <2>3
<1>4. \A c \in 1 .. 8 : c # b => M[c] = L[c]
  BY DEF Adds
<1>5. Distinct(M)
  BY <1>2, <1>3, <1>4 DEF Distinct
<1>6. All(M) = All(L) \cup {r}
  BY <1>1, <1>3, <1>4 DEF All
<1>7. QED
  BY <1>5, <1>6

-----------------------------------------------------------------------------
(* The parts of the invariant that a step leaves alone. *)

LEMMA RequestFrame ==
  ASSUME IndInv, UNCHANGED <<sub, request>>
  PROVE  Live' = Live /\ TakenAreGood' /\ UntakenUntouched' /\ TokensCounted'
<1>1. Live' = Live
  BY DEF Live, Taken, Closed, request
<1>2. TakenAreGood' /\ UntakenUntouched'
  BY DEF IndInv, TakenAreGood, UntakenUntouched, Taken, BadRequest, request
<1>3. TokensCounted'
  BY <1>1 DEF IndInv, TokensCounted, request
<1>4. QED
  BY <1>1, <1>2, <1>3

LEMMA BatchFrame ==
  ASSUME BatchCovered, UNCHANGED <<kvVars, stepReqs, prefilled>>
  PROVE  BatchCovered'
BY DEF BatchCovered, Covered, FeedLen, kvVars

LEMMA ListsFamily == (TypeOK => Family(Lists)) /\ (TypeOK' => Family(Lists'))
BY DEF TypeOK, Family, Lists

LEMMA ListsFrame ==
  ASSUME IndInv, UNCHANGED <<queue, lists>>, Live' = Live
  PROVE  ListsDistinct' /\ ListsAreLive'
<1>1. Lists' = Lists
  BY DEF Lists, lists
<1>2. QED
  BY <1>1 DEF IndInv, ListsDistinct, ListsAreLive

LEMMA MovesInv ==
  ASSUME IndInv, TypeOK', Live' = Live, NEW a, NEW b, NEW p, Moves(Lists, Lists', a, b, p)
  PROVE  ListsDistinct' /\ ListsAreLive'
<1>1. Family(Lists) /\ Family(Lists') /\ Distinct(Lists) /\ All(Lists) = Live
  BY ListsFamily DEF IndInv, ListsDistinct, ListsAreLive, Distinct, All
<1>2. Distinct(Lists') /\ All(Lists') = Live'
  BY <1>1, MovesKeeps
<1>3. QED
  BY <1>2 DEF ListsDistinct, ListsAreLive, Distinct, All

-----------------------------------------------------------------------------
(* Types, one action at a time. *)

LEMMA TakeTypes ==
  ASSUME KVTypeOK, NEW s \in Seqs, NEW k \in Nat, k <= Len(free), Take(s, k)
  PROVE  KVTypeOK'
<1>1. free' \in Seq(Blocks) /\ Popped(k) \in Seq(Blocks)
  BY PoppedProperties DEF Take
<1>2. table \in [Seqs -> Seq(Blocks)] /\ table[s] \o Popped(k) \in Seq(Blocks)
  BY <1>1, ConcatProperties DEF KVTypeOK
<1>3. table' \in [Seqs -> Seq(Blocks)]
  BY <1>2 DEF Take
<1>4. QED
  BY <1>1, <1>3 DEF KVTypeOK, Take, Blocks

LEMMA ReserveTypes ==
  ASSUME KVTypeOK, NEW s \in Seqs, NEW n \in Nat, ReserveOk(s, n) \/ ReserveShort(s, n)
  PROVE  KVTypeOK'
BY ReserveTakes, TakeTypes

LEMMA ReleaseTypes ==
  ASSUME KVTypeOK, NEW s \in Seqs, Release(s)
  PROVE  KVTypeOK'
<1>1. free \in Seq(Blocks) /\ table[s] \in Seq(Blocks) /\ <<>> \in Seq(Blocks)
  BY DEF KVTypeOK
<1>2. free' \in Seq(Blocks)
  BY <1>1, ConcatProperties DEF Release
<1>3. QED
  BY <1>1, <1>2 DEF KVTypeOK, Release, Blocks

LEMMA CommitTypes ==
  ASSUME KVTypeOK, NEW s \in Seqs, NEW n \in Nat, Commit(s, n)
  PROVE  KVTypeOK'
BY DEF KVTypeOK, Commit, Blocks

LEMMA KVFrame == KVTypeOK /\ UNCHANGED kvVars => KVTypeOK'
BY DEF KVTypeOK, kvVars, Blocks

LEMMA FeedLenNat == ASSUME TypeOK, NEW r \in Requests PROVE FeedLen(r) \in Nat
BY SchedulerAssumption DEF FeedLen, TypeOK

LEMMA SubmitTypes == ASSUME IndInv, NEW r \in Requests, Submit(r) PROVE TypeOK'
<1>1. KVTypeOK' /\ Append(queue, r) \in Seq(Requests)
  BY KVFrame DEF IndInv, TypeOK, Submit, SubmitReject, SubmitSend, SubmitReturn,
     SubmitStopped, loopVars
<1>2. QED
  BY <1>1 DEF IndInv, TypeOK, Submit, SubmitReject, SubmitSend, SubmitReturn, SubmitStopped,
     Submitted, loopVars, lists, step, request

LEMMA StopTypes == ASSUME IndInv, Stop PROVE TypeOK'
<1>1. KVTypeOK'
  BY KVFrame DEF IndInv, TypeOK, Stop, loopVars
<1>2. QED
  BY <1>1 DEF IndInv, TypeOK, Stop, loopVars, lists, step, request

LEMMA ReceiveTypes ==
  ASSUME IndInv, IdleReceive \/ DrainReceive
  PROVE  TypeOK'
<1>1. KVTypeOK'
  BY KVFrame DEF IndInv, TypeOK, IdleReceive, DrainReceive, Receive
<1>2. Append(waiting, Head(queue)) \in Seq(Requests) /\ Tail(queue) \in Seq(Requests)
  BY HeadTailProperties DEF IndInv, TypeOK, IdleReceive, DrainReceive, Receive
<1>3. QED
  BY <1>1, <1>2 DEF IndInv, TypeOK, IdleReceive, DrainReceive, Receive, clientVars, step, request

LEMMA StillTypes ==
  ASSUME IndInv, IdleStop \/ FormDone \/ FailDone
  PROVE  TypeOK'
<1>1. KVTypeOK'
  BY KVFrame DEF IndInv, TypeOK, IdleStop, FormDone, FailDone
<1>2. pc' \in {"idle", "drain", "form", "forward", "halted"}
  BY DEF IndInv, TypeOK, IdleStop, FormDone, FailDone, LoopTop
<1>3. QED
  BY <1>1, <1>2 DEF IndInv, TypeOK, IdleStop, FormDone, FailDone, clientVars, lists, step, request

LEMMA DrainStopTypes == ASSUME IndInv, DrainStop PROVE TypeOK'
<1>1. KVTypeOK'
  BY KVFrame DEF IndInv, TypeOK, DrainStop
<1>2. running \o waiting \in Seq(Requests)
  BY ConcatProperties DEF IndInv, TypeOK
<1>3. QED
  BY <1>1, <1>2 DEF IndInv, TypeOK, DrainStop, StartFailing, Endings, clientVars, request

LEMMA MaxBatchPositive == maxBatch \in Nat \ {0}
BY SchedulerAssumption DEF maxBatch, Backend!MaxBatchSeqs

\* Admit cuts the waiting list in two.
LEMMA AdmitCuts ==
  ASSUME IndInv, Admit
  PROVE  \E p, q \in Seq(Requests) :
           /\ waiting = p \o q /\ todo' = running \o p /\ waiting' = q
           /\ Len(running) <= maxBatch => Len(running) + Len(p) <= maxBatch
<1>. DEFINE room == IF Len(running) < maxBatch THEN maxBatch - Len(running) ELSE 0
            k == IF room < Len(waiting) THEN room ELSE Len(waiting)
            p == SubSeq(waiting, 1, k)
            q == SubSeq(waiting, k + 1, Len(waiting))
<1>1. /\ waiting \in Seq(Requests) /\ Len(waiting) \in Nat
      /\ running \in Seq(Requests) /\ Len(running) \in Nat
  BY LenProperties DEF IndInv, TypeOK
<1>2. k \in 0 .. Len(waiting)
  <2>1. room \in Nat
    BY <1>1, MaxBatchPositive
  <2>. HIDE DEF room
  <2>2. QED
    BY <1>1, <2>1
<1>3. todo' = running \o p /\ waiting' = q
  BY DEF Admit, Admitted
<1>8. Len(running) <= maxBatch => Len(running) + k <= maxBatch
  BY <1>1, MaxBatchPositive
<1>. HIDE DEF k
<1>4. waiting \in [1 .. Len(waiting) -> Requests]
  BY <1>1, LenProperties
<1>5. p \in Seq(Requests) /\ Len(p) = k /\ \A i \in 1 .. k : p[i] = waiting[i]
  <2>1. \A i \in 1 .. k : waiting[i] \in Requests
    BY <1>2, <1>4
  <2>2. QED
    BY <1>2, <2>1, SubSeqProperties
<1>6. /\ q \in Seq(Requests) /\ Len(q) = Len(waiting) - k
      /\ \A i \in 1 .. Len(waiting) - k : q[i] = waiting[k + i]
  <2>1. \A i \in k + 1 .. Len(waiting) : waiting[i] \in Requests
    BY <1>2, <1>4
  <2>2. QED
    BY <1>1, <1>2, <2>1, SubSeqProperties
<1>. HIDE DEF p, q
<1>7. waiting = p \o q
  <2>1. /\ p \o q \in Seq(Requests) /\ Len(p \o q) = Len(waiting)
        /\ \A i \in 1 .. Len(waiting) : (p \o q)[i] = IF i <= k THEN p[i] ELSE q[i - k]
    BY <1>1, <1>2, <1>5, <1>6, ConcatProperties
  <2>2. \A i \in 1 .. Len(waiting) : (p \o q)[i] = waiting[i]
    <3>1. ASSUME NEW i \in 1 .. Len(waiting), i > k
          PROVE  (p \o q)[i] = waiting[i]
      <4>1. i - k \in 1 .. Len(waiting) - k /\ k + (i - k) = i
        BY <1>1, <1>2, <3>1
      <4>2. QED
        BY <1>1, <1>2, <1>6, <2>1, <3>1, <4>1
    <3>2. QED
      BY <1>1, <1>2, <1>5, <2>1, <3>1
  <2>3. QED
    BY <1>1, <2>1, <2>2, SeqEqual
<1>9. QED
  BY <1>3, <1>5, <1>6, <1>7, <1>8

LEMMA AdmitTypes == ASSUME IndInv, Admit PROVE TypeOK'
<1>1. KVTypeOK'
  BY KVFrame DEF IndInv, TypeOK, Admit
<1>2. todo' \in Seq(Requests) /\ waiting' \in Seq(Requests)
  <2>1. PICK p, q \in Seq(Requests) : todo' = running \o p /\ waiting' = q
    BY AdmitCuts
  <2>2. QED
    BY <2>1, ConcatProperties DEF IndInv, TypeOK
<1>3. budget' \in Nat
  BY KVAssumption DEF Admit
<1>4. QED
  BY <1>1, <1>2, <1>3 DEF IndInv, TypeOK, Admit, clientVars, request

LEMMA FormTypes ==
  ASSUME IndInv,
         \/ FormOverBudget \/ FormJoin \/ FormWait \/ FormFail \/ FormEmpty
  PROVE  TypeOK'
<1>1. TypeOK /\ KVTypeOK
  BY DEF IndInv, TypeOK
<1>2. ASSUME NEW x \in Requests
      PROVE  /\ Append(waiting, x) \in Seq(Requests) /\ Append(skipped, x) \in Seq(Requests)
             /\ Append(stepReqs, x) \in Seq(Requests) /\ <<x>> \in Seq(Requests)
  BY <1>1 DEF TypeOK
<1>3. todo # <<>> => Tail(todo) \in Seq(Requests)
  BY <1>1, HeadTailProperties DEF TypeOK
<1>4. CASE FormOverBudget
  <2>1. KVTypeOK'
    BY <1>1, <1>4, KVFrame DEF FormOverBudget
  <2>2. QED
    BY <1>1, <1>2, <1>3, <1>4, <2>1
       DEF TypeOK, FormOverBudget, Forming, Requeue, clientVars, step, request
<1>5. CASE FormJoin
  <2>1. PICK x \in Requests :
          /\ Forming(x) /\ Fits(x) /\ ReserveOk(x, FeedLen(x))
          /\ budget' = budget - FeedLen(x) /\ stepReqs' = Append(stepReqs, x)
    BY <1>5 DEF FormJoin
  <2>2. FeedLen(x) \in Nat
    BY <1>1, FeedLenNat
  <2>3. KVTypeOK'
    BY <1>1, <2>1, <2>2, ReserveTypes DEF Requests
  <2>4. budget' \in Nat
    BY <1>1, <2>1, <2>2 DEF Fits, TypeOK
  <2>5. stepReqs' \in Seq(Requests) /\ todo' \in Seq(Requests)
    BY <1>2, <1>3, <2>1 DEF Forming
  <2>6. QED
    BY <1>1, <1>5, <2>3, <2>4, <2>5 DEF TypeOK, FormJoin, clientVars, request
<1>6. CASE FormWait
  <2>1. PICK x \in Requests : Forming(x) /\ ReserveShort(x, FeedLen(x)) /\ Requeue(x)
    BY <1>6 DEF FormWait
  <2>2. KVTypeOK'
    BY <1>1, <2>1, FeedLenNat, ReserveTypes DEF Requests
  <2>3. waiting' \in Seq(Requests) /\ todo' \in Seq(Requests)
    BY <1>2, <1>3, <2>1 DEF Forming, Requeue
  <2>4. QED
    BY <1>1, <1>6, <2>2, <2>3 DEF TypeOK, FormWait, clientVars, step, request
<1>7. CASE FormFail
  <2>1. PICK x \in Requests : /\ Forming(x) /\ ReserveShort(x, FeedLen(x))
                              /\ StartFailing(<<x>>, "noblocks", "form")
    BY <1>7 DEF FormFail
  <2>2. KVTypeOK'
    BY <1>1, <2>1, FeedLenNat, ReserveTypes DEF Requests
  <2>3. dying' \in Seq(Requests) /\ todo' \in Seq(Requests)
    BY <1>2, <1>3, <2>1 DEF Forming, StartFailing
  <2>4. why' \in Endings /\ after' \in {"loop", "form", "halted"} /\ pc' = "failing"
    BY <2>1 DEF StartFailing, Endings
  <2>5. QED
    BY <1>1, <1>7, <2>2, <2>3, <2>4 DEF TypeOK, FormFail, clientVars, request
<1>8. CASE FormEmpty
  <2>1. KVTypeOK'
    BY <1>1, <1>8, KVFrame DEF FormEmpty
  <2>2. pc' \in {"idle", "drain"}
    BY <1>8 DEF FormEmpty, LoopTop
  <2>3. QED
    BY <1>1, <1>8, <2>1, <2>2 DEF TypeOK, FormEmpty, clientVars, step, request
<1>9. QED
  BY <1>4, <1>5, <1>6, <1>7, <1>8

LEMMA ForwardTypes == ASSUME IndInv, Forward PROVE TypeOK'
<1>1. TypeOK /\ KVTypeOK /\ KVTypeOK'
  BY KVFrame DEF IndInv, TypeOK, Forward, ForwardRefused, ForwardFault, ForwardOk, FailBatch
<1>2. CASE ForwardRefused \/ ForwardFault
  <2>1. stepReqs \o skipped \in Seq(Requests) /\ <<>> \in Seq(Requests)
    BY <1>1, ConcatProperties DEF TypeOK
  <2>2. PICK reason \in {"refused", "fault"} : FailBatch(reason)
    BY <1>2 DEF ForwardRefused, ForwardFault
  <2>3. QED
    BY <1>1, <2>1, <2>2 DEF TypeOK, FailBatch, StartFailing, Endings, clientVars, request
<1>3. CASE ForwardOk
  <2>1. stepReqs \in Seq(Requests) /\ Len(stepReqs) \in Nat /\ DOMAIN stepReqs = 1 .. Len(stepReqs)
    BY <1>1, LenProperties DEF TypeOK
  <2>2. ASSUME NEW i \in DOMAIN stepReqs
        PROVE  len[stepReqs[i]] + FeedLen(stepReqs[i]) \in Nat
    <3>1. stepReqs[i] \in Requests
      BY <2>1
    <3>2. len[stepReqs[i]] \in Nat /\ FeedLen(stepReqs[i]) \in Nat
      BY <1>1, <3>1, FeedLenNat DEF KVTypeOK, Requests
    <3>3. QED
      BY <3>2
  <2>. DEFINE row(i) == LET r == stepReqs[i]
                            n == len[r] + FeedLen(r)
                        IN  IF Intact(cells', r, n) THEN n ELSE Wrong
  <2>3. \A i \in DOMAIN stepReqs : row(i) \in Nat \cup {Wrong}
    BY <2>2
  <2>4. logits' = [i \in DOMAIN stepReqs |-> row(i)]
    BY <1>3 DEF ForwardOk
  <2>. HIDE DEF row
  <2>5. logits' \in [1 .. Len(stepReqs) -> Nat \cup {Wrong}]
    BY <2>1, <2>3, <2>4
  <2>6. logits' \in Seq(Nat \cup {Wrong})
    BY <2>1, <2>5, SeqDef
  <2>7. QED
    BY <1>1, <1>3, <2>6 DEF TypeOK, ForwardOk, clientVars, request
<1>4. QED
  BY <1>2, <1>3 DEF Forward

\* The request CommitOne works on, its token, and its list.
LEMMA CommitHead ==
  ASSUME IndInv, CommitOne
  PROVE  /\ stepReqs # <<>> /\ Head(stepReqs) \in Requests
         /\ Head(logits) \in Nat \cup {Wrong} /\ logits # <<>>
         /\ Tail(stepReqs) \in Seq(Requests) /\ Len(Tail(stepReqs)) = Len(stepReqs) - 1
         /\ Tail(logits) \in Seq(Nat \cup {Wrong}) /\ Len(Tail(logits)) = Len(logits) - 1
<1>1. stepReqs \in Seq(Requests) /\ stepReqs # <<>> /\ Len(logits) = Len(stepReqs)
  BY DEF IndInv, TypeOK, LogitsMatch, CommitOne
<1>2. logits \in Seq(Nat \cup {Wrong}) /\ logits # <<>>
  BY <1>1, EmptySeq DEF IndInv, TypeOK
<1>3. QED
  BY <1>1, <1>2, HeadTailProperties

LEMMA SettleTypes ==
  ASSUME TypeOK, NEW r \in Requests, NEW last, Settle(r, last)
  PROVE  KVTypeOK'
<1>1. KVTypeOK /\ FeedLen(r) \in Nat /\ r \in Seqs
  BY FeedLenNat DEF TypeOK, Requests
<1>2. Release(r) \/ Commit(r, FeedLen(r))
  BY DEF Settle
<1>3. QED
  BY <1>1, <1>2, ReleaseTypes, CommitTypes

LEMMA CommitOneTypes == ASSUME IndInv, CommitOne PROVE TypeOK'
<1>. DEFINE r == Head(stepReqs)
            tok == Head(logits)
            last == Ends(r, tok)
<1>1. TypeOK /\ KVTypeOK
  BY DEF IndInv, TypeOK
<1>2. /\ r \in Requests /\ tok \in Nat \cup {Wrong}
      /\ Tail(stepReqs) \in Seq(Requests) /\ Tail(logits) \in Seq(Nat \cup {Wrong})
  BY CommitHead
<1>3. /\ Settle(r, last)
      /\ prefilled' = [prefilled EXCEPT ![r] = TRUE]
      /\ nextTok' = [nextTok EXCEPT ![r] = tok]
      /\ generated' = [generated EXCEPT ![r] = generated[r] + 1]
      /\ tokens' = [tokens EXCEPT ![r] = Append(tokens[r], tok)]
      /\ ending' = [ending EXCEPT ![r] = IF last THEN "done" ELSE ending[r]]
      /\ nxt' = IF last THEN nxt ELSE Append(nxt, r)
  BY <1>1, <1>2 DEF CommitOne, TypeOK
<1>. HIDE DEF r, tok, last
<1>4. KVTypeOK'
  BY <1>1, <1>2, <1>3, SettleTypes
<1>5. prefilled' \in [Requests -> BOOLEAN] /\ nextTok' \in [Requests -> Nat \cup {Wrong}]
  BY <1>1, <1>2, <1>3 DEF TypeOK
<1>6. generated' \in [Requests -> Nat]
  <2>1. generated \in [Requests -> Nat] /\ generated[r] + 1 \in Nat
    BY <1>1, <1>2 DEF TypeOK
  <2>2. QED
    BY <1>3, <2>1
<1>7. tokens' \in [Requests -> Seq(Nat \cup {Wrong})]
  <2>1. Append(tokens[r], tok) \in Seq(Nat \cup {Wrong})
    BY <1>1, <1>2 DEF TypeOK
  <2>2. QED
    BY <1>1, <1>2, <1>3, <2>1 DEF TypeOK
<1>8. ending' \in [Requests -> Endings]
  BY <1>1, <1>2, <1>3 DEF TypeOK, Endings
<1>9. nxt' \in Seq(Requests)
  BY <1>1, <1>2, <1>3 DEF TypeOK
<1>10. QED
  BY <1>1, <1>2, <1>4, <1>5, <1>6, <1>7, <1>8, <1>9 DEF TypeOK, CommitOne, clientVars, r

LEMMA CommitDoneTypes == ASSUME IndInv, CommitDone PROVE TypeOK'
<1>1. KVTypeOK' /\ pc' \in {"idle", "drain"} /\ <<>> \in Seq(Requests)
  BY KVFrame DEF IndInv, TypeOK, CommitDone, LoopTop
<1>2. QED
  BY <1>1 DEF IndInv, TypeOK, CommitDone, clientVars, step, request

LEMMA FailOneTypes == ASSUME IndInv, FailOne PROVE TypeOK'
<1>1. TypeOK /\ KVTypeOK /\ dying \in Seq(Requests) /\ dying # <<>>
  BY DEF IndInv, TypeOK, FailOne
<1>2. Head(dying) \in Requests /\ Tail(dying) \in Seq(Requests)
  BY <1>1, HeadTailProperties
<1>3. KVTypeOK'
  BY <1>1, <1>2, ReleaseTypes DEF FailOne, Fail, Requests
<1>4. ending' \in [Requests -> Endings]
  BY <1>1, <1>2 DEF TypeOK, FailOne, Fail
<1>5. QED
  BY <1>1, <1>2, <1>3, <1>4 DEF TypeOK, FailOne, Fail, clientVars, step

LEMMA TypeStep == IndInv /\ [Next]_vars => TypeOK'
<1>. SUFFICES ASSUME IndInv, [Next]_vars PROVE TypeOK'
  OBVIOUS
<1>1. ASSUME UNCHANGED vars PROVE TypeOK'
  <2>1. KVTypeOK'
    BY <1>1, KVFrame DEF IndInv, TypeOK, vars
  <2>2. QED
    BY <1>1, <2>1 DEF IndInv, TypeOK, vars, lists, step, request
<1>2. CASE Loop
  BY <1>2, ReceiveTypes, StillTypes, DrainStopTypes, AdmitTypes, FormTypes, ForwardTypes,
     CommitOneTypes, CommitDoneTypes, FailOneTypes DEF Loop, Form
<1>3. CASE Stop
  BY <1>3, StopTypes
<1>4. ASSUME NEW r \in Requests, Submit(r) PROVE TypeOK'
  BY <1>4, SubmitTypes
<1>5. CASE Halted
  BY <1>1, <1>5 DEF Halted
<1>6. QED
  BY <1>1, <1>2, <1>3, <1>4, <1>5 DEF Next

-----------------------------------------------------------------------------
(* IndInv is kept, one action at a time. *)

\* Steps of the clients that put nothing on the channel.
LEMMA ClientStep ==
  ASSUME IndInv,
         \/ Stop
         \/ \E r \in Requests : SubmitReject(r) \/ SubmitReturn(r) \/ SubmitStopped(r)
  PROVE  IndInv'
<1>1. TypeOK'
  BY SubmitTypes, StopTypes DEF Submit
<1>2. UNCHANGED loopVars /\ queue' = queue /\ sub' \in [Requests -> {"new", "sent", "accepted", "rejected"}]
  BY <1>1 DEF Stop, SubmitReject, SubmitReturn, SubmitStopped, TypeOK
<1>3. \A x \in Requests : Taken(x)' = Taken(x)
  BY DEF IndInv, TypeOK, Stop, SubmitReject, SubmitReturn, SubmitStopped, Submitted, Taken
<1>4. Live' = Live
  BY <1>2, <1>3 DEF Live, Closed, loopVars, request
<1>5. ListsDistinct' /\ ListsAreLive'
  BY <1>2, <1>4, ListsFrame DEF loopVars
<1>6. ListsOfPhase' /\ LogitsMatch'
  BY <1>2 DEF IndInv, ListsOfPhase, LogitsMatch, loopVars, lists, step
<1>7. BatchCovered'
  BY <1>2, BatchFrame DEF IndInv, loopVars, lists, request
<1>8. TakenAreGood' /\ UntakenUntouched' /\ TokensCounted'
  <2>1. UNCHANGED <<ending, generated, tokens>>
    BY <1>2 DEF loopVars, request
  <2>2. TakenAreGood' /\ UntakenUntouched'
    BY <1>3, <2>1 DEF IndInv, TakenAreGood, UntakenUntouched, BadRequest
  <2>3. TokensCounted'
    BY <1>4, <2>1 DEF IndInv, TokensCounted
  <2>4. QED
    BY <2>2, <2>3
<1>9. QED
  BY <1>1, <1>5, <1>6, <1>7, <1>8 DEF IndInv

LEMMA SendStep ==
  ASSUME IndInv, NEW r \in Requests, SubmitSend(r)
  PROVE  IndInv'
<1>1. TypeOK /\ TypeOK'
  BY SubmitTypes DEF Submit, IndInv
<1>2. UNCHANGED loopVars /\ queue' = Append(queue, r) /\ sub' = [sub EXCEPT ![r] = "sent"]
  BY DEF SubmitSend, Submitted
<1>3. /\ ~ Taken(r) /\ Taken(r)' /\ \A x \in Requests \ {r} : Taken(x)' = Taken(x)
      /\ ending[r] = "open" /\ generated[r] = 0 /\ ~ BadRequest(r)
  BY <1>1, <1>2 DEF IndInv, TypeOK, SubmitSend, Taken, UntakenUntouched
<1>4. UNCHANGED <<ending, generated, tokens>>
  BY <1>2 DEF loopVars, request
<1>5. Live' = Live \cup {r} /\ r \notin Live
  BY <1>3, <1>4 DEF Live, Closed
<1>6. ListsDistinct' /\ ListsAreLive'
  <2>1. Family(Lists) /\ Family(Lists') /\ Distinct(Lists) /\ All(Lists) = Live
    BY <1>1, ListsFamily DEF IndInv, ListsDistinct, ListsAreLive, Distinct, All
  <2>2. Adds(Lists, Lists', 1, r)
    BY <1>2, <1>5, <2>1 DEF Adds, Lists, loopVars, lists
  <2>3. Distinct(Lists') /\ All(Lists') = Live'
    BY <1>5, <2>1, <2>2, AddsKeeps
  <2>4. QED
    BY <2>3 DEF ListsDistinct, ListsAreLive, Distinct, All
<1>7. ListsOfPhase' /\ LogitsMatch'
  BY <1>2 DEF IndInv, ListsOfPhase, LogitsMatch, loopVars, lists, step
<1>8. BatchCovered'
  BY <1>2, BatchFrame DEF IndInv, loopVars, lists, request
<1>9. TakenAreGood' /\ UntakenUntouched'
  BY <1>3, <1>4 DEF IndInv, TakenAreGood, UntakenUntouched, BadRequest
<1>10. TokensCounted'
  <2>1. 0 < MaxNew[r]
    BY <1>3, SchedulerAssumption DEF BadRequest
  <2>2. QED
    BY <1>3, <1>4, <1>5, <2>1 DEF IndInv, TokensCounted
<1>11. QED
  BY <1>1, <1>6, <1>7, <1>8, <1>9, <1>10 DEF IndInv

LEMMA ReceiveStep ==
  ASSUME IndInv, IdleReceive \/ DrainReceive
  PROVE  IndInv'
<1>1. TypeOK /\ TypeOK'
  BY ReceiveTypes DEF IndInv
<1>2. PICK from \in {"idle", "drain"} : Receive(from)
  BY DEF IdleReceive, DrainReceive
<1>. DEFINE p == <<Head(queue)>>
<1>3. /\ queue # <<>> /\ queue \in Seq(Requests) /\ waiting \in Seq(Requests)
      /\ p \in Seq(Requests) /\ queue = p \o Tail(queue)
      /\ Append(waiting, Head(queue)) = waiting \o p
  <2>1. queue # <<>> /\ queue \in Seq(Requests) /\ waiting \in Seq(Requests)
    BY <1>1, <1>2 DEF TypeOK, Receive
  <2>2. Head(queue) \in Requests /\ p \in Seq(Requests) /\ queue = p \o Tail(queue)
    BY <2>1, HeadAndTail
  <2>3. Append(waiting, Head(queue)) = waiting \o p
    BY <2>1, <2>2, AppendIsConcat
  <2>4. QED
    BY <2>1, <2>2, <2>3
<1>. HIDE DEF p
<1>4. Moves(Lists, Lists', 1, 2, p)
  BY <1>2, <1>3 DEF Moves, Lists, Receive
<1>5. Live' = Live /\ TakenAreGood' /\ UntakenUntouched' /\ TokensCounted'
  BY <1>2, RequestFrame DEF Receive, clientVars
<1>6. ListsDistinct' /\ ListsAreLive'
  BY <1>1, <1>4, <1>5, MovesInv
<1>7. ListsOfPhase' /\ LogitsMatch'
  BY <1>2 DEF IndInv, ListsOfPhase, LogitsMatch, Receive
<1>8. BatchCovered'
  BY <1>2, BatchFrame DEF IndInv, Receive, request
<1>9. QED
  BY <1>1, <1>5, <1>6, <1>7, <1>8 DEF IndInv

\* Steps that only move the loop on.
LEMMA StillStep ==
  ASSUME IndInv, IdleStop \/ FormDone \/ FailDone
  PROVE  IndInv'
<1>1. TypeOK'
  BY StillTypes
<1>2. UNCHANGED <<kvVars, clientVars, queue, lists, step, request>>
  BY DEF IdleStop, FormDone, FailDone
<1>3. Live' = Live /\ TakenAreGood' /\ UntakenUntouched' /\ TokensCounted'
  BY <1>2, RequestFrame DEF clientVars
<1>4. ListsDistinct' /\ ListsAreLive'
  BY <1>2, <1>3, ListsFrame
<1>5. ListsOfPhase' /\ LogitsMatch'
  BY <1>2 DEF IndInv, TypeOK, ListsOfPhase, LogitsMatch, IdleStop, FormDone, FailDone, LoopTop, lists, step
<1>6. BatchCovered'
  BY <1>2, BatchFrame DEF IndInv, lists, request
<1>7. QED
  BY <1>1, <1>3, <1>4, <1>5, <1>6 DEF IndInv

LEMMA TwoMovesInv ==
  ASSUME IndInv, TypeOK', Live' = Live, NEW K, Family(K),
         NEW a, NEW b, NEW p, Moves(Lists, K, a, b, p),
         NEW c, NEW d, NEW q, Moves(K, Lists', c, d, q)
  PROVE  ListsDistinct' /\ ListsAreLive'
<1>1. Family(Lists) /\ Family(Lists') /\ Distinct(Lists) /\ All(Lists) = Live
  BY ListsFamily DEF IndInv, ListsDistinct, ListsAreLive, Distinct, All
<1>2. Distinct(K) /\ All(K) = Live
  BY <1>1, MovesKeeps
<1>3. Distinct(Lists') /\ All(Lists') = Live'
  BY <1>1, <1>2, MovesKeeps
<1>4. QED
  BY <1>3 DEF ListsDistinct, ListsAreLive, Distinct, All

LEMMA DrainStopStep == ASSUME IndInv, DrainStop PROVE IndInv'
<1>1. TypeOK /\ TypeOK'
  BY DrainStopTypes DEF IndInv
<1>2. /\ pc = "drain" /\ pc' = "failing" /\ why' = "stopped" /\ after' = "halted"
      /\ dying' = running \o waiting /\ running' = <<>> /\ waiting' = <<>>
      /\ UNCHANGED <<kvVars, clientVars, queue, todo, stepReqs, skipped, nxt, request>>
  BY DEF DrainStop, StartFailing
<1>3. todo = <<>> /\ stepReqs = <<>> /\ skipped = <<>> /\ nxt = <<>> /\ dying = <<>>
  BY <1>2 DEF IndInv, ListsOfPhase
<1>4. Live' = Live /\ TakenAreGood' /\ UntakenUntouched' /\ TokensCounted'
  BY <1>2, RequestFrame DEF clientVars
<1>5. ListsDistinct' /\ ListsAreLive'
  <2>. DEFINE K == <<queue, waiting, <<>>, todo, stepReqs, skipped, nxt, running>>
  <2>1. Family(K)
    BY <1>1 DEF Family, TypeOK
  <2>2. running \in Seq(Requests) /\ waiting \in Seq(Requests)
        /\ running = running \o <<>> /\ <<>> \o running = running /\ waiting = waiting \o <<>>
    BY <1>1, ConcatEmptySeq DEF TypeOK
  <2>3. Moves(Lists, K, 3, 8, running)
    BY <1>3, <2>2 DEF Moves, Lists
  <2>4. Moves(K, Lists', 2, 8, waiting)
    BY <1>2, <2>2 DEF Moves, Lists
  <2>. HIDE DEF K
  <2>5. QED
    BY <1>1, <1>4, <2>1, <2>3, <2>4, TwoMovesInv
<1>6. ListsOfPhase' /\ LogitsMatch'
  BY <1>2, <1>3 DEF ListsOfPhase, LogitsMatch
<1>7. BatchCovered'
  BY <1>2, BatchFrame DEF IndInv, request
<1>8. QED
  BY <1>1, <1>4, <1>5, <1>6, <1>7 DEF IndInv

LEMMA AdmitStep == ASSUME IndInv, Admit PROVE IndInv'
<1>1. TypeOK /\ TypeOK'
  BY AdmitTypes DEF IndInv
<1>2. /\ pc = "drain" /\ pc' = "form" /\ running' = <<>> /\ stepReqs' = <<>> /\ skipped' = <<>>
      /\ UNCHANGED <<kvVars, clientVars, queue, nxt, dying, request>>
  BY DEF Admit
<1>3. todo = <<>> /\ stepReqs = <<>> /\ skipped = <<>> /\ nxt = <<>> /\ dying = <<>>
  BY <1>2 DEF IndInv, ListsOfPhase
<1>4. Live' = Live /\ TakenAreGood' /\ UntakenUntouched' /\ TokensCounted'
  BY <1>2, RequestFrame DEF clientVars
<1>5. ListsDistinct' /\ ListsAreLive'
  <2>1. PICK p, q \in Seq(Requests) :
          waiting = p \o q /\ todo' = running \o p /\ waiting' = q
    BY AdmitCuts
  <2>. DEFINE K == <<queue, waiting, <<>>, running, stepReqs, skipped, nxt, dying>>
  <2>2. Family(K)
    BY <1>1 DEF Family, TypeOK
  <2>3. running \in Seq(Requests) /\ running = running \o <<>> /\ <<>> \o running = running
    BY <1>1, ConcatEmptySeq DEF TypeOK
  <2>4. Moves(Lists, K, 3, 4, running)
    BY <1>3, <2>3 DEF Moves, Lists
  <2>5. Moves(K, Lists', 2, 4, p)
    BY <1>2, <1>3, <2>1 DEF Moves, Lists
  <2>. HIDE DEF K
  <2>6. QED
    BY <1>1, <1>4, <2>2, <2>4, <2>5, TwoMovesInv
<1>6. ListsOfPhase' /\ LogitsMatch'
  BY <1>2, <1>3 DEF ListsOfPhase, LogitsMatch
<1>7. BatchCovered'
  BY <1>2 DEF BatchCovered
<1>8. QED
  BY <1>1, <1>4, <1>5, <1>6, <1>7 DEF IndInv

\* The request the loop is forming the batch with.
LEMMA FormHead ==
  ASSUME TypeOK, NEW r \in Requests, Forming(r)
  PROVE  /\ pc = "form" /\ <<r>> \in Seq(Requests) /\ todo = <<r>> \o todo'
         /\ \A s \in Seq(Requests) : Append(s, r) = s \o <<r>>
<1>1. todo \in Seq(Requests) /\ todo # <<>> /\ r = Head(todo) /\ todo' = Tail(todo)
  BY DEF TypeOK, Forming
<1>2. <<r>> \in Seq(Requests) /\ todo = <<r>> \o todo'
  BY <1>1, HeadAndTail
<1>3. \A s \in Seq(Requests) : Append(s, r) = s \o <<r>>
  BY AppendIsConcat
<1>4. QED
  BY <1>2, <1>3 DEF Forming

LEMMA FormOverBudgetStep == ASSUME IndInv, FormOverBudget PROVE IndInv'
<1>1. TypeOK /\ TypeOK'
  BY FormTypes DEF IndInv
<1>2. PICK r \in Requests :
        /\ Forming(r)
        /\ \/ skipped' = Append(skipped, r) /\ UNCHANGED waiting
           \/ waiting' = Append(waiting, r) /\ UNCHANGED skipped
        /\ UNCHANGED <<kvVars, clientVars, queue, pc, running, stepReqs, nxt, dying, step, request>>
  BY DEF FormOverBudget, Requeue
<1>3. /\ pc = "form" /\ <<r>> \in Seq(Requests) /\ todo = <<r>> \o todo'
      /\ Append(skipped, r) = skipped \o <<r>> /\ Append(waiting, r) = waiting \o <<r>>
  BY <1>1, <1>2, FormHead DEF TypeOK
<1>4. Live' = Live /\ TakenAreGood' /\ UntakenUntouched' /\ TokensCounted'
  BY <1>2, RequestFrame DEF clientVars
<1>5. Moves(Lists, Lists', 4, 6, <<r>>) \/ Moves(Lists, Lists', 4, 2, <<r>>)
  <2>1. CASE skipped' = Append(skipped, r) /\ UNCHANGED waiting
    <3>1. Moves(Lists, Lists', 4, 6, <<r>>)
      BY <1>2, <1>3, <2>1 DEF Moves, Lists
    <3>2. QED
      BY <3>1
  <2>2. CASE waiting' = Append(waiting, r) /\ UNCHANGED skipped
    <3>1. Moves(Lists, Lists', 4, 2, <<r>>)
      BY <1>2, <1>3, <2>2 DEF Moves, Lists
    <3>2. QED
      BY <3>1
  <2>3. QED
    BY <1>2, <2>1, <2>2
<1>6. ListsDistinct' /\ ListsAreLive'
  BY <1>1, <1>4, <1>5, MovesInv
<1>7. ListsOfPhase' /\ LogitsMatch'
  BY <1>2, <1>3 DEF IndInv, ListsOfPhase, LogitsMatch
<1>8. BatchCovered'
  BY <1>2, BatchFrame DEF IndInv, request
<1>9. QED
  BY <1>1, <1>4, <1>6, <1>7, <1>8 DEF IndInv

\* A Reserve takes the cover of nobody.
LEMMA ReserveKeepsCovered ==
  ASSUME KVTypeOK, NEW s \in Seqs, NEW n \in Nat, ReserveOk(s, n) \/ ReserveShort(s, n),
         NEW x \in Seqs, NEW j \in Nat, Covered(x, j)
  PROVE  Covered(x, j)'
<1>1. PICK k \in Nat : k <= Len(free) /\ Take(s, k)
  BY ReserveTakes
<1>2. table[x] \in Seq(Blocks) /\ table'[x] \in Seq(Blocks)
  BY <1>1, TakeTypes DEF KVTypeOK, Blocks
<1>3. Len(table[x]) \in Nat /\ Len(table'[x]) \in Nat /\ Len(table[x]) <= Len(table'[x])
  BY <1>1, <1>2, TakeExtends, LenProperties
<1>4. BlockSize * Len(table[x]) <= BlockSize * Len(table'[x])
  BY <1>3, CoverGrows
<1>. DEFINE a == BlockSize * Len(table[x])
            b == BlockSize * Len(table'[x])
<1>5. a \in Nat /\ b \in Nat /\ a <= b /\ len[x] + j <= a /\ len[x] + j \in Nat
  BY <1>3, <1>4, KVAssumption DEF Covered, KVTypeOK
<1>. HIDE DEF a, b
<1>6. len[x] + j <= b
  BY <1>5
<1>7. QED
  BY <1>1, <1>6 DEF Covered, Take, b

\* The batch stays covered while another request reserves.
LEMMA BatchStaysCovered ==
  ASSUME TypeOK, BatchCovered, UNCHANGED <<stepReqs, prefilled>>,
         NEW r \in Requests, ReserveOk(r, FeedLen(r)) \/ ReserveShort(r, FeedLen(r))
  PROVE  BatchCovered'
<1>1. KVTypeOK /\ FeedLen(r) \in Nat /\ r \in Seqs
  BY FeedLenNat DEF TypeOK, Requests
<1>2. ASSUME NEW i \in DOMAIN stepReqs
      PROVE  Covered(stepReqs[i], FeedLen(stepReqs[i]))'
  <2>1. stepReqs[i] \in Requests /\ stepReqs[i] \in Seqs
    BY DEF TypeOK, Requests
  <2>2. FeedLen(stepReqs[i]) \in Nat /\ Covered(stepReqs[i], FeedLen(stepReqs[i]))
    BY <2>1, FeedLenNat DEF BatchCovered
  <2>. DEFINE x == stepReqs[i]
              j == FeedLen(x)
  <2>. HIDE DEF x, j
  <2>3. Covered(x, j)'
    <3>1. x \in Seqs /\ j \in Nat /\ Covered(x, j)
      BY <2>1, <2>2 DEF x, j
    <3>2. len'[x] + j <= BlockSize * Len(table'[x])
      BY <1>1, <3>1, ReserveKeepsCovered DEF Covered
    <3>3. x' = x /\ j' = j
      BY DEF x, j, FeedLen
    <3>4. QED
      BY <3>2, <3>3 DEF Covered
  <2>4. QED
    BY <2>3 DEF x, j
<1>3. QED
  BY <1>2 DEF BatchCovered

LEMMA FormJoinStep == ASSUME IndInv, FormJoin PROVE IndInv'
<1>1. TypeOK /\ TypeOK' /\ KVTypeOK /\ BatchCovered
  BY FormTypes DEF IndInv, TypeOK
<1>2. PICK r \in Requests :
        /\ Forming(r) /\ ReserveOk(r, FeedLen(r)) /\ stepReqs' = Append(stepReqs, r)
        /\ UNCHANGED <<clientVars, queue, pc, running, waiting, skipped, nxt, dying, request>>
  BY DEF FormJoin
<1>3. /\ pc = "form" /\ <<r>> \in Seq(Requests) /\ todo = <<r>> \o todo'
      /\ stepReqs \in Seq(Requests) /\ stepReqs' = stepReqs \o <<r>>
  BY <1>1, <1>2, FormHead DEF TypeOK
<1>4. Live' = Live /\ TakenAreGood' /\ UntakenUntouched' /\ TokensCounted'
  BY <1>2, RequestFrame DEF clientVars
<1>5. Moves(Lists, Lists', 4, 5, <<r>>)
  BY <1>2, <1>3 DEF Moves, Lists
<1>6. ListsDistinct' /\ ListsAreLive'
  BY <1>1, <1>4, <1>5, MovesInv
<1>7. ListsOfPhase' /\ LogitsMatch'
  BY <1>2, <1>3 DEF IndInv, ListsOfPhase, LogitsMatch
<1>8. BatchCovered'
  <2>1. SUFFICES ASSUME NEW i \in DOMAIN stepReqs'
                 PROVE  LET y == stepReqs'[i]
                        IN  len'[y] + (IF prefilled'[y] THEN 1 ELSE PromptLen[y])
                              <= BlockSize * Len(table'[y])
    BY DEF BatchCovered, Covered, FeedLen
  <2>. DEFINE x == stepReqs'[i]
  <2>2. /\ Len(stepReqs) \in Nat /\ i \in 1 .. Len(stepReqs) + 1
        /\ x = IF i <= Len(stepReqs) THEN stepReqs[i] ELSE r
        /\ DOMAIN stepReqs = 1 .. Len(stepReqs)
    BY <1>2, <1>3, LenProperties, AppendProperties
  <2>3. x \in Requests /\ x \in Seqs /\ FeedLen(x) \in Nat
    BY <1>1, <1>3, <2>2, FeedLenNat DEF Requests
  <2>. HIDE DEF x
  <2>4. prefilled' = prefilled
    BY <1>2 DEF request
  <2>5. len'[x] + FeedLen(x) <= BlockSize * Len(table'[x])
    <3>1. CASE i <= Len(stepReqs)
      <4>1. Covered(x, FeedLen(x)) /\ r \in Seqs /\ FeedLen(r) \in Nat
        BY <1>1, <2>2, <3>1, FeedLenNat DEF BatchCovered, Requests
      <4>2. QED
        BY <1>1, <1>2, <2>3, <4>1, ReserveKeepsCovered DEF Covered
    <3>2. CASE i > Len(stepReqs)
      <4>1. x = r
        BY <2>2, <3>2
      <4>2. QED
        BY <1>1, <1>2, <2>3, <4>1, ReserveOkCovers DEF Covered
    <3>3. QED
      BY <2>2, <3>1, <3>2
  <2>6. QED
    BY <2>4, <2>5 DEF x, FeedLen
<1>9. QED
  BY <1>1, <1>4, <1>6, <1>7, <1>8 DEF IndInv

LEMMA FormWaitStep == ASSUME IndInv, FormWait PROVE IndInv'
<1>1. TypeOK /\ TypeOK' /\ BatchCovered
  BY FormTypes DEF IndInv
<1>2. PICK r \in Requests :
        /\ Forming(r) /\ ReserveShort(r, FeedLen(r)) /\ waiting' = Append(waiting, r)
        /\ UNCHANGED <<clientVars, queue, pc, running, stepReqs, skipped, nxt, dying, request>>
  BY DEF FormWait, Requeue
<1>3. /\ pc = "form" /\ <<r>> \in Seq(Requests) /\ todo = <<r>> \o todo'
      /\ waiting' = waiting \o <<r>>
  BY <1>1, <1>2, FormHead DEF TypeOK
<1>4. Live' = Live /\ TakenAreGood' /\ UntakenUntouched' /\ TokensCounted'
  BY <1>2, RequestFrame DEF clientVars
<1>5. Moves(Lists, Lists', 4, 2, <<r>>)
  BY <1>2, <1>3 DEF Moves, Lists
<1>6. ListsDistinct' /\ ListsAreLive'
  BY <1>1, <1>4, <1>5, MovesInv
<1>7. ListsOfPhase' /\ LogitsMatch'
  BY <1>2, <1>3 DEF IndInv, ListsOfPhase, LogitsMatch
<1>8. BatchCovered'
  BY <1>1, <1>2, BatchStaysCovered DEF request
<1>9. QED
  BY <1>1, <1>4, <1>6, <1>7, <1>8 DEF IndInv

LEMMA FormFailStep == ASSUME IndInv, FormFail PROVE IndInv'
<1>1. TypeOK /\ TypeOK' /\ BatchCovered
  BY FormTypes DEF IndInv
<1>2. PICK r \in Requests :
        /\ Forming(r) /\ ReserveShort(r, FeedLen(r))
        /\ dying' = <<r>> /\ why' = "noblocks" /\ after' = "form" /\ pc' = "failing"
        /\ UNCHANGED <<clientVars, queue, running, waiting, stepReqs, skipped, nxt, request>>
  BY DEF FormFail, StartFailing
<1>3. /\ pc = "form" /\ <<r>> \in Seq(Requests) /\ todo = <<r>> \o todo'
      /\ <<>> \o <<r>> = <<r>>
  BY <1>1, <1>2, FormHead, ConcatEmptySeq DEF TypeOK
<1>4. Live' = Live /\ TakenAreGood' /\ UntakenUntouched' /\ TokensCounted'
  BY <1>2, RequestFrame DEF clientVars
<1>5. Moves(Lists, Lists', 4, 8, <<r>>)
  <2>1. dying = <<>>
    BY <1>3 DEF IndInv, ListsOfPhase
  <2>2. QED
    BY <1>2, <1>3, <2>1 DEF Moves, Lists
<1>6. ListsDistinct' /\ ListsAreLive'
  BY <1>1, <1>4, <1>5, MovesInv
<1>7. ListsOfPhase' /\ LogitsMatch'
  BY <1>2, <1>3 DEF IndInv, ListsOfPhase, LogitsMatch
<1>8. BatchCovered'
  BY <1>1, <1>2, BatchStaysCovered DEF request
<1>9. QED
  BY <1>1, <1>4, <1>6, <1>7, <1>8 DEF IndInv

LEMMA FormEmptyStep == ASSUME IndInv, FormEmpty PROVE IndInv'
<1>1. TypeOK /\ TypeOK'
  BY FormTypes DEF IndInv
<1>2. /\ pc = "form" /\ todo = <<>> /\ stepReqs = <<>>
      /\ running' = skipped /\ skipped' = <<>> /\ pc' = LoopTop(running', waiting)
      /\ UNCHANGED <<kvVars, clientVars, queue, waiting, todo, stepReqs, nxt, dying, request>>
  BY DEF FormEmpty
<1>3. running = <<>> /\ nxt = <<>> /\ dying = <<>>
  BY <1>2 DEF IndInv, ListsOfPhase
<1>4. Live' = Live /\ TakenAreGood' /\ UntakenUntouched' /\ TokensCounted'
  BY <1>2, RequestFrame DEF clientVars
<1>5. Moves(Lists, Lists', 6, 3, skipped)
  <2>1. skipped \in Seq(Requests) /\ skipped = skipped \o <<>> /\ <<>> \o skipped = skipped
    BY <1>1, ConcatEmptySeq DEF TypeOK
  <2>2. QED
    BY <1>2, <1>3, <2>1 DEF Moves, Lists
<1>6. ListsDistinct' /\ ListsAreLive'
  BY <1>1, <1>4, <1>5, MovesInv
<1>7. ListsOfPhase' /\ LogitsMatch'
  BY <1>2, <1>3 DEF ListsOfPhase, LogitsMatch, LoopTop
<1>8. BatchCovered'
  BY <1>2, BatchFrame DEF IndInv, request
<1>9. QED
  BY <1>1, <1>4, <1>6, <1>7, <1>8 DEF IndInv

LEMMA SameInterval == \A a, b \in Nat : 1 .. a = 1 .. b => a = b
<1>1. SUFFICES ASSUME NEW a \in Nat, NEW b \in Nat, 1 .. a = 1 .. b, a < b
               PROVE  FALSE
  OBVIOUS
<1>2. b \in 1 .. b /\ b \notin 1 .. a
  BY <1>1
<1>3. QED
  BY <1>1, <1>2

LEMMA ForwardStep == ASSUME IndInv, Forward PROVE IndInv'
<1>1. TypeOK /\ TypeOK'
  BY ForwardTypes DEF IndInv
<1>2. /\ pc = "forward"
      /\ UNCHANGED <<kvVars, clientVars, queue, running, waiting, todo, request>>
      /\ running = <<>> /\ todo = <<>> /\ nxt = <<>> /\ dying = <<>>
  BY DEF Forward, ForwardRefused, ForwardFault, ForwardOk, FailBatch, IndInv, ListsOfPhase
<1>3. Live' = Live /\ TakenAreGood' /\ UntakenUntouched' /\ TokensCounted'
  BY <1>2, RequestFrame DEF clientVars
<1>4. /\ skipped \in Seq(Requests) /\ skipped = skipped \o <<>> /\ <<>> \o skipped = skipped
      /\ stepReqs \in Seq(Requests) /\ stepReqs = stepReqs \o <<>> /\ <<>> \o stepReqs = stepReqs
  BY <1>1, ConcatEmptySeq DEF TypeOK
<1>5. CASE ForwardRefused \/ ForwardFault
  <2>1. /\ dying' = stepReqs \o skipped /\ stepReqs' = <<>> /\ skipped' = <<>> /\ nxt' = nxt
        /\ pc' = "failing" /\ why' # "open" /\ after' = "loop"
    BY <1>5 DEF ForwardRefused, ForwardFault, FailBatch, StartFailing
  <2>2. ListsDistinct' /\ ListsAreLive'
    <3>. DEFINE K == <<queue, waiting, running, todo, <<>>, skipped, nxt, stepReqs>>
    <3>1. Family(K)
      BY <1>1 DEF Family, TypeOK
    <3>2. Moves(Lists, K, 5, 8, stepReqs)
      BY <1>2, <1>4 DEF Moves, Lists
    <3>3. Moves(K, Lists', 6, 8, skipped)
      BY <1>2, <1>4, <2>1 DEF Moves, Lists
    <3>. HIDE DEF K
    <3>4. QED
      BY <1>1, <1>3, <3>1, <3>2, <3>3, TwoMovesInv
  <2>3. ListsOfPhase' /\ LogitsMatch' /\ BatchCovered'
    BY <1>2, <2>1 DEF ListsOfPhase, LogitsMatch, BatchCovered
  <2>4. QED
    BY <1>1, <1>3, <2>2, <2>3 DEF IndInv
<1>6. CASE ForwardOk
  <2>1. /\ nxt' = skipped /\ skipped' = <<>> /\ stepReqs' = stepReqs /\ dying' = dying
        /\ pc' = "commit" /\ DOMAIN logits' = DOMAIN stepReqs
    BY <1>6 DEF ForwardOk
  <2>2. Moves(Lists, Lists', 6, 7, skipped)
    BY <1>2, <1>4, <2>1 DEF Moves, Lists
  <2>3. ListsDistinct' /\ ListsAreLive'
    BY <1>1, <1>3, <2>2, MovesInv
  <2>4. ListsOfPhase'
    BY <1>2, <2>1 DEF ListsOfPhase
  <2>5. LogitsMatch'
    <3>1. /\ Len(logits') \in Nat /\ DOMAIN logits' = 1 .. Len(logits')
          /\ Len(stepReqs) \in Nat /\ DOMAIN stepReqs = 1 .. Len(stepReqs)
      BY <1>1, LenProperties DEF TypeOK
    <3>2. Len(logits') = Len(stepReqs)
      BY <2>1, <3>1, SameInterval
    <3>3. QED
      BY <2>1, <3>2 DEF LogitsMatch
  <2>6. BatchCovered'
    BY <1>2, <2>1, BatchFrame DEF IndInv, request
  <2>7. QED
    BY <1>1, <1>3, <2>3, <2>4, <2>5, <2>6 DEF IndInv
<1>7. QED
  BY <1>5, <1>6 DEF Forward

\* The head of a list of the loop is live, and in no other place.
LEMMA HeadIsLive ==
  ASSUME IndInv, NEW a \in 1 .. 8, Lists[a] # <<>>
  PROVE  LET r == Head(Lists[a])
         IN  /\ r \in Live /\ r \in Requests
             /\ \A b \in 1 .. 8 \ {a} : r \notin Range(Lists[b])
             /\ r \notin Range(Tail(Lists[a]))
<1>. DEFINE r == Head(Lists[a])
            t == Tail(Lists[a])
<1>1. Family(Lists) /\ Distinct(Lists) /\ All(Lists) = Live
  BY ListsFamily DEF IndInv, ListsDistinct, ListsAreLive, Distinct, All
<1>2. /\ r \in Requests /\ t \in Seq(Requests) /\ <<r>> \in Seq(Requests)
      /\ Lists[a] = <<r>> \o t /\ Range(<<r>>) = {r} /\ IsInjective(Lists[a])
  BY <1>1, HeadAndTail DEF Family, Distinct
<1>. HIDE DEF r, t
<1>3. Range(<<r>>) \cap Range(t) = {}
  BY <1>2, ConcatSplits
<1>4. Range(<<r>> \o t) = Range(<<r>>) \cup Range(t)
  <2>1. <<r>> \in Seq(Requests) /\ t \in Seq(Requests)
    BY <1>2
  <2>2. QED
    BY <2>1, RangeOfTwo
<1>5. r \in Range(Lists[a]) /\ r \notin Range(t)
  BY <1>2, <1>3, <1>4
<1>6. r \in Live /\ \A b \in 1 .. 8 \ {a} : r \notin Range(Lists[b])
  BY <1>1, <1>5 DEF All, Distinct
<1>7. QED
  BY <1>2, <1>5, <1>6 DEF r, t

\* The batch stays covered when only a request outside it changes.
LEMMA BatchFrameBut ==
  ASSUME TypeOK, BatchCovered, NEW r \in Requests, stepReqs' \in Seq(Requests),
         Range(stepReqs') \subseteq Range(stepReqs), r \notin Range(stepReqs'),
         \A x \in Requests \ {r} :
           len'[x] = len[x] /\ table'[x] = table[x] /\ prefilled'[x] = prefilled[x]
  PROVE  BatchCovered'
<1>1. ASSUME NEW x \in Range(stepReqs)
      PROVE  Covered(x, FeedLen(x))
  BY DEF BatchCovered, Range
<1>2. \A i \in DOMAIN stepReqs' : stepReqs'[i] \in Range(stepReqs')
  BY DEF Range
<1>3. SUFFICES ASSUME NEW i \in DOMAIN stepReqs'
               PROVE  LET y == stepReqs'[i]
                      IN  len'[y] + (IF prefilled'[y] THEN 1 ELSE PromptLen[y])
                            <= BlockSize * Len(table'[y])
  BY DEF BatchCovered, Covered, FeedLen
<1>. DEFINE y == stepReqs'[i]
<1>4. y \in Range(stepReqs) /\ y # r /\ y \in Requests
  BY <1>2
<1>. HIDE DEF y
<1>5. Covered(y, FeedLen(y)) /\ len'[y] = len[y] /\ table'[y] = table[y] /\ prefilled'[y] = prefilled[y]
  BY <1>1, <1>4
<1>6. QED
  BY <1>5 DEF Covered, FeedLen, y

LEMMA TailOfBatch ==
  ASSUME NEW s \in Seq(Requests), s # <<>>
  PROVE  Range(Tail(s)) \subseteq Range(s)
<1>1. /\ Head(s) \in Requests /\ Tail(s) \in Seq(Requests)
      /\ <<Head(s)>> \in Seq(Requests) /\ s = <<Head(s)>> \o Tail(s)
  BY HeadAndTail
<1>2. Range(<<Head(s)>> \o Tail(s)) = Range(<<Head(s)>>) \cup Range(Tail(s))
  BY <1>1, RangeOfTwo
<1>3. QED
  BY <1>1, <1>2

LEMMA DropsInv ==
  ASSUME IndInv, TypeOK', NEW a, Drops(Lists, Lists', a), Live' = Live \ {Head(Lists[a])}
  PROVE  ListsDistinct' /\ ListsAreLive'
<1>1. Family(Lists) /\ Family(Lists') /\ Distinct(Lists) /\ All(Lists) = Live
  BY ListsFamily DEF IndInv, ListsDistinct, ListsAreLive, Distinct, All
<1>2. Distinct(Lists') /\ All(Lists') = Live'
  BY <1>1, DropsKeeps
<1>3. QED
  BY <1>2 DEF ListsDistinct, ListsAreLive, Distinct, All

LEMMA CommitOneStep == ASSUME IndInv, CommitOne PROVE IndInv'
<1>. DEFINE r == Head(stepReqs)
            tok == Head(logits)
            last == Ends(r, tok)
<1>1. TypeOK /\ TypeOK' /\ BatchCovered
  BY CommitOneTypes DEF IndInv
<1>2. /\ stepReqs \in Seq(Requests) /\ stepReqs # <<>> /\ r \in Requests
      /\ tok \in Nat \cup {Wrong} /\ logits # <<>>
      /\ Tail(stepReqs) \in Seq(Requests) /\ Len(Tail(stepReqs)) = Len(stepReqs) - 1
      /\ Len(Tail(logits)) = Len(logits) - 1
      /\ <<r>> \in Seq(Requests) /\ stepReqs = <<r>> \o Tail(stepReqs)
  BY <1>1, CommitHead, HeadAndTail DEF TypeOK
<1>3. /\ Settle(r, last) /\ pc = "commit"
      /\ prefilled' = [prefilled EXCEPT ![r] = TRUE]
      /\ generated' = [generated EXCEPT ![r] = generated[r] + 1]
      /\ tokens' = [tokens EXCEPT ![r] = Append(tokens[r], tok)]
      /\ ending' = [ending EXCEPT ![r] = IF last THEN "done" ELSE ending[r]]
      /\ nxt' = IF last THEN nxt ELSE Append(nxt, r)
      /\ stepReqs' = Tail(stepReqs) /\ logits' = Tail(logits)
      /\ UNCHANGED <<clientVars, queue, pc, running, waiting, todo, skipped, dying>>
  BY <1>1, <1>2 DEF CommitOne, TypeOK
<1>4. r \in Live /\ r \notin Range(Tail(stepReqs))
  BY <1>2, HeadIsLive DEF Lists
<1>5. LogitsMatch'
  BY <1>2, <1>3 DEF LogitsMatch, IndInv
<1>. HIDE DEF r, tok
<1>6. /\ DOMAIN len = Requests /\ DOMAIN table = Requests /\ ending \in [Requests -> Endings]
      /\ prefilled \in [Requests -> BOOLEAN] /\ generated \in [Requests -> Nat]
      /\ tokens \in [Requests -> Seq(Nat \cup {Wrong})]
  BY <1>1 DEF TypeOK, KVTypeOK, Requests
<1>7. Live' = IF last THEN Live \ {r} ELSE Live
  <2>1. \A x \in Requests : Taken(x)' = Taken(x)
    BY <1>3 DEF Taken, clientVars
  <2>2. \A x \in Requests : Closed(x)' = (Closed(x) \/ (x = r /\ last))
    BY <1>2, <1>3, <1>6 DEF Closed
  <2>. HIDE DEF last
  <2>3. QED
    BY <1>2, <2>1, <2>2 DEF Live
<1>8. ListsDistinct' /\ ListsAreLive'
  <2>1. CASE last
    <3>1. Drops(Lists, Lists', 5)
      BY <1>2, <1>3, <2>1 DEF Drops, Lists
    <3>2. Lists[5] = stepReqs
      BY DEF Lists
    <3>3. QED
      BY <1>1, <1>7, <2>1, <3>1, <3>2, DropsInv DEF r
  <2>2. CASE ~ last
    <3>1. nxt' = nxt \o <<r>>
      <4>1. nxt \in Seq(Requests) /\ nxt' = Append(nxt, r)
        BY <1>1, <1>3, <2>2 DEF TypeOK
      <4>2. QED
        BY <1>2, <4>1, AppendIsConcat
    <3>2. Moves(Lists, Lists', 5, 7, <<r>>)
      <4>1. /\ <<r>> \in Seq(Requests) /\ stepReqs = <<r>> \o stepReqs'
            /\ UNCHANGED <<queue, waiting, running, todo, skipped, dying>>
        BY <1>2, <1>3
      <4>2. QED
        BY <3>1, <4>1 DEF Moves, Lists
    <3>3. QED
      BY <1>1, <1>7, <2>2, <3>2, MovesInv
  <2>3. QED
    BY <2>1, <2>2
<1>9. ListsOfPhase'
  BY <1>3 DEF IndInv, ListsOfPhase
<1>10. BatchCovered'
  <2>1. \A x \in Requests \ {r} : len'[x] = len[x] /\ table'[x] = table[x]
    <3>1. CASE Release(r)
      BY <1>2, <1>6, <3>1 DEF Release
    <3>2. CASE Commit(r, FeedLen(r))
      BY <1>2, <1>6, <3>2 DEF Commit
    <3>3. QED
      BY <1>3, <3>1, <3>2 DEF Settle
  <2>2. \A x \in Requests \ {r} : prefilled'[x] = prefilled[x]
    BY <1>3, <1>6
  <2>3. Range(Tail(stepReqs)) \subseteq Range(stepReqs)
    BY <1>2, TailOfBatch
  <2>4. QED
    BY <1>1, <1>2, <1>3, <1>4, <2>1, <2>2, <2>3, BatchFrameBut
<1>11. TakenAreGood' /\ UntakenUntouched'
  <2>1. \A x \in Requests : Taken(x)' = Taken(x)
    BY <1>3 DEF Taken, clientVars
  <2>2. Taken(r)
    BY <1>4 DEF Live
  <2>3. QED
    BY <1>3, <1>6, <2>1, <2>2 DEF IndInv, TakenAreGood, UntakenUntouched, BadRequest
<1>12. TokensCounted'
  <2>1. generated[r] = Len(tokens[r]) /\ generated[r] < MaxNew[r]
    BY <1>2, <1>4 DEF IndInv, TokensCounted
  <2>2. MaxNew[r] \in Nat /\ generated[r] \in Nat /\ tokens[r] \in Seq(Nat \cup {Wrong})
    BY <1>2, <1>6, SchedulerAssumption
  <2>3. generated'[r] = generated[r] + 1 /\ tokens'[r] = Append(tokens[r], tok)
    BY <1>2, <1>3, <1>6
  <2>4. generated'[r] = Len(tokens'[r]) /\ generated'[r] <= MaxNew[r]
    BY <1>2, <2>1, <2>2, <2>3, AppendProperties
  <2>5. r \in Live' => generated'[r] < MaxNew[r]
    BY <1>7, <2>2, <2>3 DEF Ends
  <2>6. ASSUME NEW x \in Requests, x # r
        PROVE  generated'[x] = generated[x] /\ tokens'[x] = tokens[x]
    BY <1>3, <1>6, <2>6
  <2>7. ASSUME NEW x \in Requests
        PROVE  /\ generated'[x] = Len(tokens'[x])
               /\ generated'[x] <= MaxNew[x]
               /\ x \in Live' => generated'[x] < MaxNew[x]
    <3>1. CASE x = r
      BY <2>4, <2>5, <3>1
    <3>2. CASE x # r
      <4>1. /\ generated[x] = Len(tokens[x]) /\ generated[x] <= MaxNew[x]
            /\ x \in Live => generated[x] < MaxNew[x]
        BY DEF IndInv, TokensCounted
      <4>2. /\ generated'[x] = generated[x] /\ tokens'[x] = tokens[x]
            /\ x \in Live' => x \in Live
        BY <1>7, <2>6, <3>2
      <4>3. QED
        BY <4>1, <4>2
    <3>3. QED
      BY <3>1, <3>2
  <2>8. QED
    BY <2>7 DEF TokensCounted
<1>13. QED
  BY <1>1, <1>5, <1>8, <1>9, <1>10, <1>11, <1>12 DEF IndInv

LEMMA CommitDoneStep == ASSUME IndInv, CommitDone PROVE IndInv'
<1>1. TypeOK /\ TypeOK'
  BY CommitDoneTypes DEF IndInv
<1>2. /\ pc = "commit" /\ stepReqs = <<>> /\ stepReqs' = <<>>
      /\ running' = nxt /\ nxt' = <<>> /\ pc' = LoopTop(running', waiting)
      /\ UNCHANGED <<kvVars, clientVars, queue, waiting, todo, skipped, dying, request>>
  BY DEF CommitDone
<1>3. running = <<>> /\ todo = <<>> /\ skipped = <<>> /\ dying = <<>>
  BY <1>2 DEF IndInv, ListsOfPhase
<1>4. Live' = Live /\ TakenAreGood' /\ UntakenUntouched' /\ TokensCounted'
  BY <1>2, RequestFrame DEF clientVars
<1>5. Moves(Lists, Lists', 7, 3, nxt)
  <2>1. nxt \in Seq(Requests) /\ nxt = nxt \o <<>> /\ <<>> \o nxt = nxt
    BY <1>1, ConcatEmptySeq DEF TypeOK
  <2>2. QED
    BY <1>2, <1>3, <2>1 DEF Moves, Lists
<1>6. ListsDistinct' /\ ListsAreLive'
  BY <1>1, <1>4, <1>5, MovesInv
<1>7. ListsOfPhase' /\ LogitsMatch' /\ BatchCovered'
  BY <1>2, <1>3 DEF ListsOfPhase, LogitsMatch, LoopTop, BatchCovered
<1>8. QED
  BY <1>1, <1>4, <1>6, <1>7 DEF IndInv

LEMMA FailOneStep == ASSUME IndInv, FailOne PROVE IndInv'
<1>. DEFINE r == Head(dying)
<1>1. TypeOK /\ TypeOK' /\ BatchCovered
  BY FailOneTypes DEF IndInv
<1>2. /\ pc = "failing" /\ dying # <<>> /\ Release(r) /\ dying' = Tail(dying)
      /\ ending' = [ending EXCEPT ![r] = why]
      /\ UNCHANGED <<clientVars, queue, pc, running, waiting, todo, stepReqs, skipped, nxt,
                     why, after, logits, prefilled, generated, tokens>>
  BY DEF FailOne, Fail, step
<1>3. r \in Live /\ r \in Requests /\ r \notin Range(stepReqs)
  BY <1>2, HeadIsLive DEF Lists
<1>4. Drops(Lists, Lists', 8) /\ Lists[8] = dying
  BY <1>2 DEF Drops, Lists
<1>. HIDE DEF r
<1>5. why # "open" /\ ending \in [Requests -> Endings]
  BY <1>1, <1>2 DEF IndInv, ListsOfPhase, TypeOK
<1>6. /\ \A x \in Requests : Taken(x)' = Taken(x)
      /\ \A x \in Requests : Closed(x)' = (Closed(x) \/ x = r)
  BY <1>2, <1>3, <1>5 DEF Taken, Closed, clientVars
<1>7. Live' = Live \ {r}
  BY <1>6 DEF Live
<1>8. ListsDistinct' /\ ListsAreLive'
  BY <1>1, <1>4, <1>7, DropsInv DEF r
<1>9. ListsOfPhase' /\ LogitsMatch'
  BY <1>2 DEF IndInv, ListsOfPhase, LogitsMatch
<1>10. BatchCovered'
  <2>1. \A x \in Requests \ {r} :
          len'[x] = len[x] /\ table'[x] = table[x] /\ prefilled'[x] = prefilled[x]
    BY <1>1, <1>2, <1>3 DEF Release, TypeOK, KVTypeOK, Requests
  <2>2. stepReqs' \in Seq(Requests) /\ Range(stepReqs') = Range(stepReqs)
    BY <1>1, <1>2 DEF TypeOK
  <2>3. QED
    BY <1>1, <1>3, <2>1, <2>2, BatchFrameBut
<1>11. TakenAreGood' /\ UntakenUntouched'
  <2>1. Taken(r)
    BY <1>3 DEF Live
  <2>2. QED
    BY <1>2, <1>5, <1>6, <2>1 DEF IndInv, TakenAreGood, UntakenUntouched, BadRequest
<1>12. TokensCounted'
  BY <1>2, <1>7 DEF IndInv, TokensCounted
<1>13. QED
  BY <1>1, <1>8, <1>9, <1>10, <1>11, <1>12 DEF IndInv

LEMMA UnchangedStep == ASSUME IndInv, UNCHANGED vars PROVE IndInv'
<1>1. TypeOK'
  BY TypeStep
<1>2. UNCHANGED <<kvVars, clientVars, queue, pc, lists, step, request>>
  BY DEF vars, clientVars
<1>3. Live' = Live /\ TakenAreGood' /\ UntakenUntouched' /\ TokensCounted'
  BY <1>2, RequestFrame DEF clientVars
<1>4. ListsDistinct' /\ ListsAreLive'
  BY <1>2, <1>3, ListsFrame
<1>5. ListsOfPhase' /\ LogitsMatch'
  BY <1>2 DEF IndInv, ListsOfPhase, LogitsMatch, lists, step
<1>6. BatchCovered'
  BY <1>2, BatchFrame DEF IndInv, lists, request
<1>7. QED
  BY <1>1, <1>3, <1>4, <1>5, <1>6 DEF IndInv

LEMMA IndInvNext == IndInv /\ [Next]_vars => IndInv'
<1>. SUFFICES ASSUME IndInv, [Next]_vars PROVE IndInv'
  OBVIOUS
<1>1. CASE UNCHANGED vars \/ Halted
  BY <1>1, UnchangedStep DEF Halted
<1>2. CASE Form
  BY <1>2, FormOverBudgetStep, FormJoinStep, FormWaitStep, FormFailStep, FormEmptyStep,
     StillStep DEF Form
<1>3. CASE Loop
  BY <1>2, <1>3, ReceiveStep, StillStep, DrainStopStep, AdmitStep, ForwardStep, CommitOneStep,
     CommitDoneStep, FailOneStep DEF Loop
<1>4. CASE Stop \/ \E r \in Requests : Submit(r)
  BY <1>4, ClientStep, SendStep DEF Submit
<1>5. QED
  BY <1>1, <1>3, <1>4 DEF Next

LEMMA IndInvInit == Init => IndInv
<1>. SUFFICES ASSUME Init PROVE IndInv
  OBVIOUS
<1>1. \A r \in Requests : ~ Taken(r) /\ ~ Closed(r)
  BY DEF Init, Taken, Closed
<1>2. TypeOK
  <2>1. KVTypeOK
    BY KVInitInv DEF KVInv, Init
  <2>2. <<>> \in Seq(Requests) /\ <<>> \in Seq(Nat \cup {Wrong})
    OBVIOUS
  <2>3. QED
    BY <2>1, <2>2 DEF TypeOK, Init, Endings
<1>3. ListsDistinct /\ ListsAreLive
  <2>1. \A a \in 1 .. 8 : Lists[a] = <<>>
    BY DEF Init, Lists
  <2>2. Range(<<>>) = {} /\ IsInjective(<<>>)
    BY DEF Range, IsInjective
  <2>3. ListsDistinct
    BY <2>1, <2>2 DEF ListsDistinct
  <2>4. UNION {Range(Lists[a]) : a \in 1 .. 8} = {} /\ Live = {}
    BY <1>1, <2>1, <2>2 DEF Live
  <2>5. QED
    BY <2>3, <2>4 DEF ListsAreLive
<1>4. ListsOfPhase /\ BatchCovered /\ LogitsMatch
  BY DEF Init, ListsOfPhase, BatchCovered, LogitsMatch
<1>5. TakenAreGood /\ UntakenUntouched
  BY <1>1 DEF TakenAreGood, UntakenUntouched, Init
<1>6. TokensCounted
  <2>1. \A r \in Requests : MaxNew[r] \in Nat /\ generated[r] = 0 /\ tokens[r] = <<>> /\ r \notin Live
    BY <1>1, SchedulerAssumption DEF Init, Live
  <2>2. QED
    BY <2>1 DEF TokensCounted
<1>7. QED
  BY <1>2, <1>3, <1>4, <1>5, <1>6 DEF IndInv

-----------------------------------------------------------------------------
(* The theorems. *)

\* The inductive invariant holds in every state of every run.
THEOREM Inductive == Spec => []IndInv
BY IndInvInit, IndInvNext, PTL DEF Spec

\* The loop's lists, the requests' fields and the allocator keep their types:
\* in particular the budget of a step never goes below zero, and a commit
\* finds a token for every request of the batch.
THEOREM SchedulerTypeCorrect == Spec => []TypeOK
<1>1. IndInv => TypeOK
  BY DEF IndInv
<1>2. QED
  BY Inductive, <1>1, PTL

\* Eight lists one after the other.
LEMMA ConcatOfFamily ==
  ASSUME NEW L, Family(L), Distinct(L)
  PROVE  LET c == L[1] \o L[2] \o L[3] \o L[4] \o L[5] \o L[6] \o L[7] \o L[8]
         IN  IsInjective(c) /\ Range(c) = All(L)
<1>. DEFINE c2 == L[1] \o L[2]
            c3 == c2 \o L[3]
            c4 == c3 \o L[4]
            c5 == c4 \o L[5]
            c6 == c5 \o L[6]
            c7 == c6 \o L[7]
            c8 == c7 \o L[8]
<1>1. \A a \in 1 .. 8 : L[a] \in Seq(Requests) /\ IsInjective(L[a])
  BY DEF Family, Distinct
<1>2. ASSUME NEW s \in Seq(Requests), NEW n \in 1 .. 7, IsInjective(s),
             Range(s) = UNION {Range(L[a]) : a \in 1 .. n}
      PROVE  /\ s \o L[n + 1] \in Seq(Requests)
             /\ IsInjective(s \o L[n + 1])
             /\ Range(s \o L[n + 1]) = UNION {Range(L[a]) : a \in 1 .. n + 1}
  <2>1. n + 1 \in 1 .. 8 /\ \A a \in 1 .. n : a \in 1 .. 8 /\ a # n + 1
    OBVIOUS
  <2>2. Range(s) \cap Range(L[n + 1]) = {}
    BY <1>2, <2>1 DEF Distinct
  <2>3. 1 .. n + 1 = (1 .. n) \cup {n + 1}
    OBVIOUS
  <2>4. Range(s \o L[n + 1]) = Range(s) \cup Range(L[n + 1])
    BY <1>1, <2>1, RangeOfTwo
  <2>5. IsInjective(s \o L[n + 1])
    BY <1>1, <1>2, <2>1, <2>2, ConcatInjective
  <2>6. s \o L[n + 1] \in Seq(Requests)
    BY <1>1, <2>1, ConcatProperties
  <2>7. QED
    BY <1>2, <2>3, <2>4, <2>5, <2>6
<1>. DEFINE Good(s, n) == /\ s \in Seq(Requests) /\ IsInjective(s)
                          /\ Range(s) = UNION {Range(L[a]) : a \in 1 .. n}
<1>3. Good(L[1], 1)
  BY <1>1
<1>4. \A s, n : Good(s, n) /\ n \in 1 .. 7 => Good(s \o L[n + 1], n + 1)
  BY <1>2
<1>. HIDE DEF Good
<1>5. Good(c2, 2)
  BY <1>3, <1>4
<1>6. Good(c3, 3)
  <2>. HIDE DEF c2
  <2>1. QED
    BY <1>4, <1>5
<1>7. Good(c4, 4)
  <2>. HIDE DEF c3
  <2>1. QED
    BY <1>4, <1>6
<1>8. Good(c5, 5)
  <2>. HIDE DEF c4
  <2>1. QED
    BY <1>4, <1>7
<1>9. Good(c6, 6)
  <2>. HIDE DEF c5
  <2>1. QED
    BY <1>4, <1>8
<1>10. Good(c7, 7)
  <2>. HIDE DEF c6
  <2>1. QED
    BY <1>4, <1>9
<1>11. Good(c8, 8)
  <2>. HIDE DEF c7
  <2>1. QED
    BY <1>4, <1>10
<1>12. QED
  BY <1>11 DEF Good, All

LEMMA OneList == IndInv => InExactlyOneList
<1>. SUFFICES ASSUME IndInv PROVE InExactlyOneList
  OBVIOUS
<1>1. Family(Lists) /\ Distinct(Lists) /\ All(Lists) = Live
  BY ListsFamily DEF IndInv, ListsDistinct, ListsAreLive, Distinct, All
<1>2. Custody = Lists[1] \o Lists[2] \o Lists[3] \o Lists[4] \o Lists[5] \o Lists[6] \o Lists[7] \o Lists[8]
  BY DEF Custody, Lists
<1>3. IsInjective(Custody) /\ Range(Custody) = Live
  BY <1>1, <1>2, ConcatOfFamily
<1>4. QED
  BY <1>3 DEF InExactlyOneList, Live

\* No request is lost by the loop, batched twice, or touched after its end.
THEOREM CustodyKept == Spec => []InExactlyOneList
BY Inductive, OneList, PTL

\* No send of the loop ever blocks on a client.
THEOREM LoopNeverBlocks == Spec => []NeverBlocks
<1>1. IndInv => NeverBlocks
  <2>. SUFFICES ASSUME IndInv, NEW r \in Requests
                PROVE  Len(tokens[r]) + (IF Closed(r) THEN 1 ELSE 0) <= MaxNew[r] + 1
    BY DEF NeverBlocks
  <2>1. Len(tokens[r]) <= MaxNew[r] /\ Len(tokens[r]) \in Nat /\ MaxNew[r] \in Nat
    BY SchedulerAssumption DEF IndInv, TokensCounted, TypeOK
  <2>2. CASE Closed(r)
    BY <2>1, <2>2
  <2>3. CASE ~ Closed(r)
    BY <2>1, <2>3
  <2>4. QED
    BY <2>2, <2>3
<1>2. QED
  BY Inductive, <1>1, PTL

-----------------------------------------------------------------------------
(* The allocator under the scheduler. *)

\* A request of the batch being formed feeds at least one token, and no more
\* than a step may have.
LEMMA FeedInRange ==
  ASSUME IndInv, NEW r \in Live
  PROVE  r \in Requests /\ FeedLen(r) \in 1 .. MaxSeq
<1>1. r \in Requests /\ ~ BadRequest(r)
  BY DEF IndInv, TakenAreGood, Live
<1>2. PromptLen[r] \in 1 .. MaxSeq
  BY <1>1, SchedulerAssumption, KVAssumption DEF BadRequest
<1>3. QED
  BY <1>1, <1>2, KVAssumption DEF FeedLen

\* Every step of the scheduler is a step of the allocator, or leaves it alone.
LEMMA StepsUseAllocator == IndInv /\ [Next]_vars => [KVNext]_kvVars
<1>. SUFFICES ASSUME IndInv, [Next]_vars PROVE [KVNext]_kvVars
  OBVIOUS
<1>1. ASSUME NEW r \in Requests, Forming(r),
             ReserveOk(r, FeedLen(r)) \/ ReserveShort(r, FeedLen(r))
      PROVE  KVNext
  <2>1. r \in Live
    <3>1. todo # <<>> /\ r = Head(todo)
      BY <1>1 DEF Forming
    <3>2. QED
      BY <3>1, HeadIsLive DEF Lists
  <2>2. FeedLen(r) \in 1 .. MaxSeq /\ r \in Seqs
    BY <2>1, FeedInRange DEF Requests
  <2>3. QED
    BY <1>1, <2>2 DEF KVNext, KVStep
<1>2. CASE FormJoin \/ FormWait \/ FormFail
  BY <1>1, <1>2 DEF FormJoin, FormWait, FormFail
<1>3. CASE CommitOne
  <2>. DEFINE r == Head(stepReqs)
              last == Ends(r, Head(logits))
  <2>1. stepReqs # <<>> /\ Settle(r, last)
    BY <1>3 DEF CommitOne
  <2>2. r \in Live
    BY <2>1, HeadIsLive DEF Lists
  <2>3. FeedLen(r) \in 1 .. MaxSeq /\ r \in Seqs
    BY <2>2, FeedInRange DEF Requests
  <2>4. Covered(r, FeedLen(r))
    <3>1. stepReqs \in Seq(Requests)
      BY DEF IndInv, TypeOK
    <3>2. 1 \in DOMAIN stepReqs /\ r = stepReqs[1]
      BY <2>1, <3>1, EmptySeq, LenProperties
    <3>3. QED
      BY <3>2 DEF IndInv, BatchCovered
  <2>5. Release(r) \/ (Covered(r, FeedLen(r)) /\ Commit(r, FeedLen(r)))
    BY <2>1, <2>4 DEF Settle
  <2>. HIDE DEF r, last
  <2>6. QED
    BY <2>3, <2>5 DEF KVNext, KVStep
<1>4. CASE FailOne
  <2>1. dying # <<>> /\ Release(Head(dying))
    BY <1>4 DEF FailOne, Fail
  <2>2. Head(dying) \in Seqs
    BY <2>1, HeadIsLive DEF Lists, Requests
  <2>3. QED
    BY <2>1, <2>2 DEF KVNext
<1>5. CASE UNCHANGED kvVars
  BY <1>5
<1>6. CASE Stop \/ \E r \in Requests : Submit(r)
  BY <1>5, <1>6 DEF Stop, Submit, SubmitReject, SubmitSend, SubmitReturn, SubmitStopped, loopVars
<1>7. CASE Loop
  BY <1>2, <1>3, <1>4, <1>5, <1>7 DEF Loop, Form, Forward, IdleReceive, DrainReceive, Receive,
     IdleStop, DrainStop, Admit, FormOverBudget, FormEmpty, FormDone, ForwardRefused,
     ForwardFault, ForwardOk, FailBatch, CommitDone, FailDone
<1>8. CASE Halted \/ UNCHANGED vars
  BY <1>5, <1>8 DEF Halted, vars
<1>9. QED
  BY <1>6, <1>7, <1>8 DEF Next

\* The loop keeps to the allocator's specification: it reserves at most a
\* step's tokens, and commits only what a successful Reserve covered.
THEOREM AllocatorUsed == Spec => UsesAllocator
<1>1. Init => KVInit
  BY DEF Init
<1>2. QED
  BY Inductive, StepsUseAllocator, <1>1, PTL DEF Spec, UsesAllocator, KVSpec

\* So under the scheduler too no block is ever shared or lost, and every
\* written position lies in a block its request holds.
THEOREM SchedulerKeepsPool == Spec => [](BlocksPartitioned /\ WrittenIsCovered)
BY AllocatorUsed, PoolPartitioned, WrittenCovered, PTL DEF UsesAllocator

-----------------------------------------------------------------------------
(* What the steps that touch a request do to it and to the others. *)

LEMMA RangeOfAppended ==
  ASSUME NEW s \in Seq(Requests), NEW r \in Requests
  PROVE  Range(Append(s, r)) = Range(s) \cup {r}
<1>1. <<r>> \in Seq(Requests) /\ Append(s, r) = s \o <<r>>
  BY AppendIsConcat
<1>2. Range(<<r>>) = {r}
  BY DEF Range
<1>3. Range(s \o <<r>>) = Range(s) \cup Range(<<r>>)
  BY <1>1, RangeOfTwo
<1>4. QED
  BY <1>1, <1>2, <1>3

\* The request a batch is being formed with.
LEMMA FormingIsLive ==
  ASSUME IndInv, NEW r, Forming(r)
  PROVE  /\ r \in Live /\ r \in Requests
         /\ r \notin Range(queue) /\ r \notin Range(waiting) /\ r \notin Range(stepReqs)
<1>1. todo # <<>> /\ r = Head(todo)
  BY DEF Forming
<1>2. r \in Live /\ r \in Requests /\ \A b \in 1 .. 8 \ {4} : r \notin Range(Lists[b])
  BY <1>1, HeadIsLive DEF Lists
<1>3. r \notin Range(Lists[1]) /\ r \notin Range(Lists[2]) /\ r \notin Range(Lists[5])
  BY <1>2
<1>4. QED
  BY <1>2, <1>3 DEF Lists

\* Both outcomes of a Reserve change the table of r only.
LEMMA ReserveFrame ==
  ASSUME KVTypeOK, NEW r \in Seqs, NEW n \in Nat, ReserveOk(r, n) \/ ReserveShort(r, n)
  PROVE  len' = len /\ \A x \in Seqs \ {r} : table'[x] = table[x]
<1>1. PICK k \in Nat : k <= Len(free) /\ Take(r, k)
  BY ReserveTakes
<1>2. QED
  BY <1>1 DEF Take, KVTypeOK

\* One request of the batch is committed: r, with the token tok.
CommitsOne(r, tok) ==
  /\ r \in Live /\ r \in Requests
  /\ r \notin Range(queue) /\ r \notin Range(waiting)
  /\ r \notin Range(nxt) /\ r \notin Range(stepReqs')
  /\ pc = "commit" /\ pc' = "commit"
  /\ stepReqs = <<r>> \o stepReqs' /\ stepReqs' = Tail(stepReqs)
  /\ logits # <<>> /\ tok = Head(logits) /\ logits' = Tail(logits)
  /\ Settle(r, Ends(r, tok))
  /\ nxt' = IF Ends(r, tok) THEN nxt ELSE Append(nxt, r)
  /\ prefilled' = [prefilled EXCEPT ![r] = TRUE]
  /\ nextTok' = [nextTok EXCEPT ![r] = tok]
  /\ generated' = [generated EXCEPT ![r] = generated[r] + 1]
  /\ tokens' = [tokens EXCEPT ![r] = Append(tokens[r], tok)]
  /\ ending' = [ending EXCEPT ![r] = IF Ends(r, tok) THEN "done" ELSE ending[r]]
  /\ UNCHANGED <<clientVars, queue, running, waiting, todo, skipped, dying, budget, why, after,
                 cells>>
  /\ Live' = IF Ends(r, tok) THEN Live \ {r} ELSE Live

LEMMA CommitOneFacts ==
  ASSUME IndInv, CommitOne
  PROVE  \E r \in Requests : \E tok \in Nat \cup {Wrong} : CommitsOne(r, tok)
<1>. DEFINE r == Head(stepReqs)
            tok == Head(logits)
            last == Ends(r, tok)
<1>1. TypeOK
  BY DEF IndInv
<1>2. /\ stepReqs \in Seq(Requests) /\ stepReqs # <<>> /\ r \in Requests /\ logits # <<>>
      /\ stepReqs = <<r>> \o Tail(stepReqs)
  BY <1>1, CommitHead, HeadAndTail DEF TypeOK
<1>3. /\ Settle(r, last) /\ pc = "commit"
      /\ prefilled' = [prefilled EXCEPT ![r] = TRUE]
      /\ nextTok' = [nextTok EXCEPT ![r] = tok]
      /\ generated' = [generated EXCEPT ![r] = generated[r] + 1]
      /\ tokens' = [tokens EXCEPT ![r] = Append(tokens[r], tok)]
      /\ ending' = [ending EXCEPT ![r] = IF last THEN "done" ELSE ending[r]]
      /\ nxt' = IF last THEN nxt ELSE Append(nxt, r)
      /\ stepReqs' = Tail(stepReqs) /\ logits' = Tail(logits)
      /\ UNCHANGED <<clientVars, queue, pc, running, waiting, todo, skipped, dying, budget, why,
                     after, cells>>
  BY <1>1, <1>2 DEF CommitOne, TypeOK
<1>4. r \in Live /\ \A b \in 1 .. 8 \ {5} : r \notin Range(Lists[b])
  BY <1>2, HeadIsLive DEF Lists
<1>5. r \notin Range(Tail(stepReqs))
  BY <1>2, HeadIsLive DEF Lists
<1>6. r \notin Range(Lists[1]) /\ r \notin Range(Lists[2]) /\ r \notin Range(Lists[7])
  BY <1>4
<1>7. ending \in [Requests -> Endings]
  BY <1>1 DEF TypeOK
<1>. HIDE DEF r, tok
<1>8. Live' = IF last THEN Live \ {r} ELSE Live
  <2>1. \A x \in Requests : Taken(x)' = Taken(x)
    BY <1>3 DEF Taken, clientVars
  <2>2. \A x \in Requests : Closed(x)' = (Closed(x) \/ (x = r /\ last))
    BY <1>2, <1>3, <1>7 DEF Closed
  <2>. HIDE DEF last
  <2>3. QED
    BY <1>2, <2>1, <2>2 DEF Live
<1>9. r \notin Range(queue) /\ r \notin Range(waiting) /\ r \notin Range(nxt)
  BY <1>6 DEF Lists
<1>10. CommitsOne(r, tok)
  BY <1>2, <1>3, <1>4, <1>5, <1>8, <1>9 DEF CommitsOne, r, tok
<1>11. tok \in Nat \cup {Wrong}
  BY <1>1, <1>2, CommitHead DEF r, tok, CommitOne
<1>12. QED
  BY <1>2, <1>10, <1>11

\* One request is failed.
FailsOne(r) ==
  /\ r \in Live /\ r \in Requests
  /\ Release(r)
  /\ ending' = [ending EXCEPT ![r] = why]
  /\ why \in Endings \ {"open"}
  /\ UNCHANGED <<clientVars, queue, pc, running, waiting, todo, stepReqs, skipped, nxt, step,
                 prefilled, nextTok, generated, tokens, cells>>
  /\ Live' = Live \ {r}

LEMMA FailOneFacts ==
  ASSUME IndInv, FailOne
  PROVE  pc = "failing" /\ \E r \in Requests : FailsOne(r)
<1>. DEFINE r == Head(dying)
<1>1. /\ pc = "failing" /\ dying # <<>> /\ Release(r)
      /\ ending' = [ending EXCEPT ![r] = why]
      /\ UNCHANGED <<clientVars, queue, pc, running, waiting, todo, stepReqs, skipped, nxt, step,
                     prefilled, nextTok, generated, tokens, cells>>
  BY DEF FailOne, Fail
<1>2. r \in Live /\ r \in Requests
  BY <1>1, HeadIsLive DEF Lists
<1>3. why \in Endings \ {"open"} /\ ending \in [Requests -> Endings]
  BY <1>1 DEF IndInv, TypeOK, ListsOfPhase
<1>. HIDE DEF r
<1>4. Live' = Live \ {r}
  BY <1>1, <1>2, <1>3 DEF Live, Taken, Closed, clientVars
<1>5. FailsOne(r)
  BY <1>1, <1>2, <1>3, <1>4 DEF FailsOne
<1>6. QED
  BY <1>1, <1>2, <1>5
-----------------------------------------------------------------------------
(* Who holds blocks. *)

Holding == \A r \in Requests : table[r] # <<>> => r \in Live \ Range(queue)

\* A Reserve for the request the batch is being formed with.
LEMMA ReserveHolding ==
  ASSUME IndInv, Holding, NEW r \in Requests, Forming(r),
         ReserveOk(r, FeedLen(r)) \/ ReserveShort(r, FeedLen(r)),
         Live' = Live, queue' = queue
  PROVE  Holding'
<1>1. KVTypeOK /\ r \in Seqs /\ FeedLen(r) \in Nat
  BY FeedLenNat DEF IndInv, TypeOK, Requests
<1>2. \A x \in Seqs \ {r} : table'[x] = table[x]
  BY <1>1, ReserveFrame
<1>3. r \in Live /\ r \notin Range(queue)
  BY FormingIsLive
<1>4. QED
  BY <1>2, <1>3 DEF Holding, Requests

LEMMA HoldingNext == IndInv /\ Holding /\ [Next]_vars => Holding'
<1>. SUFFICES ASSUME IndInv, Holding, [Next]_vars PROVE Holding'
  OBVIOUS
<1>1. TypeOK /\ KVTypeOK
  BY DEF IndInv, TypeOK
<1>2. CASE UNCHANGED vars \/ Halted \/ Stop
  BY <1>2 DEF vars, Halted, Stop, loopVars, kvVars, request, Holding, Live, Taken, Closed
<1>3. ASSUME NEW r \in Requests, Submit(r)
      PROVE  Holding'
  <2>1. UNCHANGED <<table, ending>> /\ sub \in [Requests -> {"new", "sent", "accepted", "rejected"}]
    BY <1>1, <1>3 DEF Submit, SubmitReject, SubmitSend, SubmitReturn, SubmitStopped, loopVars,
       kvVars, request, TypeOK
  <2>2. CASE SubmitSend(r)
    <3>1. r \notin Live /\ queue' = Append(queue, r) /\ queue \in Seq(Requests)
      BY <1>1, <2>2 DEF SubmitSend, Live, Taken, TypeOK
    <3>2. Range(queue') = Range(queue) \cup {r}
      BY <3>1, RangeOfAppended
    <3>3. Live \subseteq Live'
      BY <2>1, <2>2 DEF SubmitSend, Submitted, Live, Taken, Closed
    <3>4. QED
      BY <2>1, <3>1, <3>2, <3>3 DEF Holding
  <2>3. CASE ~ SubmitSend(r)
    <3>1. queue' = queue /\ Live \subseteq Live'
      BY <1>3, <2>1, <2>3 DEF Submit, SubmitReject, SubmitReturn, SubmitStopped, Submitted, Live,
         Taken, Closed
    <3>2. QED
      BY <2>1, <3>1 DEF Holding
  <2>4. QED
    BY <2>2, <2>3
<1>4. CASE FormJoin \/ FormWait \/ FormFail
  <2>1. PICK r \in Requests :
          /\ Forming(r) /\ (ReserveOk(r, FeedLen(r)) \/ ReserveShort(r, FeedLen(r)))
          /\ UNCHANGED <<clientVars, queue, request>>
    BY <1>4 DEF FormJoin, FormWait, FormFail
  <2>2. Live' = Live /\ queue' = queue
    BY <2>1 DEF clientVars, request, Live, Taken, Closed
  <2>3. QED
    BY <2>1, <2>2, ReserveHolding
<1>5. CASE CommitOne
  <2>1. PICK r \in Requests, tok \in Nat \cup {Wrong} : CommitsOne(r, tok)
    BY <1>5, CommitOneFacts
  <2>2. \A x \in Requests \ {r} : table'[x] = table[x]
    BY <1>1, <2>1 DEF CommitsOne, Settle, Release, Commit, KVTypeOK, Requests
  <2>3. r \in Live' \/ table'[r] = <<>>
    BY <1>1, <2>1 DEF CommitsOne, Settle, Release, KVTypeOK, Requests
  <2>4. QED
    BY <2>1, <2>2, <2>3 DEF CommitsOne, Holding
<1>6. CASE FailOne
  <2>1. PICK r \in Requests : FailsOne(r)
    BY <1>6, FailOneFacts
  <2>2. table'[r] = <<>> /\ \A x \in Requests \ {r} : table'[x] = table[x]
    BY <1>1, <2>1 DEF FailsOne, Release, KVTypeOK, Requests
  <2>3. QED
    BY <2>1, <2>2 DEF FailsOne, Holding
<1>7. CASE IdleReceive \/ DrainReceive
  <2>1. /\ queue # <<>> /\ queue' = Tail(queue) /\ queue \in Seq(Requests)
        /\ UNCHANGED <<table, sub, ending>>
    BY <1>1, <1>7 DEF IdleReceive, DrainReceive, Receive, kvVars, clientVars, request, TypeOK
  <2>2. Range(queue') \subseteq Range(queue)
    BY <2>1, TailOfBatch
  <2>3. Live' = Live
    BY <2>1 DEF Live, Taken, Closed
  <2>4. QED
    BY <2>1, <2>2, <2>3 DEF Holding
<1>8. CASE Loop /\ UNCHANGED <<kvVars, queue, request, clientVars>>
  BY <1>8 DEF kvVars, request, clientVars, Holding, Live, Taken, Closed
<1>9. CASE Loop
  BY <1>4, <1>5, <1>6, <1>7, <1>8, <1>9 DEF Loop, Form, Forward, IdleStop, DrainStop, Admit,
     FormOverBudget, FormEmpty, FormDone, ForwardRefused, ForwardFault, ForwardOk, FailBatch,
     CommitDone, FailDone
<1>10. QED
  BY <1>2, <1>3, <1>9 DEF Next

\* In every run, only a request that waits or is in flight holds blocks: by
\* whichever path one ends, they are back on the free list.
THEOREM BlocksComeBack == Spec => []HoldersAreLive
<1>1. Init => Holding
  BY DEF Init, KVInit, Holding, Requests
<1>2. IndInv /\ Holding => HoldersAreLive
  BY OneList DEF InExactlyOneList, Holding, HoldersAreLive
<1>3. QED
  BY Inductive, HoldingNext, <1>1, <1>2, PTL DEF Spec
-----------------------------------------------------------------------------
(* Decodes come first. *)

\* Submit and the loop leave what has not been taken alone.
LEMMA UntakenFreshNext == IndInv /\ UntakenFresh /\ [Next]_vars => UntakenFresh'
<1>. SUFFICES ASSUME IndInv, UntakenFresh, [Next]_vars PROVE UntakenFresh'
  OBVIOUS
<1>1. TypeOK /\ KVTypeOK
  BY DEF IndInv, TypeOK
<1>2. \A x \in Requests : Taken(x) => Taken(x)'
  <2>1. CASE sub' = sub
    BY <2>1 DEF Taken
  <2>2. CASE \E r \in Requests : Submit(r)
    BY <1>1, <2>2 DEF TypeOK, Submit, SubmitReject, SubmitSend, SubmitReturn, SubmitStopped,
       Submitted, Taken
  <2>3. QED
    BY <2>1, <2>2 DEF Next, Loop, Form, Forward, IdleReceive, DrainReceive, Receive, IdleStop,
       DrainStop, Admit, FormOverBudget, FormJoin, FormWait, FormFail, FormEmpty, FormDone,
       ForwardRefused, ForwardFault, ForwardOk, FailBatch, CommitOne, CommitDone, FailOne,
       FailDone, Stop, Halted, vars, clientVars
<1>3. CASE UNCHANGED <<prefilled, len>>
  BY <1>2, <1>3 DEF UntakenFresh
<1>4. CASE CommitOne
  <2>1. PICK r \in Requests, tok \in Nat \cup {Wrong} : CommitsOne(r, tok)
    BY <1>4, CommitOneFacts
  <2>2. \A x \in Requests \ {r} : len'[x] = len[x] /\ prefilled'[x] = prefilled[x]
    BY <1>1, <2>1 DEF CommitsOne, Settle, Release, Commit, KVTypeOK, TypeOK, Requests
  <2>3. Taken(r)'
    BY <1>2, <2>1 DEF CommitsOne, Live
  <2>4. QED
    BY <1>2, <2>2, <2>3 DEF UntakenFresh
<1>5. CASE FailOne
  <2>1. PICK r \in Requests : FailsOne(r)
    BY <1>5, FailOneFacts
  <2>2. prefilled' = prefilled /\ \A x \in Requests \ {r} : len'[x] = len[x]
    BY <1>1, <2>1 DEF FailsOne, Release, KVTypeOK, Requests
  <2>3. Taken(r)'
    BY <1>2, <2>1 DEF FailsOne, Live
  <2>4. QED
    BY <1>2, <2>2, <2>3 DEF UntakenFresh
<1>6. QED
  BY <1>3, <1>4, <1>5 DEF Next, Loop, Form, Forward, IdleReceive, DrainReceive, Receive, IdleStop,
     DrainStop, Admit, FormOverBudget, FormJoin, FormWait, FormFail, FormEmpty, FormDone,
     ReserveOk, ReserveShort, Take, ForwardRefused, ForwardFault, ForwardOk, FailBatch, CommitDone,
     FailDone, Stop, Halted, Submit, SubmitReject, SubmitSend, SubmitReturn, SubmitStopped,
     vars, loopVars, kvVars, request

\* The rest of todo, when its head has been taken off.
LEMMA TodoTail ==
  ASSUME IndInv, NEW r \in Requests, Forming(r)
  PROVE  /\ 1 \in DOMAIN todo /\ todo[1] = r
         /\ \A j \in DOMAIN todo' : j \in Nat \ {0} /\ j + 1 \in DOMAIN todo /\ todo'[j] = todo[j + 1]
<1>1. todo \in Seq(Requests) /\ todo # <<>> /\ r = Head(todo) /\ todo' = Tail(todo)
  BY DEF IndInv, TypeOK, Forming
<1>2. /\ Len(todo) \in Nat \ {0} /\ DOMAIN todo = 1 .. Len(todo) /\ r = todo[1]
  BY <1>1, EmptySeq, LenProperties
<1>3. /\ Tail(todo) \in Seq(Requests) /\ Len(Tail(todo)) = Len(todo) - 1
      /\ \A i \in 1 .. Len(Tail(todo)) : Tail(todo)[i] = todo[i + 1]
  BY <1>1, HeadTailProperties
<1>4. DOMAIN todo' = 1 .. Len(todo) - 1
  BY <1>1, <1>3, LenProperties
<1>5. QED
  BY <1>1, <1>2, <1>3, <1>4

\* A prompt that leaves todo leaves no decode behind it.
LEMMA PromptLast ==
  ASSUME IndInv, DecodesAhead, NEW r \in Requests, Forming(r), ~ prefilled[r],
         prefilled' = prefilled
  PROVE  DecodesAhead'
<1>1. ASSUME NEW j \in DOMAIN todo', prefilled[todo'[j]]
      PROVE  FALSE
  <2>1. j \in Nat \ {0} /\ j + 1 \in DOMAIN todo /\ prefilled[todo[j + 1]] /\ todo[1] = r
    BY <1>1, TodoTail
  <2>2. 1 \in 1 .. j + 1
    BY <2>1
  <2>3. prefilled[todo[1]]
    BY <2>1, <2>2 DEF DecodesAhead
  <2>4. QED
    BY <2>1, <2>3
<1>2. QED
  BY <1>1 DEF DecodesAhead

\* A decode that leaves todo takes one token of the budget, or none.
LEMMA DecodeNext ==
  ASSUME IndInv, DecodesAhead, NEW r \in Requests, Forming(r),
         prefilled' = prefilled, budget' \in {budget, budget - 1}
  PROVE  DecodesAhead'
<1>1. budget \in Nat
  BY DEF IndInv, TypeOK
<1>2. ASSUME NEW j \in DOMAIN todo', prefilled[todo'[j]]
      PROVE  j <= budget' /\ \A i \in 1 .. j : prefilled[todo'[i]]
  <2>1. j \in Nat \ {0} /\ j + 1 \in DOMAIN todo /\ prefilled[todo[j + 1]]
    BY <1>2, TodoTail
  <2>2. j + 1 <= budget /\ \A i \in 1 .. j + 1 : prefilled[todo[i]]
    BY <2>1 DEF DecodesAhead
  <2>3. ASSUME NEW i \in 1 .. j PROVE prefilled[todo'[i]]
    <3>1. i + 1 \in 1 .. j + 1
      BY <2>1
    <3>2. i \in DOMAIN todo'
      <4>1. todo' \in Seq(Requests)
        BY HeadTailProperties DEF IndInv, TypeOK, Forming
      <4>2. DOMAIN todo' = 1 .. Len(todo') /\ Len(todo') \in Nat
        BY <4>1, LenProperties
      <4>3. QED
        BY <2>1, <4>2
    <3>3. todo'[i] = todo[i + 1]
      BY <3>2, TodoTail
    <3>4. QED
      BY <2>2, <3>1, <3>3
  <2>4. QED
    BY <1>1, <2>1, <2>2, <2>3
<1>3. QED
  BY <1>2 DEF DecodesAhead

\* While there is a decode to look at there is budget for it.
LEMMA DecodeFits ==
  ASSUME IndInv, DecodesAhead, NEW r \in Requests, Forming(r), prefilled[r]
  PROVE  Fits(r) /\ FeedLen(r) = 1
<1>1. 1 \in DOMAIN todo /\ prefilled[todo[1]]
  BY TodoTail
<1>2. 1 <= budget
  BY <1>1 DEF DecodesAhead
<1>3. QED
  BY <1>2 DEF Fits, FeedLen
\* The parts of BatchInv but for UntakenFresh.
Decodes == skipped = <<>> /\ PromptsWait /\ DecodesRun /\ DecodesAhead /\ StepWithinBudget

LEMMA RangesGrow ==
  ASSUME NEW p \in Seq(Requests), NEW q \in Seq(Requests)
  PROVE  Range(p) \subseteq Range(p \o q) /\ Range(q) \subseteq Range(p \o q)
BY RangeOfTwo

LEMMA NoneInEmpty == Range(<<>>) = {} /\ DOMAIN <<>> = {} /\ Len(<<>>) = 0
BY DEF Range

LEMMA DecodesClients ==
  ASSUME IndInv, UntakenFresh, Decodes,
         Stop \/ Halted \/ UNCHANGED vars \/ \E r \in Requests : Submit(r)
  PROVE  Decodes'
<1>1. UNCHANGED <<lists, step, prefilled, pc>>
  BY DEF Stop, Halted, vars, Submit, SubmitReject, SubmitSend, SubmitReturn, SubmitStopped, loopVars,
     request
<1>2. CASE queue' = queue
  BY <1>1, <1>2 DEF Decodes, PromptsWait, DecodesRun, DecodesAhead, StepWithinBudget, lists, step
<1>3. ASSUME NEW r \in Requests, SubmitSend(r)
      PROVE  Decodes'
  <2>1. queue \in Seq(Requests) /\ queue' = Append(queue, r) /\ ~ prefilled[r]
    BY <1>3 DEF IndInv, TypeOK, SubmitSend, UntakenFresh, Taken
  <2>2. Range(queue') = Range(queue) \cup {r}
    BY <2>1, RangeOfAppended
  <2>3. PromptsWait'
    BY <1>1, <2>1, <2>2 DEF Decodes, PromptsWait, lists
  <2>4. QED
    BY <1>1, <2>3 DEF Decodes, DecodesRun, DecodesAhead, StepWithinBudget, lists, step
<1>4. QED
  BY <1>2, <1>3 DEF Stop, Halted, vars, Submit, SubmitReject, SubmitReturn, SubmitStopped

LEMMA DecodesReceive ==
  ASSUME IndInv, Decodes, IdleReceive \/ DrainReceive
  PROVE  Decodes'
<1>1. /\ queue # <<>> /\ queue \in Seq(Requests) /\ waiting \in Seq(Requests)
      /\ queue' = Tail(queue) /\ waiting' = Append(waiting, Head(queue)) /\ pc' = "drain"
      /\ UNCHANGED <<running, todo, stepReqs, skipped, nxt, step, prefilled>>
  BY DEF IndInv, TypeOK, IdleReceive, DrainReceive, Receive, request
<1>2. Head(queue) \in Requests /\ Head(queue) \in Range(queue)
  <2>1. Head(queue) \in Requests /\ Head(queue) = queue[1] /\ 1 \in DOMAIN queue
    BY <1>1, EmptySeq, LenProperties
  <2>2. QED
    BY <2>1 DEF Range
<1>3. Range(queue') \subseteq Range(queue) /\ Range(waiting') = Range(waiting) \cup {Head(queue)}
  BY <1>1, <1>2, TailOfBatch, RangeOfAppended
<1>4. PromptsWait'
  BY <1>1, <1>2, <1>3 DEF Decodes, PromptsWait
<1>5. QED
  BY <1>1, <1>4 DEF Decodes, DecodesRun, DecodesAhead, StepWithinBudget, step

LEMMA DecodesAdmit ==
  ASSUME IndInv, Decodes, Admit
  PROVE  Decodes'
<1>1. PICK p, q \in Seq(Requests) : waiting = p \o q /\ todo' = running \o p /\ waiting' = q
  BY AdmitCuts
<1>2. /\ pc = "drain" /\ pc' = "form" /\ running' = <<>> /\ stepReqs' = <<>> /\ skipped' = <<>>
      /\ budget' = MaxSeq /\ UNCHANGED <<queue, nxt, prefilled, after>>
  BY DEF Admit, request
<1>3. /\ running \in Seq(Requests) /\ Len(running) \in Nat /\ DOMAIN running = 1 .. Len(running)
      /\ Len(p) \in Nat
  BY LenProperties DEF IndInv, TypeOK
<1>4. Range(p) \subseteq Range(waiting) /\ Range(waiting') \subseteq Range(waiting)
  BY <1>1, RangesGrow
<1>5. PromptsWait' /\ DecodesRun'
  BY <1>2, <1>4, NoneInEmpty DEF Decodes, PromptsWait, DecodesRun
<1>6. DecodesAhead'
  <2>1. /\ DOMAIN todo' = 1 .. Len(running) + Len(p)
        /\ \A i \in 1 .. Len(running) + Len(p) :
             todo'[i] = IF i <= Len(running) THEN running[i] ELSE p[i - Len(running)]
    <3>1. running \o p \in Seq(Requests) /\ Len(running \o p) = Len(running) + Len(p)
      BY <1>3, ConcatProperties
    <3>2. QED
      BY <1>1, <1>3, <3>1, ConcatProperties, LenProperties
  <2>2. ASSUME NEW j \in DOMAIN todo', prefilled[todo'[j]]
        PROVE  j <= Len(running)
    <3>1. SUFFICES ASSUME j > Len(running) PROVE FALSE
      BY <1>3, <2>1
    <3>2. j - Len(running) \in 1 .. Len(p) /\ todo'[j] = p[j - Len(running)]
      BY <1>3, <2>1, <3>1
    <3>3. DOMAIN p = 1 .. Len(p)
      BY LenProperties
    <3>4. todo'[j] \in Range(p)
      BY <3>2, <3>3 DEF Range
    <3>5. QED
      BY <1>4, <2>2, <3>4 DEF Decodes, PromptsWait
  <2>3. \A i \in 1 .. Len(running) : prefilled[running[i]]
    BY <1>3 DEF Decodes, DecodesRun, Range
  <2>4. Len(running) <= MaxSeq
    BY DEF Decodes, StepWithinBudget
  <2>5. ASSUME NEW j \in DOMAIN todo', prefilled[todo'[j]]
        PROVE  j <= MaxSeq /\ \A i \in 1 .. j : prefilled[todo'[i]]
    <3>1. j \in Nat /\ j <= Len(running)
      BY <2>1, <2>2, <2>5
    <3>2. \A i \in 1 .. j : i \in 1 .. Len(running) /\ todo'[i] = running[i]
      BY <1>3, <2>1, <3>1
    <3>3. QED
      BY <1>3, <2>3, <2>4, <3>1, <3>2, KVAssumption
  <2>6. QED
    BY <1>2, <2>5 DEF DecodesAhead
<1>7. StepWithinBudget'
  BY <1>2, NoneInEmpty, KVAssumption DEF StepWithinBudget
<1>8. QED
  BY <1>2, <1>5, <1>6, <1>7 DEF Decodes

LEMMA DecodesForm ==
  ASSUME IndInv, Decodes, Form
  PROVE  Decodes'
<1>1. CASE FormOverBudget \/ FormWait
  <2>1. PICK r \in Requests :
          /\ Forming(r) /\ waiting' = Append(waiting, r) /\ ~ prefilled[r]
          /\ UNCHANGED <<queue, pc, running, stepReqs, skipped, nxt, budget, after, prefilled>>
    BY <1>1, DecodeFits DEF FormOverBudget, FormWait, Requeue, Decodes, step, request
  <2>2. waiting \in Seq(Requests)
    BY DEF IndInv, TypeOK
  <2>3. Range(waiting') = Range(waiting) \cup {r}
    BY <2>1, <2>2, RangeOfAppended
  <2>4. PromptsWait'
    BY <2>1, <2>3 DEF Decodes, PromptsWait
  <2>5. DecodesAhead'
    BY <2>1, PromptLast DEF Decodes
  <2>6. QED
    BY <2>1, <2>4, <2>5 DEF Decodes, DecodesRun, StepWithinBudget
<1>2. CASE FormJoin
  <2>1. PICK r \in Requests :
          /\ Forming(r) /\ Fits(r) /\ stepReqs' = Append(stepReqs, r)
          /\ budget' = budget - FeedLen(r)
          /\ UNCHANGED <<queue, pc, running, waiting, skipped, nxt, after, prefilled>>
    BY <1>2 DEF FormJoin, request
  <2>2. FeedLen(r) \in 1 .. MaxSeq /\ budget \in Nat
    BY <2>1, FormingIsLive, FeedInRange DEF IndInv, TypeOK
  <2>3. DecodesAhead'
    <3>1. CASE prefilled[r]
      BY <2>1, <3>1, DecodeNext DEF Decodes, FeedLen
    <3>2. CASE ~ prefilled[r]
      BY <2>1, <3>2, PromptLast DEF Decodes
    <3>3. QED
      BY <3>1, <3>2
  <2>4. StepWithinBudget'
    <3>1. stepReqs \in Seq(Requests) /\ pc = "form" /\ MaxSeq \in Nat
      BY <2>1, KVAssumption DEF IndInv, TypeOK, Forming
    <3>2. Len(stepReqs') = Len(stepReqs) + 1 /\ Len(stepReqs) \in Nat
      BY <2>1, <3>1, AppendProperties, LenProperties
    <3>3. Len(stepReqs) + budget <= MaxSeq /\ Len(running) <= MaxSeq
      BY <3>1 DEF Decodes, StepWithinBudget
    <3>4. Len(stepReqs') + budget' <= MaxSeq
      BY <2>1, <2>2, <3>1, <3>2, <3>3
    <3>5. QED
      BY <2>1, <3>1, <3>3, <3>4 DEF StepWithinBudget
  <2>5. QED
    BY <2>1, <2>3, <2>4 DEF Decodes, PromptsWait, DecodesRun
<1>3. CASE FormFail
  <2>1. PICK r \in Requests :
          /\ Forming(r) /\ pc' = "failing" /\ after' = "form"
          /\ UNCHANGED <<queue, running, waiting, stepReqs, skipped, nxt, budget, prefilled>>
    BY <1>3 DEF FormFail, StartFailing, request
  <2>2. DecodesAhead'
    BY <2>1, DecodeNext DEF Decodes
  <2>3. QED
    BY <2>1, <2>2 DEF Decodes, PromptsWait, DecodesRun, StepWithinBudget, Forming
<1>4. CASE FormEmpty
  <2>1. /\ skipped = <<>> /\ running' = <<>> /\ skipped' = <<>> /\ pc' \in {"idle", "drain"}
        /\ UNCHANGED <<queue, waiting, todo, stepReqs, nxt, step, prefilled>>
    BY <1>4 DEF FormEmpty, Decodes, LoopTop, request
  <2>2. QED
    BY <2>1, NoneInEmpty, KVAssumption DEF Decodes, PromptsWait, DecodesRun, DecodesAhead,
       StepWithinBudget, step
<1>5. CASE FormDone
  BY <1>5 DEF FormDone, lists, step, request, Decodes, PromptsWait, DecodesRun, DecodesAhead,
     StepWithinBudget
<1>6. QED
  BY <1>1, <1>2, <1>3, <1>4, <1>5 DEF Form
LEMMA DecodesForward ==
  ASSUME IndInv, Decodes, Forward
  PROVE  Decodes'
<1>1. /\ pc = "forward" /\ running = <<>> /\ todo = <<>> /\ nxt = <<>>
      /\ stepReqs \in Seq(Requests) /\ budget \in Nat /\ skipped = <<>>
      /\ UNCHANGED <<queue, running, waiting, todo, prefilled>>
  BY DEF IndInv, TypeOK, ListsOfPhase, Forward, ForwardRefused, ForwardFault, ForwardOk, FailBatch,
     Decodes, request
<1>2. Len(stepReqs) \in Nat /\ Len(stepReqs) <= MaxSeq /\ MaxSeq \in Nat
  <2>1. Len(stepReqs) \in Nat /\ Len(stepReqs) + budget <= MaxSeq
    BY <1>1, LenProperties DEF Decodes, StepWithinBudget
  <2>2. QED
    BY <1>1, <2>1, KVAssumption
<1>3. PromptsWait' /\ DecodesAhead'
  BY <1>1, NoneInEmpty DEF Decodes, PromptsWait, DecodesAhead
<1>4. CASE ForwardRefused \/ ForwardFault
  <2>1. pc' = "failing" /\ after' = "loop" /\ skipped' = <<>> /\ nxt' = nxt
    BY <1>4 DEF ForwardRefused, ForwardFault, FailBatch, StartFailing
  <2>2. QED
    BY <1>1, <1>2, <1>3, <2>1, NoneInEmpty DEF Decodes, DecodesRun, StepWithinBudget
<1>5. CASE ForwardOk
  <2>1. pc' = "commit" /\ skipped' = <<>> /\ nxt' = <<>> /\ stepReqs' = stepReqs
    BY <1>1, <1>5 DEF ForwardOk
  <2>2. QED
    BY <1>1, <1>2, <1>3, <2>1, NoneInEmpty DEF Decodes, DecodesRun, StepWithinBudget
<1>6. QED
  BY <1>4, <1>5 DEF Forward

LEMMA DecodesCommit ==
  ASSUME IndInv, Decodes, CommitOne
  PROVE  Decodes'
<1>1. PICK r \in Requests, tok \in Nat \cup {Wrong} : CommitsOne(r, tok)
  BY CommitOneFacts
<1>2. /\ stepReqs \in Seq(Requests) /\ stepReqs # <<>> /\ nxt \in Seq(Requests)
      /\ todo = <<>> /\ running = <<>> /\ prefilled \in [Requests -> BOOLEAN]
      /\ queue \in Seq(Requests) /\ waiting \in Seq(Requests)
  BY <1>1 DEF CommitsOne, IndInv, TypeOK, ListsOfPhase, CommitOne
<1>3. /\ prefilled'[r] /\ \A x \in Requests \ {r} : prefilled'[x] = prefilled[x]
  BY <1>1, <1>2 DEF CommitsOne
<1>4. Range(queue) \subseteq Requests /\ Range(waiting) \subseteq Requests /\ Range(nxt) \subseteq Requests
  BY <1>2 DEF Range
<1>5. PromptsWait'
  BY <1>1, <1>3, <1>4 DEF CommitsOne, Decodes, PromptsWait
<1>6. Len(nxt') \in {Len(nxt), Len(nxt) + 1} /\ Range(nxt') \subseteq Range(nxt) \cup {r}
  BY <1>1, <1>2, RangeOfAppended, AppendProperties DEF CommitsOne
<1>7. DecodesRun'
  BY <1>1, <1>2, <1>3, <1>4, <1>6, NoneInEmpty DEF CommitsOne, Decodes, DecodesRun
<1>8. StepWithinBudget'
  <2>1. Len(stepReqs) \in Nat \ {0} /\ Len(stepReqs') = Len(stepReqs) - 1 /\ Len(nxt) \in Nat
    BY <1>1, <1>2, EmptySeq, LenProperties, HeadTailProperties DEF CommitsOne
  <2>2. Len(stepReqs) + Len(nxt) <= MaxSeq /\ MaxSeq \in Nat
    BY <1>1, KVAssumption DEF CommitsOne, Decodes, StepWithinBudget
  <2>3. Len(stepReqs') + Len(nxt') <= MaxSeq
    BY <1>6, <2>1, <2>2
  <2>4. QED
    BY <1>1, <2>3 DEF CommitsOne, Decodes, StepWithinBudget
<1>9. DecodesAhead'
  BY <1>1, <1>2, NoneInEmpty DEF CommitsOne, DecodesAhead
<1>10. QED
  BY <1>1, <1>5, <1>7, <1>8, <1>9 DEF CommitsOne, Decodes

LEMMA DecodesOther ==
  ASSUME IndInv, Decodes, IdleStop \/ DrainStop \/ CommitDone \/ FailOne \/ FailDone
  PROVE  Decodes'
<1>1. MaxSeq \in Nat
  BY KVAssumption
<1>2. CASE IdleStop
  <2>1. pc = "idle" /\ pc' = "halted" /\ UNCHANGED <<queue, lists, step, request>>
    BY <1>2 DEF IdleStop
  <2>2. QED
    BY <2>1 DEF lists, step, request, Decodes, PromptsWait, DecodesRun, DecodesAhead, StepWithinBudget
<1>3. CASE FailOne
  BY <1>3 DEF FailOne, step, Decodes, PromptsWait, DecodesRun, DecodesAhead, StepWithinBudget
<1>4. CASE DrainStop
  <2>1. /\ running' = <<>> /\ waiting' = <<>> /\ pc' = "failing" /\ after' = "halted"
        /\ UNCHANGED <<queue, todo, skipped, nxt, budget, prefilled>>
    BY <1>4 DEF DrainStop, StartFailing, request
  <2>2. QED
    BY <1>1, <2>1, NoneInEmpty DEF Decodes, PromptsWait, DecodesRun, DecodesAhead, StepWithinBudget
<1>5. CASE CommitDone
  <2>1. /\ pc = "commit" /\ stepReqs = <<>> /\ nxt \in Seq(Requests)
        /\ running' = nxt /\ nxt' = <<>> /\ pc' \in {"idle", "drain"}
        /\ UNCHANGED <<queue, waiting, todo, skipped, budget, prefilled>>
    BY <1>5 DEF CommitDone, LoopTop, step, request, IndInv, TypeOK
  <2>2. Len(nxt) \in Nat /\ Len(nxt) <= MaxSeq
    <3>1. Len(nxt) \in Nat
      BY <2>1, LenProperties
    <3>2. 0 + Len(nxt) <= MaxSeq
      BY <2>1, NoneInEmpty DEF Decodes, StepWithinBudget
    <3>3. QED
      BY <1>1, <3>1, <3>2
  <2>3. QED
    BY <2>1, <2>2, NoneInEmpty DEF Decodes, PromptsWait, DecodesRun, DecodesAhead, StepWithinBudget
<1>6. CASE FailDone
  <2>1. /\ pc = "failing" /\ UNCHANGED <<queue, lists, step, request>>
        /\ \/ after = "form" /\ pc' = "form"
           \/ after # "form" /\ pc' \in {"idle", "drain", "halted"}
    BY <1>6 DEF FailDone, LoopTop, IndInv, TypeOK
  <2>2. QED
    BY <2>1 DEF lists, step, request, Decodes, PromptsWait, DecodesRun, DecodesAhead, StepWithinBudget
<1>7. QED
  BY <1>2, <1>3, <1>4, <1>5, <1>6

LEMMA BatchInvNext == IndInv /\ BatchInv /\ [Next]_vars => BatchInv'
<1>. SUFFICES ASSUME IndInv, BatchInv, [Next]_vars PROVE BatchInv'
  OBVIOUS
<1>1. UntakenFresh /\ Decodes
  BY DEF BatchInv, Decodes
<1>2. UntakenFresh'
  BY <1>1, UntakenFreshNext
<1>3. Decodes'
  BY <1>1, DecodesClients, DecodesReceive, DecodesAdmit, DecodesForm, DecodesForward, DecodesCommit,
     DecodesOther DEF Next, Loop
<1>4. QED
  BY <1>2, <1>3 DEF BatchInv, Decodes

LEMMA BatchInvInit == Init => BatchInv
<1>. SUFFICES ASSUME Init PROVE BatchInv
  OBVIOUS
<1>1. MaxSeq \in Nat
  BY KVAssumption
<1>2. UntakenFresh
  BY DEF Init, KVInit, UntakenFresh, Taken, Requests
<1>3. QED
  BY <1>1, <1>2, NoneInEmpty DEF Init, BatchInv, PromptsWait, DecodesRun, DecodesAhead, StepWithinBudget

LEMMA RangeOfFour ==
  ASSUME NEW p \in Seq(Requests), NEW q \in Seq(Requests),
         NEW u \in Seq(Requests), NEW v \in Seq(Requests)
  PROVE  Range(p \o q \o u \o v) = Range(p) \cup Range(q) \cup Range(u) \cup Range(v)
<1>. DEFINE a == p \o q
            b == a \o u
<1>1. a \in Seq(Requests) /\ Range(a) = Range(p) \cup Range(q)
  BY RangeOfTwo, ConcatProperties
<1>. HIDE DEF a
<1>2. b \in Seq(Requests) /\ Range(b) = Range(a) \cup Range(u)
  BY <1>1, RangeOfTwo, ConcatProperties
<1>. HIDE DEF b
<1>3. Range(b \o v) = Range(b) \cup Range(v)
  BY <1>2, RangeOfTwo
<1>4. QED
  BY <1>1, <1>2, <1>3 DEF a, b

\* A list of at most n requests holds at most n of them.
LEMMA ListBounds ==
  ASSUME NEW u \in Seq(Requests), NEW n \in Nat, Len(u) <= n, NEW S \in SUBSET Range(u)
  PROVE  Cardinality(S) <= n
<1>1. Len(u) \in Nat /\ DOMAIN u = 1 .. Len(u) /\ u \in [1 .. Len(u) -> Range(u)]
  BY LenProperties DEF Range
<1>2. u \in Surjection(1 .. Len(u), Range(u))
  BY <1>1 DEF Surjection, Range
<1>3. IsFiniteSet(1 .. Len(u)) /\ Cardinality(1 .. Len(u)) = Len(u)
  <2>. DEFINE l == Len(u)
  <2>1. 1 \in Int /\ l \in Int /\ l \in Nat
    BY <1>1
  <2>. HIDE DEF l
  <2>2. IsFiniteSet(1 .. l) /\ Cardinality(1 .. l) = IF 1 > l THEN 0 ELSE l - 1 + 1
    BY <2>1, FS_Interval
  <2>3. Cardinality(1 .. l) = l
    BY <2>1, <2>2
  <2>4. QED
    BY <2>2, <2>3 DEF l
<1>4. IsFiniteSet(Range(u)) /\ Cardinality(Range(u)) <= Len(u)
  BY <1>2, <1>3, FS_Surjection
<1>5. IsFiniteSet(S) /\ Cardinality(S) <= Cardinality(Range(u))
  BY <1>4, FS_Subset
<1>6. Cardinality(S) \in Nat /\ Cardinality(Range(u)) \in Nat
  BY <1>4, <1>5, FS_CardinalityType
<1>7. QED
  BY <1>1, <1>4, <1>5, <1>6

\* The decodes of todo are among its first, as many as there is budget.
LEMMA DecodesInFront ==
  ASSUME IndInv, DecodesAhead
  PROVE  \E u \in Seq(Requests) :
           Len(u) <= budget /\ {r \in Range(todo) : prefilled[r]} \subseteq Range(u)
<1>. DEFINE k == IF Len(todo) < budget THEN Len(todo) ELSE budget
            u == SubSeq(todo, 1, k)
<1>1. /\ todo \in Seq(Requests) /\ Len(todo) \in Nat /\ budget \in Nat
      /\ DOMAIN todo = 1 .. Len(todo) /\ todo \in [1 .. Len(todo) -> Requests]
  BY LenProperties DEF IndInv, TypeOK
<1>2. k \in Nat /\ k <= Len(todo) /\ k <= budget
  BY <1>1
<1>3. \A j \in 1 .. Len(todo) : j <= budget => j <= k
  BY <1>1
<1>. HIDE DEF k
<1>4. u \in Seq(Requests) /\ Len(u) = k /\ \A i \in 1 .. k : u[i] = todo[i]
  <2>1. \A i \in 1 .. k : todo[i] \in Requests
    BY <1>1, <1>2
  <2>2. QED
    BY <1>2, <2>1, SubSeqProperties
<1>5. DOMAIN u = 1 .. k
  BY <1>4, LenProperties
<1>. HIDE DEF u
<1>6. ASSUME NEW r \in Range(todo), prefilled[r]
      PROVE  r \in Range(u)
  <2>1. PICK j \in DOMAIN todo : r = todo[j]
    BY DEF Range
  <2>2. j <= budget
    BY <1>6, <2>1 DEF DecodesAhead
  <2>3. j \in 1 .. k /\ u[j] = r
    BY <1>1, <1>2, <1>3, <1>4, <2>1, <2>2
  <2>4. QED
    BY <1>5, <2>3 DEF Range
<1>7. QED
  BY <1>2, <1>4, <1>6

\* However many requests run and whatever their prompts, no step leaves a
\* decode out, and there are never more decodes than a step has tokens.
THEOREM DecodesAlwaysFit == Spec => []DecodesNeverSkipped
<1>1. ASSUME IndInv, BatchInv PROVE DecodesNeverSkipped
  <2>. DEFINE S == {r \in Range(running \o todo \o stepReqs \o nxt) : prefilled[r]}
  <2>1. /\ running \in Seq(Requests) /\ todo \in Seq(Requests) /\ stepReqs \in Seq(Requests)
        /\ nxt \in Seq(Requests) /\ MaxSeq \in Nat /\ budget \in Nat
    BY <1>1, KVAssumption DEF IndInv, TypeOK
  <2>2. S \subseteq Range(running) \cup {r \in Range(todo) : prefilled[r]} \cup Range(stepReqs) \cup Range(nxt)
    <3>1. Range(running \o todo \o stepReqs \o nxt)
            = Range(running) \cup Range(todo) \cup Range(stepReqs) \cup Range(nxt)
      BY <2>1, RangeOfFour
    <3>2. QED
      BY <3>1
  <2>. HIDE DEF S
  <2>3. \E v \in Seq(Requests) : Len(v) <= MaxSeq /\ S \subseteq Range(v)
    <3>1. CASE pc \in {"idle", "drain", "halted"} \/ (pc = "failing" /\ after # "form")
      <4>1. todo = <<>> /\ stepReqs = <<>> /\ nxt = <<>>
        BY <1>1, <3>1 DEF IndInv, TypeOK, ListsOfPhase
      <4>2. S \subseteq Range(running) /\ Len(running) <= MaxSeq
        BY <1>1, <2>2, <4>1, NoneInEmpty DEF BatchInv, StepWithinBudget
      <4>3. QED
        BY <2>1, <4>2
    <3>2. CASE pc \in {"form", "forward"} \/ (pc = "failing" /\ after = "form")
      <4>1. running = <<>> /\ nxt = <<>> /\ Len(stepReqs) + budget <= MaxSeq
        BY <1>1, <3>2 DEF IndInv, ListsOfPhase, BatchInv, StepWithinBudget
      <4>2. PICK u \in Seq(Requests) :
              Len(u) <= budget /\ {r \in Range(todo) : prefilled[r]} \subseteq Range(u)
        BY <1>1, DecodesInFront DEF BatchInv
      <4>3. /\ u \o stepReqs \in Seq(Requests) /\ Len(u \o stepReqs) = Len(u) + Len(stepReqs)
            /\ Range(u \o stepReqs) = Range(u) \cup Range(stepReqs)
        BY <2>1, RangeOfTwo, ConcatProperties
      <4>4. Len(u) \in Nat /\ Len(stepReqs) \in Nat
        BY <2>1, LenProperties
      <4>5. S \subseteq Range(u \o stepReqs) /\ Len(u \o stepReqs) <= MaxSeq
        BY <2>1, <2>2, <4>1, <4>2, <4>3, <4>4, NoneInEmpty
      <4>6. QED
        BY <4>3, <4>5
    <3>3. CASE pc = "commit"
      <4>1. running = <<>> /\ todo = <<>> /\ Len(stepReqs) + Len(nxt) <= MaxSeq
        BY <1>1, <3>3 DEF IndInv, ListsOfPhase, BatchInv, StepWithinBudget
      <4>2. /\ stepReqs \o nxt \in Seq(Requests) /\ Len(stepReqs \o nxt) = Len(stepReqs) + Len(nxt)
            /\ Range(stepReqs \o nxt) = Range(stepReqs) \cup Range(nxt)
        BY <2>1, RangeOfTwo, ConcatProperties
      <4>3. S \subseteq Range(stepReqs \o nxt) /\ Len(stepReqs \o nxt) <= MaxSeq
        BY <2>2, <4>1, <4>2, NoneInEmpty
      <4>4. QED
        BY <4>2, <4>3
    <3>4. QED
      BY <1>1, <3>1, <3>2, <3>3 DEF IndInv, TypeOK
  <2>4. Cardinality(S) <= MaxSeq
    BY <2>1, <2>3, ListBounds
  <2>5. QED
    BY <1>1, <2>4 DEF DecodesNeverSkipped, BatchInv, S
<1>2. QED
  BY Inductive, BatchInvInit, BatchInvNext, <1>1, PTL DEF Spec
-----------------------------------------------------------------------------
(* The counters. *)

LEMMA OneMore ==
  ASSUME NEW S, NEW x, IsFiniteSet(S), x \notin S
  PROVE  /\ IsFiniteSet(S \cup {x}) /\ Cardinality(S) \in Nat
         /\ Cardinality(S \cup {x}) = Cardinality(S) + 1
BY FS_AddElement, FS_CardinalityType

\* A row of n more.
LEMMA RowMore ==
  ASSUME NEW S, NEW x, NEW n \in Nat, IsFiniteSet(S), \A k \in 1 .. n : <<x, k>> \notin S
  PROVE  /\ IsFiniteSet(S \cup ({x} \X (1 .. n))) /\ Cardinality(S) \in Nat
         /\ Cardinality(S \cup ({x} \X (1 .. n))) = Cardinality(S) + n
<1>. DEFINE T == {x} \X (1 .. n)
<1>1. IsFiniteSet(1 .. n) /\ Cardinality(1 .. n) = n
  BY FS_Interval
<1>2. IsFiniteSet({x}) /\ Cardinality({x}) = 1
  BY FS_Singleton
<1>3. IsFiniteSet(T) /\ Cardinality(T) = 1 * n
  BY <1>1, <1>2, FS_Product
<1>4. S \cap T = {}
  OBVIOUS
<1>. HIDE DEF T
<1>5. /\ IsFiniteSet(S \cup T)
      /\ Cardinality(S \cup T) = Cardinality(S) + Cardinality(T) - Cardinality({})
  BY <1>3, <1>4, FS_Union
<1>6. Cardinality(S) \in Nat /\ Cardinality({}) = 0
  BY FS_CardinalityType, FS_EmptySet
<1>7. QED
  BY <1>3, <1>5, <1>6 DEF T

\* What one step adds to the counters.
CountsUp(m1, m2, total, done, toks, prefill, batched, ttft, itl) ==
  /\ m2 \in Counters
  /\ m2.total = m1.total + total
  /\ m2.done = m1.done + done
  /\ m2.tokens = m1.tokens + toks
  /\ m2.prefill = m1.prefill + prefill
  /\ m2.batched = m1.batched + batched
  /\ m2.ttft = m1.ttft + ttft
  /\ m2.itl = m1.itl + itl

LEMMA Counting ==
  ASSUME NEW m1 \in Counters
  PROVE  /\ CountsUp(m1, [m1 EXCEPT !.total = @ + 1], 1, 0, 0, 0, 0, 0, 0)
         /\ CountsUp(m1, [m1 EXCEPT !.done = @ + 1], 0, 1, 0, 0, 0, 0, 0)
         /\ \A n \in Nat : CountsUp(m1, [m1 EXCEPT !.steps = @ + 1, !.batched = @ + n], 0, 0, 0, 0, n, 0, 0)
         /\ \A a, b \in Nat : \A c \in Int :
              CountsUp(m1, [m1 EXCEPT !.runningSeqs = a, !.queuedReqs = b, !.kvUsed = c], 0, 0, 0, 0, 0, 0, 0)
         /\ \A p, e \in BOOLEAN : \A n \in Nat :
              CountsUp(m1, [m1 EXCEPT !.tokens = @ + 1,
                                  !.prefill = IF p THEN @ ELSE @ + n,
                                  !.ttft = IF p THEN @ ELSE @ + 1,
                                  !.itl = IF p THEN @ + 1 ELSE @,
                                  !.done = IF e THEN @ + 1 ELSE @],
                   0, IF e THEN 1 ELSE 0, 1, IF p THEN 0 ELSE n, 0, IF p THEN 0 ELSE 1, IF p THEN 1 ELSE 0)
<1>1. CountsUp(m1, [m1 EXCEPT !.total = @ + 1], 1, 0, 0, 0, 0, 0, 0)
  BY DEF CountsUp, Counters
<1>2. CountsUp(m1, [m1 EXCEPT !.done = @ + 1], 0, 1, 0, 0, 0, 0, 0)
  BY DEF CountsUp, Counters
<1>3. ASSUME NEW n \in Nat
      PROVE  CountsUp(m1, [m1 EXCEPT !.steps = @ + 1, !.batched = @ + n], 0, 0, 0, 0, n, 0, 0)
  <2>1. PICK a \in Nat, b \in Nat : a = m1.steps + 1 /\ b = m1.batched + n
    BY DEF Counters
  <2>2. PICK m2 : m2 = [m1 EXCEPT !.steps = a, !.batched = b]
    OBVIOUS
  <2>3. m2 \in Counters
    BY <2>2 DEF Counters
  <2>4. /\ m2.total = m1.total /\ m2.done = m1.done /\ m2.tokens = m1.tokens
        /\ m2.prefill = m1.prefill /\ m2.batched = b /\ m2.ttft = m1.ttft /\ m2.itl = m1.itl
    BY <2>2 DEF Counters
  <2>5. CountsUp(m1, m2, 0, 0, 0, 0, n, 0, 0)
    BY <2>1, <2>3, <2>4 DEF CountsUp, Counters
  <2>6. QED
    BY <2>1, <2>2, <2>5
<1>4. ASSUME NEW a \in Nat, NEW b \in Nat, NEW c \in Int
      PROVE  CountsUp(m1, [m1 EXCEPT !.runningSeqs = a, !.queuedReqs = b, !.kvUsed = c], 0, 0, 0, 0, 0, 0, 0)
  <2>1. PICK m2 : m2 = [m1 EXCEPT !.runningSeqs = a, !.queuedReqs = b, !.kvUsed = c]
    OBVIOUS
  <2>2. m2 \in Counters
    BY <2>1 DEF Counters
  <2>3. /\ m2.total = m1.total /\ m2.done = m1.done /\ m2.tokens = m1.tokens
        /\ m2.prefill = m1.prefill /\ m2.batched = m1.batched /\ m2.ttft = m1.ttft
        /\ m2.itl = m1.itl
    BY <2>1 DEF Counters
  <2>4. CountsUp(m1, m2, 0, 0, 0, 0, 0, 0, 0)
    BY <2>2, <2>3 DEF CountsUp, Counters
  <2>5. QED
    BY <2>1, <2>4
<1>5. ASSUME NEW p \in BOOLEAN, NEW e \in BOOLEAN, NEW n \in Nat
      PROVE  CountsUp(m1, [m1 EXCEPT !.tokens = @ + 1,
                                  !.prefill = IF p THEN @ ELSE @ + n,
                                  !.ttft = IF p THEN @ ELSE @ + 1,
                                  !.itl = IF p THEN @ + 1 ELSE @,
                                  !.done = IF e THEN @ + 1 ELSE @],
                   0, IF e THEN 1 ELSE 0, 1, IF p THEN 0 ELSE n, 0, IF p THEN 0 ELSE 1, IF p THEN 1 ELSE 0)
  <2>1. PICK t \in Nat, f \in Nat, g \in Nat, i \in Nat, d \in Nat :
          /\ t = m1.tokens + 1
          /\ f = IF p THEN m1.prefill ELSE m1.prefill + n
          /\ g = IF p THEN m1.ttft ELSE m1.ttft + 1
          /\ i = IF p THEN m1.itl + 1 ELSE m1.itl
          /\ d = IF e THEN m1.done + 1 ELSE m1.done
    <3>1. m1.tokens + 1 \in Nat /\ m1.prefill + n \in Nat /\ m1.ttft + 1 \in Nat
          /\ m1.itl + 1 \in Nat /\ m1.done + 1 \in Nat
      BY DEF Counters
    <3>2. m1.prefill \in Nat /\ m1.ttft \in Nat /\ m1.itl \in Nat /\ m1.done \in Nat
      BY DEF Counters
    <3>3. /\ (IF p THEN m1.prefill ELSE m1.prefill + n) \in Nat
          /\ (IF p THEN m1.ttft ELSE m1.ttft + 1) \in Nat
          /\ (IF p THEN m1.itl + 1 ELSE m1.itl) \in Nat
          /\ (IF e THEN m1.done + 1 ELSE m1.done) \in Nat
      BY <3>1, <3>2
    <3>4. QED
      BY <3>1, <3>3, Zenon
  <2>2. PICK m2 : m2 = [m1 EXCEPT !.tokens = t, !.prefill = f, !.ttft = g, !.itl = i, !.done = d]
    OBVIOUS
  <2>3. m2 \in Counters
    BY <2>2 DEF Counters
  <2>4. /\ m2.total = m1.total /\ m2.done = d /\ m2.tokens = t
        /\ m2.prefill = f /\ m2.batched = m1.batched /\ m2.ttft = g /\ m2.itl = i
    BY <2>2 DEF Counters
  <2>5. CountsUp(m1, m2, 0, IF e THEN 1 ELSE 0, 1, IF p THEN 0 ELSE n, 0, IF p THEN 0 ELSE 1,
             IF p THEN 1 ELSE 0)
    <3>1. m1.total \in Nat /\ m1.done \in Nat /\ m1.prefill \in Nat /\ m1.batched \in Nat
          /\ m1.ttft \in Nat /\ m1.itl \in Nat
      BY DEF Counters
    <3>2. CASE p /\ e
      BY <2>1, <2>3, <2>4, <3>1, <3>2 DEF CountsUp
    <3>3. CASE p /\ ~ e
      BY <2>1, <2>3, <2>4, <3>1, <3>3 DEF CountsUp
    <3>4. CASE ~ p /\ e
      BY <2>1, <2>3, <2>4, <3>1, <3>4 DEF CountsUp
    <3>5. CASE ~ p /\ ~ e
      BY <2>1, <2>3, <2>4, <3>1, <3>5 DEF CountsUp
    <3>6. QED
      BY <3>2, <3>3, <3>4, <3>5
  <2>6. QED
    BY <2>1, <2>2, <2>5
<1>6. QED
  BY <1>1, <1>2, <1>3, <1>4, <1>5

\* A step that at most starts or ends a commit, or sets the gauges.
LEMMA NothingCounted ==
  ASSUME MetricsInv, Counted' = Counted, UNCHANGED <<prefilled, tokens, ending>>,
         NEW n \in Nat, CountsUp(m, m', 0, 0, 0, 0, n, 0, 0),
         Uncommitted \in Nat, Uncommitted' = Uncommitted + n
  PROVE  MetricsInv'
<1>1. Ended' = Ended /\ Begun' = Begun
  BY DEF Ended, Closed, Begun
<1>2. Sent' = Sent /\ PromptsIn' = PromptsIn
  BY <1>1 DEF Sent, PromptsIn
<1>3. BegunArePrefilled'
  BY <1>1 DEF MetricsInv, BegunArePrefilled
<1>4. MetricsAddUp'
  BY <1>1, <1>2 DEF MetricsInv, MetricsAddUp, CountsUp, Counters
<1>5. QED
  BY <1>1, <1>2, <1>3, <1>4 DEF MetricsInv, CountsUp

LEMMA SubmitCounted ==
  ASSUME TypeOK, MetricsInv, NEW r \in Requests, Submit(r)
  PROVE  MetricsInv'
<1>1. UNCHANGED <<prefilled, tokens, ending, pc, stepReqs>>
  BY DEF Submit, SubmitReject, SubmitSend, SubmitReturn, SubmitStopped, loopVars, lists, request
<1>2. Uncommitted' = Uncommitted /\ Uncommitted \in Nat
  BY <1>1, LenProperties DEF Uncommitted, TypeOK
<1>3. sub \in [Requests -> {"new", "sent", "accepted", "rejected"}] /\ m \in Counters
  BY DEF TypeOK, MetricsInv
<1>4. CASE SubmitReturn(r)
  <2>1. Counted' = Counted \cup {r} /\ r \notin Counted
    BY <1>3, <1>4 DEF SubmitReturn, Submitted, Counted
  <2>2. CountsUp(m, m', 1, 0, 0, 0, 0, 0, 0)
    BY <1>3, <1>4, Counting DEF SubmitReturn
  <2>3. /\ IsFiniteSet(Counted') /\ Cardinality(Counted) \in Nat
        /\ Cardinality(Counted') = Cardinality(Counted) + 1
    BY <2>1, OneMore DEF MetricsInv
  <2>4. Ended' = Ended /\ Begun' = Begun
    BY <1>1 DEF Ended, Closed, Begun
  <2>5. Sent' = Sent /\ PromptsIn' = PromptsIn
    BY <1>1, <2>4 DEF Sent, PromptsIn
  <2>6. BegunArePrefilled'
    BY <1>1, <2>4 DEF MetricsInv, BegunArePrefilled
  <2>7. MetricsAddUp'
    BY <1>2, <2>2, <2>3, <2>4, <2>5 DEF MetricsInv, MetricsAddUp, CountsUp, Counters
  <2>8. QED
    BY <2>2, <2>3, <2>4, <2>5, <2>6, <2>7 DEF MetricsInv, CountsUp
<1>5. CASE ~ SubmitReturn(r)
  <2>1. Counted' = Counted /\ m' = m
    BY <1>3, <1>5 DEF Submit, SubmitReject, SubmitSend, SubmitStopped, Submitted, Counted
  <2>2. CountsUp(m, m', 0, 0, 0, 0, 0, 0, 0)
    BY <1>3, <2>1 DEF CountsUp, Counters
  <2>3. QED
    BY <1>1, <1>2, <2>1, <2>2, NothingCounted
<1>6. QED
  BY <1>4, <1>5

LEMMA FailCounted ==
  ASSUME IndInv, MetricsInv, FailOne
  PROVE  MetricsInv'
<1>1. PICK r \in Requests : FailsOne(r)
  BY FailOneFacts
<1>2. /\ ending \in [Requests -> Endings] /\ m \in Counters
      /\ UNCHANGED <<prefilled, tokens, sub, pc, stepReqs>>
  BY <1>1 DEF IndInv, TypeOK, MetricsInv, FailsOne, clientVars
<1>3. ending[r] = "open"
  BY <1>1 DEF FailsOne, Live, Closed
<1>4. Ended' = Ended \cup {r} /\ r \notin Ended
  BY <1>1, <1>2, <1>3 DEF FailsOne, Ended, Closed
<1>5. /\ IsFiniteSet(Ended') /\ Cardinality(Ended) \in Nat
      /\ Cardinality(Ended') = Cardinality(Ended) + 1
  BY <1>4, OneMore DEF MetricsInv
<1>6. CountsUp(m, m', 0, 1, 0, 0, 0, 0, 0)
  BY <1>2, Counting DEF FailOne, Fail
<1>7. Counted' = Counted /\ Begun' = Begun /\ Uncommitted' = Uncommitted
  BY <1>2 DEF Counted, Begun, Uncommitted
<1>8. Sent' = Sent /\ PromptsIn' = PromptsIn
  BY <1>2, <1>7 DEF Sent, PromptsIn
<1>9. BegunArePrefilled'
  BY <1>2, <1>7 DEF MetricsInv, BegunArePrefilled
<1>10. Uncommitted \in Nat
  BY LenProperties DEF IndInv, TypeOK, Uncommitted
<1>11. MetricsAddUp'
  BY <1>5, <1>6, <1>7, <1>8, <1>10 DEF MetricsInv, MetricsAddUp, CountsUp, Counters
<1>12. QED
  BY <1>5, <1>6, <1>7, <1>8, <1>9, <1>11 DEF MetricsInv, CountsUp

LEMMA CommitCounters ==
  ASSUME IndInv, MetricsInv, CommitOne, NEW r \in Requests, NEW tok, CommitsOne(r, tok)
  PROVE  CountsUp(m, m', 0, IF Ends(r, tok) THEN 1 ELSE 0, 1,
                  IF prefilled[r] THEN 0 ELSE PromptLen[r], 0,
                  IF prefilled[r] THEN 0 ELSE 1, IF prefilled[r] THEN 1 ELSE 0)
<1>1. r = Head(stepReqs) /\ tok = Head(logits)
  <2>1. stepReqs = <<r>> \o stepReqs' /\ stepReqs' = Tail(stepReqs) /\ stepReqs \in Seq(Requests)
        /\ stepReqs # <<>>
    BY DEF CommitsOne, IndInv, TypeOK, CommitOne
  <2>2. stepReqs' \in Seq(Requests)
    BY <2>1, HeadTailProperties
  <2>3. stepReqs[1] = r
    BY <2>1, <2>2
  <2>4. QED
    BY <2>1, <2>3 DEF CommitsOne
<1>2. /\ m \in Counters /\ prefilled[r] \in BOOLEAN /\ Ends(r, tok) \in BOOLEAN /\ PromptLen[r] \in Nat
  BY SchedulerAssumption DEF MetricsInv, IndInv, TypeOK, Ends, Eos
<1>3. m' = [m EXCEPT !.tokens = @ + 1,
                     !.prefill = IF prefilled[r] THEN @ ELSE @ + PromptLen[r],
                     !.ttft = IF prefilled[r] THEN @ ELSE @ + 1,
                     !.itl = IF prefilled[r] THEN @ + 1 ELSE @,
                     !.done = IF Ends(r, tok) THEN @ + 1 ELSE @]
  BY <1>1, Zenon DEF CommitOne
<1>. DEFINE p == prefilled[r]
            e == Ends(r, tok)
            n == PromptLen[r]
<1>4. p \in BOOLEAN /\ e \in BOOLEAN /\ n \in Nat
  BY <1>2
<1>5. m' = [m EXCEPT !.tokens = @ + 1,
                     !.prefill = IF p THEN @ ELSE @ + n,
                     !.ttft = IF p THEN @ ELSE @ + 1,
                     !.itl = IF p THEN @ + 1 ELSE @,
                     !.done = IF e THEN @ + 1 ELSE @]
  BY <1>3
<1>. HIDE DEF p, e, n
<1>6. CountsUp(m, m', 0, IF e THEN 1 ELSE 0, 1, IF p THEN 0 ELSE n, 0, IF p THEN 0 ELSE 1,
               IF p THEN 1 ELSE 0)
  BY <1>2, <1>4, <1>5, Counting, Zenon
<1>7. QED
  BY <1>6 DEF p, e, n

LEMMA CommitCounted ==
  ASSUME IndInv, MetricsInv, CommitOne
  PROVE  MetricsInv'
<1>1. PICK r \in Requests, tok \in Nat \cup {Wrong} : CommitsOne(r, tok)
  BY CommitOneFacts
<1>2. /\ tokens \in [Requests -> Seq(Nat \cup {Wrong})] /\ prefilled \in [Requests -> BOOLEAN]
      /\ ending \in [Requests -> Endings] /\ stepReqs \in Seq(Requests) /\ PromptLen[r] \in Nat
  BY SchedulerAssumption DEF IndInv, TypeOK
<1>3. CountsUp(m, m', 0, IF Ends(r, tok) THEN 1 ELSE 0, 1,
               IF prefilled[r] THEN 0 ELSE PromptLen[r], 0,
               IF prefilled[r] THEN 0 ELSE 1, IF prefilled[r] THEN 1 ELSE 0)
  BY <1>1, CommitCounters
<1>4. Counted' = Counted
  BY <1>1 DEF CommitsOne, clientVars, Counted
<1>5. /\ IsFiniteSet(Ended') /\ Cardinality(Ended) \in Nat
      /\ Cardinality(Ended') = Cardinality(Ended) + (IF Ends(r, tok) THEN 1 ELSE 0)
  <2>1. r \notin Ended
    BY <1>1 DEF CommitsOne, Live, Ended
  <2>2. CASE Ends(r, tok)
    <3>1. Ended' = Ended \cup {r}
      BY <1>1, <1>2, <2>2 DEF CommitsOne, Ended, Closed
    <3>2. QED
      BY <2>1, <2>2, <3>1, OneMore DEF MetricsInv
  <2>3. CASE ~ Ends(r, tok)
    <3>1. Ended' = Ended
      BY <1>1, <1>2, <2>3 DEF CommitsOne, Ended, Closed
    <3>2. QED
      BY <2>3, <3>1, FS_CardinalityType DEF MetricsInv
  <2>4. QED
    BY <2>2, <2>3
<1>6. /\ tokens'[r] = Append(tokens[r], tok)
      /\ \A x \in Requests \ {r} : tokens'[x] = tokens[x]
  BY <1>1, <1>2 DEF CommitsOne
<1>7. /\ Len(tokens[r]) \in Nat /\ DOMAIN tokens[r] = 1 .. Len(tokens[r])
      /\ DOMAIN tokens'[r] = 1 .. Len(tokens[r]) + 1
  BY <1>2, <1>6, LenProperties, AppendProperties
<1>8. Begun' = Begun \cup {r}
  <2>1. 1 \in DOMAIN tokens'[r]
    BY <1>7
  <2>2. tokens'[r] # <<>>
    BY <2>1
  <2>3. QED
    BY <1>6, <2>2 DEF Begun
<1>9. prefilled[r] <=> r \in Begun
  BY DEF MetricsInv, BegunArePrefilled
<1>10. /\ IsFiniteSet(Begun') /\ Cardinality(Begun) \in Nat
       /\ Cardinality(Begun') = Cardinality(Begun) + (IF prefilled[r] THEN 0 ELSE 1)
  <2>1. CASE prefilled[r]
    <3>1. Begun' = Begun
      BY <1>8, <1>9, <2>1
    <3>2. QED
      BY <2>1, <3>1, FS_CardinalityType DEF MetricsInv
  <2>2. CASE ~ prefilled[r]
    BY <1>8, <1>9, <2>2, OneMore DEF MetricsInv
  <2>3. QED
    BY <2>1, <2>2
<1>11. /\ IsFiniteSet(Sent') /\ Cardinality(Sent) \in Nat
       /\ Cardinality(Sent') = Cardinality(Sent) + 1
  <2>1. Sent' = Sent \cup {<<r, Len(tokens[r]) + 1>>}
    <3>1. DOMAIN tokens'[r] = DOMAIN tokens[r] \cup {Len(tokens[r]) + 1}
      BY <1>7
    <3>2. QED
      BY <1>6, <3>1 DEF Sent
  <2>2. <<r, Len(tokens[r]) + 1>> \notin Sent
    <3>1. Len(tokens[r]) + 1 \notin DOMAIN tokens[r]
      BY <1>7
    <3>2. QED
      BY <3>1 DEF Sent
  <2>3. QED
    BY <2>1, <2>2, OneMore DEF MetricsInv
<1>12. /\ IsFiniteSet(PromptsIn') /\ Cardinality(PromptsIn) \in Nat
       /\ Cardinality(PromptsIn')
            = Cardinality(PromptsIn) + (IF prefilled[r] THEN 0 ELSE PromptLen[r])
  <2>1. CASE prefilled[r]
    <3>1. PromptsIn' = PromptsIn
      BY <1>8, <1>9, <2>1 DEF PromptsIn
    <3>2. QED
      BY <2>1, <3>1, FS_CardinalityType DEF MetricsInv
  <2>2. CASE ~ prefilled[r]
    <3>1. PromptsIn' = PromptsIn \cup ({r} \X (1 .. PromptLen[r]))
      BY <1>8 DEF PromptsIn
    <3>2. \A k \in 1 .. PromptLen[r] : <<r, k>> \notin PromptsIn
      BY <1>9, <2>2 DEF PromptsIn
    <3>3. QED
      BY <1>2, <2>2, <3>1, <3>2, RowMore DEF MetricsInv
  <2>3. QED
    BY <2>1, <2>2
<1>13. BegunArePrefilled'
  BY <1>1, <1>2, <1>8 DEF CommitsOne, MetricsInv, BegunArePrefilled
<1>14. Uncommitted \in Nat /\ Uncommitted' \in Nat /\ Uncommitted = Uncommitted' + 1
  <2>1. /\ Len(stepReqs) \in Nat \ {0} /\ Len(stepReqs') = Len(stepReqs) - 1
        /\ pc = "commit" /\ pc' = "commit"
    BY <1>1, <1>2, EmptySeq, LenProperties, HeadTailProperties DEF CommitsOne, CommitOne
  <2>2. QED
    BY <2>1 DEF Uncommitted
<1>15. m.total' = Cardinality(Counted') /\ m.done' = Cardinality(Ended')
  BY <1>3, <1>4, <1>5 DEF MetricsInv, MetricsAddUp, CountsUp, Counters
<1>16. /\ m.tokens' = Cardinality(Sent') /\ m.tokens' = m.tokens + 1
       /\ m.prefill' = Cardinality(PromptsIn')
       /\ m.tokens \in Nat
  BY <1>3, <1>11, <1>12 DEF MetricsInv, MetricsAddUp, CountsUp, Counters
<1>17. m.ttft' = Cardinality(Begun')
  BY <1>3, <1>10 DEF MetricsInv, MetricsAddUp, CountsUp, Counters
<1>18. m.ttft' + m.itl' = m.tokens'
  BY <1>3 DEF MetricsInv, MetricsAddUp, CountsUp, Counters
<1>19. m.batched' = m.tokens' + Uncommitted'
  BY <1>3, <1>14, <1>16 DEF MetricsInv, MetricsAddUp, CountsUp, Counters
<1>20. MetricsAddUp'
  BY <1>15, <1>16, <1>17, <1>18, <1>19 DEF MetricsAddUp
<1>21. m' \in Counters
  BY <1>3 DEF CountsUp
<1>22. QED
  BY <1>4, <1>5, <1>10, <1>11, <1>12, <1>13, <1>20, <1>21 DEF MetricsInv

LEMMA MetricsNext == IndInv /\ MetricsInv /\ [Next]_vars => MetricsInv'
<1>. SUFFICES ASSUME IndInv, MetricsInv, [Next]_vars PROVE MetricsInv'
  OBVIOUS
<1>1. TypeOK /\ m \in Counters
  BY DEF IndInv, MetricsInv
<1>2. Uncommitted \in Nat /\ CountsUp(m, m, 0, 0, 0, 0, 0, 0, 0)
  <2>1. Uncommitted \in Nat
    BY <1>1, LenProperties DEF TypeOK, Uncommitted
  <2>2. CountsUp(m, m, 0, 0, 0, 0, 0, 0, 0)
    BY <1>1 DEF CountsUp, Counters
  <2>3. QED
    BY <2>1, <2>2
<1>3. CASE \E r \in Requests : Submit(r)
  BY <1>1, <1>3, SubmitCounted
<1>4. CASE CommitOne
  BY <1>4, CommitCounted
<1>5. CASE FailOne
  BY <1>5, FailCounted
<1>6. ASSUME UNCHANGED <<prefilled, tokens, ending, m>>, sub' = sub, Uncommitted' = Uncommitted
      PROVE  MetricsInv'
  <2>1. Counted' = Counted
    BY <1>6 DEF Counted
  <2>2. QED
    BY <1>2, <1>6, <2>1, NothingCounted
<1>7. CASE Admit
  <2>1. /\ UNCHANGED <<prefilled, tokens, ending, sub>> /\ pc = "drain" /\ pc' = "form"
    BY <1>7 DEF Admit, request, clientVars
  <2>2. Counted' = Counted /\ Uncommitted' = Uncommitted
    BY <2>1 DEF Counted, Uncommitted
  <2>3. Len(todo') \in Nat /\ Len(waiting') \in Nat /\ NumBlocks - Len(free) \in Int
    <3>1. TypeOK'
      BY <1>7, AdmitTypes
    <3>2. QED
      BY <1>1, <3>1, KVAssumption, LenProperties DEF TypeOK, KVTypeOK
  <2>4. m' = [m EXCEPT !.runningSeqs = Len(todo'), !.queuedReqs = Len(waiting'),
                       !.kvUsed = NumBlocks - Len(free)]
    BY <1>7 DEF Admit
  <2>5. CountsUp(m, m', 0, 0, 0, 0, 0, 0, 0)
    BY <1>1, <2>3, <2>4, Counting, Zenon
  <2>6. QED
    BY <1>2, <2>1, <2>2, <2>5, NothingCounted
<1>8. CASE ForwardOk
  <2>1. /\ UNCHANGED <<prefilled, tokens, ending, sub, stepReqs>> /\ pc = "forward" /\ pc' = "commit"
    BY <1>8 DEF ForwardOk, request, clientVars
  <2>2. Len(stepReqs) \in Nat
    BY <1>1, LenProperties DEF TypeOK
  <2>3. Counted' = Counted /\ Uncommitted' = Uncommitted + Len(stepReqs)
    BY <2>1, <2>2 DEF Counted, Uncommitted
  <2>4. m' = [m EXCEPT !.steps = @ + 1, !.batched = @ + Len(stepReqs)]
    BY <1>8, Zenon DEF ForwardOk
  <2>5. CountsUp(m, m', 0, 0, 0, 0, Len(stepReqs), 0, 0)
    BY <1>1, <2>2, <2>4, Counting, Zenon
  <2>6. QED
    BY <1>2, <2>1, <2>2, <2>3, <2>5, NothingCounted
<1>9. CASE Stop \/ Halted \/ UNCHANGED vars
  BY <1>6, <1>9 DEF Stop, Halted, vars, loopVars, lists, request, Uncommitted
<1>10. CASE IdleReceive \/ DrainReceive \/ IdleStop \/ DrainStop
  BY <1>6, <1>10 DEF IdleReceive, DrainReceive, Receive, IdleStop, DrainStop, StartFailing,
     request, clientVars, Uncommitted
<1>11. CASE Form
  BY <1>6, <1>11 DEF Form, FormOverBudget, FormJoin, FormWait, FormFail, FormEmpty, FormDone,
     Forming, StartFailing, LoopTop, request, clientVars, Uncommitted
<1>12. CASE ForwardRefused \/ ForwardFault
  BY <1>6, <1>12 DEF ForwardRefused, ForwardFault, FailBatch, StartFailing, request, clientVars,
     Uncommitted
<1>13. CASE CommitDone
  <2>1. Uncommitted = 0 /\ Uncommitted' = 0
    BY <1>13 DEF CommitDone, LoopTop, Uncommitted
  <2>2. QED
    BY <1>6, <1>13, <2>1 DEF CommitDone, request, clientVars
<1>14. CASE FailDone
  <2>1. pc = "failing" /\ pc' \in {"idle", "drain", "form", "halted"}
    BY <1>1, <1>14 DEF FailDone, LoopTop, TypeOK
  <2>2. QED
    BY <1>6, <1>14, <2>1 DEF FailDone, lists, request, clientVars, Uncommitted
<1>15. QED
  BY <1>3, <1>4, <1>5, <1>7, <1>8, <1>9, <1>10, <1>11, <1>12, <1>13, <1>14 DEF Next, Loop, Forward

LEMMA MetricsInit == Init => MetricsInv
<1>. SUFFICES ASSUME Init PROVE MetricsInv
  OBVIOUS
<1>1. Counted = {} /\ Ended = {} /\ Begun = {} /\ Sent = {}
  BY DEF Init, Counted, Ended, Closed, Begun, Sent
<1>2. PromptsIn = {}
  BY <1>1 DEF PromptsIn
<1>3. IsFiniteSet({}) /\ Cardinality({}) = 0
  BY FS_EmptySet
<1>4. m \in Counters
  BY DEF Init, NoMetrics, Counters
<1>5. BegunArePrefilled
  BY <1>1 DEF Init, BegunArePrefilled
<1>6. MetricsAddUp
  BY <1>1, <1>2, <1>3 DEF Init, NoMetrics, MetricsAddUp, Uncommitted
<1>7. QED
  BY <1>1, <1>2, <1>3, <1>4, <1>5, <1>6 DEF MetricsInv

\* For any number of requests and any order of steps, the counters agree with
\* each other and with what the clients were sent.
THEOREM CountersAddUp == Spec => []MetricsAddUp
<1>1. MetricsInv => MetricsAddUp
  BY DEF MetricsInv
<1>2. QED
  BY Inductive, MetricsInit, MetricsNext, <1>1, PTL DEF Spec
-----------------------------------------------------------------------------
(* The limits of a batch. *)

LEMMA SameCount == \A S : Backend!Cardinality(S) = Cardinality(S)
BY DEF Backend!Cardinality, Cardinality

\* One of some subsets of a finite set has none of the others within it.
Least(T) == {x \in T : \A y \in T : ~ (y \subseteq x /\ y # x)}

LEMMA LeastExists ==
  ASSUME NEW S, IsFiniteSet(S), NEW T, T \subseteq SUBSET S, T # {}
  PROVE  Least(T) # {}
<1>1. IsWellFoundedOn(StrictSubsetOrdering(S), FiniteSubsetsOf(S))
  BY FS_StrictSubsetOrderingWellFounded
<1>2. T \subseteq FiniteSubsetsOf(S)
  BY FS_Subset DEF FiniteSubsetsOf
<1>3. PICK x \in T : \A y \in T : ~ (<<y, x>> \in StrictSubsetOrdering(S))
  BY <1>1, <1>2, WFMin
<1>4. x \in Least(T)
  BY <1>3 DEF StrictSubsetOrdering, Least
<1>5. QED
  BY <1>4

\* A finite set of numbers has a largest, which is what Max gives.
LEMMA MaxIsLargest ==
  ASSUME NEW S \in SUBSET Nat, IsFiniteSet(S), S # {}
  PROVE  Backend!Max(S) \in S /\ \A x \in S : Backend!Max(S) >= x
<1>. DEFINE T == {{y \in S : y >= x} : x \in S}
<1>1. T \subseteq SUBSET S /\ T # {}
  OBVIOUS
<1>2. ASSUME NEW t \in T PROVE \E x \in S : t = {y \in S : y >= x}
  OBVIOUS
<1>3. ASSUME NEW x \in S PROVE {y \in S : y >= x} \in T
  OBVIOUS
<1>. HIDE DEF T
<1>4. Least(T) # {}
  BY <1>1, LeastExists
<1>5. PICK t \in T : \A y \in T : ~ (y \subseteq t /\ y # t)
  BY <1>4 DEF Least
<1>6. PICK x \in S : t = {y \in S : y >= x}
  BY <1>2
<1>7. ASSUME NEW y \in S PROVE x >= y
  <2>1. SUFFICES ASSUME y > x PROVE FALSE
    OBVIOUS
  <2>2. PICK u : u = {z \in S : z >= y}
    OBVIOUS
  <2>3. u \in T
    BY <1>3, <2>2
  <2>4. u \subseteq t /\ x \notin u /\ x \in t
    <3>1. x \in Nat /\ y \in Nat /\ \A z \in S : z \in Nat /\ (z >= y => z >= x)
      BY <2>1
    <3>2. ~ x >= y /\ x >= x
      BY <2>1, <3>1
    <3>3. QED
      BY <1>6, <2>2, <3>1, <3>2
  <2>5. QED
    BY <1>5, <2>3, <2>4
<1>8. QED
  BY <1>7 DEF Backend!Max

\* What a list maps to is a finite set.
LEMMA FiniteImage ==
  ASSUME NEW k \in Nat, NEW f
  PROVE  IsFiniteSet({f[i] : i \in 1 .. k})
<1>. DEFINE T == {f[i] : i \in 1 .. k}
            g == [i \in 1 .. k |-> f[i]]
<1>1. g \in Surjection(1 .. k, T)
  BY DEF Surjection
<1>2. IsFiniteSet(1 .. k)
  BY FS_Interval
<1>. HIDE DEF g, T
<1>3. QED
  BY <1>1, <1>2, FS_Surjection DEF T

\* The batch, entry by entry.
LEMMA Entries ==
  ASSUME TypeOK
  PROVE  /\ DOMAIN Batch = 1 .. Len(stepReqs) /\ Len(Batch) = Len(stepReqs) /\ Len(stepReqs) \in Nat
         /\ \A i \in 1 .. Len(stepReqs) :
              /\ stepReqs[i] \in Requests
              /\ Batch[i].n = FeedLen(stepReqs[i])
              /\ Batch[i].pos = len[stepReqs[i]]
              /\ Batch[i].table = table[stepReqs[i]]
         /\ Backend!Rows(Batch)
              = UNION {{i} \X (1 .. FeedLen(stepReqs[i])) : i \in 1 .. Len(stepReqs)}
<1>1. stepReqs \in Seq(Requests) /\ Len(stepReqs) \in Nat /\ DOMAIN stepReqs = 1 .. Len(stepReqs)
  BY LenProperties DEF TypeOK
<1>2. DOMAIN Batch = 1 .. Len(stepReqs) /\ Len(Batch) = Len(stepReqs)
  BY <1>1 DEF Batch
<1>3. ASSUME NEW i \in 1 .. Len(stepReqs)
      PROVE  /\ stepReqs[i] \in Requests
             /\ Batch[i].n = FeedLen(stepReqs[i])
             /\ Batch[i].pos = len[stepReqs[i]]
             /\ Batch[i].table = table[stepReqs[i]]
  BY <1>1 DEF Batch
<1>4. Backend!Rows(Batch) = UNION {{i} \X (1 .. FeedLen(stepReqs[i])) : i \in 1 .. Len(stepReqs)}
  BY <1>2, <1>3 DEF Backend!Rows
<1>5. QED
  BY <1>1, <1>2, <1>3, <1>4

\* The width of the batch is at least that of each table, and that of one.
LEMMA WidthBounds ==
  ASSUME TypeOK
  PROVE  LET w == Backend!Width(Batch)
         IN  /\ w \in Nat
             /\ \A i \in DOMAIN Batch : Len(Batch[i].table) <= w
             /\ w = 0 \/ \E i \in DOMAIN Batch : w = Len(Batch[i].table)
<1>. DEFINE k == Len(stepReqs)
            f == [i \in 1 .. k |-> Len(Batch[i].table)]
            T == {f[i] : i \in 1 .. k}
            S == T \cup {0}
<1>1. k \in Nat /\ DOMAIN Batch = 1 .. k
  BY Entries
<1>2. \A i \in 1 .. k : Len(Batch[i].table) \in Nat
  <2>1. table \in [Requests -> Seq(Blocks)]
    BY DEF TypeOK, KVTypeOK, Requests
  <2>2. ASSUME NEW i \in 1 .. k PROVE Len(Batch[i].table) \in Nat
    <3>1. Batch[i].table = table[stepReqs[i]] /\ stepReqs[i] \in Requests
      BY Entries
    <3>2. QED
      BY <2>1, <3>1, LenProperties
  <2>3. QED
    BY <2>2
<1>3. IsFiniteSet(T)
  <2>. HIDE DEF k, f
  <2>1. QED
    BY <1>1, FiniteImage DEF T
<1>4. S \in SUBSET Nat /\ S # {}
  BY <1>2
<1>5. IsFiniteSet(S)
  BY <1>3, FS_AddElement
<1>6. Backend!Width(Batch) = Backend!Max(S)
  <2>1. S = {Len(Batch[i].table) : i \in DOMAIN Batch} \cup {0}
    BY <1>1
  <2>2. QED
    BY <2>1 DEF Backend!Width
<1>. HIDE DEF S
<1>7. Backend!Max(S) \in S /\ \A x \in S : Backend!Max(S) >= x
  BY <1>4, <1>5, MaxIsLargest
<1>8. \A i \in 1 .. k : Len(Batch[i].table) \in S
  BY DEF S
<1>9. \A x \in S : x = 0 \/ \E i \in 1 .. k : x = Len(Batch[i].table)
  BY DEF S
<1>10. QED
  BY <1>1, <1>2, <1>4, <1>6, <1>7, <1>8, <1>9

LEMMA CoversBlocks == \A n, k \in Nat : n <= BlockSize * k => BlocksFor(n) <= k
BY KVAssumption DEF BlocksFor

\* What the loop has made of a batch is within the backend's limits.
LEMMA BatchFits ==
  ASSUME IndInv, LimitsInv, pc = "forward"
  PROVE  BatchWithinLimits
<1>. DEFINE k == Len(stepReqs)
            w == Backend!Width(Batch)
<1>1. /\ TypeOK /\ stepReqs \in Seq(Requests) /\ stepReqs # <<>> /\ skipped \in Seq(Requests)
      /\ MaxSeq \in Nat /\ BlockSize \in Nat /\ NumBlocks \in Nat
  BY KVAssumption DEF IndInv, TypeOK, LimitsInv
<1>2. k \in 1 .. 128
  <2>1. k \in Nat \ {0}
    BY <1>1, EmptySeq, LenProperties
  <2>2. Len(todo) + k <= maxBatch /\ Len(todo) \in Nat
    BY LenProperties DEF LimitsInv, SlotsKept, Forms, IndInv, TypeOK
  <2>3. maxBatch \in 1 .. 128
    BY SchedulerAssumption DEF maxBatch, Backend!MaxBatchSeqs
  <2>. HIDE DEF k
  <2>4. QED
    BY <2>1, <2>2, <2>3
<1>3. DOMAIN Batch = 1 .. k /\ Len(Batch) = k
  BY <1>1, Entries
<1>4. ASSUME NEW i \in 1 .. k
      PROVE  /\ Batch[i].n \in 1 .. MaxSeq /\ Batch[i].pos \in Nat
             /\ Batch[i].table \in Seq(Blocks) /\ Len(Batch[i].table) \in Nat
             /\ Backend!RoundUp(Batch[i].pos + Batch[i].n) \in Nat
             /\ Backend!RoundUp(Batch[i].pos + Batch[i].n) = Len(Batch[i].table)
  <2>. DEFINE r == stepReqs[i]
  <2>1. /\ r \in Requests /\ Batch[i].n = FeedLen(r) /\ Batch[i].pos = len[r]
        /\ Batch[i].table = table[r]
    BY <1>1, Entries
  <2>2. r \in Live
    <3>1. i \in DOMAIN stepReqs
      BY <1>1, LenProperties
    <3>2. r \in Range(stepReqs)
      BY <3>1 DEF Range
    <3>3. Range(Lists[5]) \subseteq Live
      BY DEF IndInv, ListsAreLive
    <3>4. QED
      BY <3>2, <3>3 DEF Lists
  <2>3. Covered(r, FeedLen(r))
    BY <1>1, LenProperties DEF IndInv, BatchCovered
  <2>. HIDE DEF r
  <2>4. FeedLen(r) \in 1 .. MaxSeq
    BY <2>2, FeedInRange
  <2>5. len[r] \in Nat /\ table[r] \in Seq(Blocks) /\ Len(table[r]) \in Nat
    BY <1>1, <2>1, LenProperties DEF TypeOK, KVTypeOK, Requests
  <2>6. len[r] + FeedLen(r) \in Nat
    BY <2>4, <2>5
  <2>7. BlocksFor(len[r] + FeedLen(r)) \in Nat
    BY <2>6, BlocksForNat
  <2>8. BlocksFor(len[r] + FeedLen(r)) <= Len(table[r])
    BY <2>3, <2>5, <2>6, CoversBlocks DEF Covered
  <2>9. Len(table[r]) <= BlocksFor(len[r] + FeedLen(r))
    BY <2>1 DEF LimitsInv, TablesFit
  <2>10. BlocksFor(len[r] + FeedLen(r)) = Len(table[r])
    BY <2>5, <2>7, <2>8, <2>9
  <2>11. Backend!RoundUp(Batch[i].pos + Batch[i].n) = BlocksFor(len[r] + FeedLen(r))
    BY <2>1 DEF Backend!RoundUp, BlocksFor
  <2>12. QED
    BY <2>1, <2>4, <2>5, <2>7, <2>10, <2>11
<1>5. /\ w \in Nat /\ \A i \in 1 .. k : Len(Batch[i].table) <= w
      /\ w = 0 \/ \E i \in 1 .. k : w = Len(Batch[i].table)
  BY <1>1, <1>3, WidthBounds
<1>6. Cardinality(Backend!Rows(Batch)) <= MaxSeq
  <2>1. /\ IsFiniteSet(Backend!Rows(Batch)) /\ budget \in Nat
        /\ Cardinality(Backend!Rows(Batch)) + budget = MaxSeq
    BY <1>1 DEF LimitsInv, BudgetSpent, Forms, TypeOK
  <2>2. Cardinality(Backend!Rows(Batch)) \in Nat
    BY <2>1, FS_CardinalityType
  <2>3. QED
    BY <1>1, <2>1, <2>2
<1>. HIDE DEF k, w
<1>7. ~ Backend!BadCount(Batch)
  BY <1>2, <1>3 DEF Backend!BadCount, Backend!MaxBatchSeqs
<1>8. ~ Backend!TooManyTokens(Batch)
  <2>1. Cardinality(Backend!Rows(Batch)) \in Nat
    BY FS_CardinalityType DEF LimitsInv, BudgetSpent, Forms
  <2>2. QED
    BY <1>1, <1>6, <2>1, SameCount DEF Backend!TooManyTokens
<1>9. ASSUME NEW i \in 1 .. k
      PROVE  Backend!OutOfRange(Batch[i]) \/ ~ Backend!BadSequence(Batch[i], w)
  <2>1. PICK e : e = Batch[i]
    OBVIOUS
  <2>2. /\ e.n \in 1 .. MaxSeq /\ e.pos \in Nat /\ e.table \in Seq(Blocks) /\ Len(e.table) \in Nat
        /\ Backend!RoundUp(e.pos + e.n) = Len(e.table) /\ Len(e.table) <= w
    BY <1>4, <1>5, <2>1
  <2>3. ~ Backend!NoTokens(e)
    BY <1>1, <2>2 DEF Backend!NoTokens
  <2>4. ~ Backend!RowTooShort(e, w)
    BY <1>5, <2>2 DEF Backend!RowTooShort
  <2>5. ~ Backend!BadBlock(e, w)
    <3>1. ASSUME NEW b \in 1 .. Len(e.table) PROVE Backend!Row(e, w)[b] \in Blocks
      <4>1. b \in 1 .. w /\ b <= Len(e.table)
        BY <1>5, <2>2
      <4>2. Backend!Row(e, w)[b] = e.table[b]
        BY <4>1 DEF Backend!Row
      <4>3. e.table[b] \in Blocks
        BY <2>2
      <4>4. QED
        BY <4>2, <4>3
    <3>2. QED
      BY <2>2, <3>1 DEF Backend!BadBlock, Blocks
  <2>6. QED
    BY <2>1, <2>3, <2>4, <2>5 DEF Backend!BadSequence
<1>10. ASSUME \A i \in 1 .. k : ~ Backend!OutOfRange(Batch[i])
       PROVE  ~ Backend!StagingFull(Batch)
  <2>1. BlocksFor(MaxSeq) \in Nat /\ Backend!RoundUp(MaxSeq) = BlocksFor(MaxSeq)
    BY <1>1, BlocksForNat DEF Backend!RoundUp, BlocksFor
  <2>2. ASSUME NEW i \in 1 .. k PROVE Len(Batch[i].table) <= BlocksFor(MaxSeq)
    <3>1. PICK x \in Nat : x = Batch[i].pos + Batch[i].n
      BY <1>4
    <3>2. x <= MaxSeq
      <4>1. ~ (Batch[i].pos + Batch[i].n > MaxSeq)
        BY <1>10 DEF Backend!OutOfRange
      <4>2. QED
        BY <1>1, <3>1, <4>1
    <3>3. BlocksFor(x) <= BlocksFor(MaxSeq)
      BY <1>1, <3>2, BlocksForMonotone
    <3>4. Len(Batch[i].table) = BlocksFor(x)
      BY <1>4, <3>1 DEF Backend!RoundUp, BlocksFor
    <3>5. QED
      BY <3>3, <3>4
  <2>3. w <= BlocksFor(MaxSeq)
    BY <1>5, <2>1, <2>2
  <2>4. PICK b \in Nat : b = BlocksFor(MaxSeq)
    BY <2>1
  <2>5. k * w <= 128 * b
    <3>1. k \in Nat /\ w \in Nat /\ k <= 128 /\ w <= b
      BY <1>2, <1>5, <2>3, <2>4
    <3>2. k * w <= 128 * w /\ 128 * w <= 128 * b
      BY <3>1
    <3>3. QED
      BY <3>1, <3>2
  <2>6. Backend!Width(Batch) = w /\ Len(Batch) = k
    BY <1>3 DEF w
  <2>7. ~ (k * w > 128 * b)
    BY <1>2, <1>5, <2>4, <2>5
  <2>8. QED
    BY <2>1, <2>4, <2>6, <2>7 DEF Backend!StagingFull, Backend!MaxBatchSeqs
<1>11. QED
  BY <1>3, <1>7, <1>8, <1>9, <1>10 DEF BatchWithinLimits, w

\* Nothing a batch or a table is made of has changed.
LEMMA LimitsFrame ==
  ASSUME LimitsInv, UNCHANGED <<table, len, stepReqs, prefilled>>,
         SlotsKept', pc' = "forward" => pc = "forward",
         Forms' => Forms /\ budget' = budget
  PROVE  LimitsInv'
<1>1. Backend!Rows(Batch)' = Backend!Rows(Batch)
  BY DEF Backend!Rows, Batch, FeedLen
<1>2. BudgetSpent'
  BY <1>1 DEF LimitsInv, BudgetSpent
<1>3. TablesFit'
  BY DEF LimitsInv, TablesFit, FeedLen
<1>4. QED
  BY <1>2, <1>3 DEF LimitsInv

\* The loop works on other requests, or on none.
LEMMA LimitsOther ==
  ASSUME IndInv, BatchInv, LimitsInv,
         \/ Stop \/ Halted \/ UNCHANGED vars \/ \E r \in Requests : Submit(r)
         \/ IdleReceive \/ DrainReceive \/ IdleStop \/ DrainStop
         \/ FormOverBudget \/ FormEmpty \/ FormDone
         \/ CommitDone \/ FailDone
  PROVE  LimitsInv'
<1>1. /\ TypeOK /\ running \in Seq(Requests) /\ todo \in Seq(Requests)
      /\ stepReqs \in Seq(Requests) /\ nxt \in Seq(Requests) /\ skipped = <<>>
      /\ maxBatch \in Nat \ {0}
  BY MaxBatchPositive DEF IndInv, TypeOK, BatchInv
<1>2. Len(running) \in Nat /\ Len(todo) \in Nat /\ Len(stepReqs) \in Nat /\ Len(nxt) \in Nat
  BY <1>1, LenProperties
<1>3. CASE Stop \/ Halted \/ UNCHANGED vars \/ \E r \in Requests : Submit(r)
  <2>1. UNCHANGED <<table, len, stepReqs, prefilled, running, todo, nxt, pc, after, budget>>
    BY <1>3 DEF Stop, Halted, vars, Submit, SubmitReject, SubmitSend, SubmitReturn, SubmitStopped,
       loopVars, kvVars, lists, step, request
  <2>2. SlotsKept' /\ (Forms' => Forms)
    BY <2>1 DEF LimitsInv, SlotsKept, Forms
  <2>3. QED
    BY <2>1, <2>2, LimitsFrame
<1>4. CASE IdleReceive \/ DrainReceive \/ IdleStop
  <2>1. /\ UNCHANGED <<table, len, stepReqs, prefilled, running, todo, nxt, budget>>
        /\ pc' \in {"drain", "halted"}
    BY <1>4 DEF IdleReceive, DrainReceive, Receive, IdleStop, kvVars, lists, step, request
  <2>2. SlotsKept' /\ ~ Forms'
    BY <2>1 DEF LimitsInv, SlotsKept, Forms
  <2>3. QED
    BY <2>1, <2>2, LimitsFrame
<1>5. CASE DrainStop
  <2>1. /\ UNCHANGED <<table, len, stepReqs, prefilled>>
        /\ running' = <<>> /\ pc' = "failing" /\ after' = "halted"
    BY <1>5 DEF DrainStop, StartFailing, kvVars, request
  <2>2. SlotsKept' /\ ~ Forms'
    BY <1>1, <2>1 DEF SlotsKept, Forms
  <2>3. QED
    BY <2>1, <2>2, LimitsFrame
<1>6. CASE FormOverBudget
  <2>1. PICK r \in Requests :
          /\ Forming(r)
          /\ UNCHANGED <<table, len, stepReqs, prefilled, running, nxt, pc, after, budget>>
    BY <1>6 DEF FormOverBudget, kvVars, step, request
  <2>2. Len(todo') \in Nat /\ Len(todo') = Len(todo) - 1
    BY <1>1, <1>2, <2>1, HeadTailProperties, LenProperties DEF Forming
  <2>3. SlotsKept' /\ (Forms' => Forms)
    BY <1>1, <1>2, <2>1, <2>2 DEF LimitsInv, SlotsKept, Forms, Forming
  <2>4. QED
    BY <2>1, <2>3, LimitsFrame
<1>7. CASE FormEmpty
  <2>1. /\ UNCHANGED <<table, len, stepReqs, prefilled>>
        /\ running' = <<>> /\ pc' \in {"idle", "drain"}
    BY <1>1, <1>7 DEF FormEmpty, LoopTop, kvVars, request
  <2>2. SlotsKept' /\ ~ Forms'
    BY <1>1, <2>1 DEF SlotsKept, Forms
  <2>3. QED
    BY <2>1, <2>2, LimitsFrame
<1>8. CASE FormDone
  <2>1. /\ UNCHANGED <<table, len, stepReqs, prefilled, running, todo, budget>>
        /\ pc = "form" /\ pc' = "forward" /\ stepReqs # <<>>
    BY <1>8 DEF FormDone, kvVars, lists, step, request
  <2>2. SlotsKept' /\ Forms
    BY <2>1 DEF LimitsInv, SlotsKept, Forms
  <2>3. Backend!Rows(Batch)' = Backend!Rows(Batch)
    BY <2>1 DEF Backend!Rows, Batch, FeedLen
  <2>4. BudgetSpent'
    BY <2>1, <2>2, <2>3 DEF LimitsInv, BudgetSpent
  <2>5. TablesFit'
    BY <2>1 DEF LimitsInv, TablesFit, FeedLen
  <2>6. QED
    BY <2>1, <2>2, <2>4, <2>5 DEF LimitsInv
<1>9. CASE CommitDone
  <2>1. /\ UNCHANGED <<table, len, stepReqs, prefilled>> /\ pc = "commit" /\ stepReqs = <<>>
        /\ running' = nxt /\ pc' \in {"idle", "drain"}
    BY <1>9 DEF CommitDone, LoopTop, kvVars, request
  <2>2. Len(nxt) <= maxBatch
    BY <1>1, <1>2, <2>1 DEF LimitsInv, SlotsKept
  <2>3. SlotsKept' /\ ~ Forms'
    BY <2>1, <2>2 DEF SlotsKept, Forms
  <2>4. QED
    BY <2>1, <2>3, LimitsFrame
<1>10. CASE FailDone
  <2>1. /\ UNCHANGED <<table, len, stepReqs, prefilled, running, todo, nxt, budget>>
        /\ pc = "failing"
        /\ \/ after = "form" /\ pc' = "form"
           \/ pc' \in {"idle", "drain", "halted"}
    BY <1>1, <1>10 DEF FailDone, LoopTop, kvVars, lists, step, request, TypeOK
  <2>2. SlotsKept' /\ (Forms' => Forms) /\ pc' # "forward"
    BY <2>1 DEF LimitsInv, SlotsKept, Forms
  <2>3. QED
    BY <2>1, <2>2, LimitsFrame
<1>11. QED
  BY <1>3, <1>4, <1>5, <1>6, <1>7, <1>8, <1>9, <1>10

LEMMA LimitsAdmit ==
  ASSUME IndInv, LimitsInv, Admit
  PROVE  LimitsInv'
<1>1. /\ UNCHANGED <<table, len, prefilled>> /\ running' = <<>> /\ stepReqs' = <<>>
      /\ budget' = MaxSeq /\ pc = "drain" /\ pc' = "form" /\ running \in Seq(Requests)
      /\ MaxSeq \in Nat /\ maxBatch \in Nat
  BY KVAssumption, MaxBatchPositive DEF Admit, kvVars, request, IndInv, TypeOK
<1>2. SlotsKept'
  <2>1. PICK p, q \in Seq(Requests) :
          /\ todo' = running \o p
          /\ Len(running) <= maxBatch => Len(running) + Len(p) <= maxBatch
    BY AdmitCuts
  <2>2. Len(todo') = Len(running) + Len(p)
    BY <1>1, <2>1, ConcatProperties
  <2>3. Len(todo') <= maxBatch /\ Len(todo') \in Nat
    BY <1>1, <2>1, <2>2, LenProperties DEF LimitsInv, SlotsKept
  <2>4. QED
    BY <1>1, <2>3 DEF SlotsKept
<1>3. BudgetSpent'
  <2>1. Backend!Rows(Batch)' = {}
    BY <1>1 DEF Backend!Rows, Batch
  <2>2. IsFiniteSet({}) /\ Cardinality({}) = 0
    BY FS_EmptySet
  <2>3. QED
    BY <1>1, <2>1, <2>2 DEF BudgetSpent
<1>4. TablesFit'
  BY <1>1 DEF LimitsInv, TablesFit, FeedLen
<1>5. QED
  BY <1>1, <1>2, <1>3, <1>4 DEF LimitsInv

\* A Reserve takes no more than what is missing.
LEMMA ReserveFits ==
  ASSUME TypeOK, TablesFit, NEW r \in Requests,
         ReserveOk(r, FeedLen(r)) \/ ReserveShort(r, FeedLen(r)), prefilled' = prefilled
  PROVE  TablesFit'
<1>1. /\ KVTypeOK /\ r \in Seqs /\ FeedLen(r) \in Nat /\ Missing(r, FeedLen(r)) \in Nat
      /\ Len(free) \in Nat /\ len[r] \in Nat /\ Len(table[r]) \in Nat
      /\ table \in [Seqs -> Seq(Blocks)]
  BY FeedLenNat, MissingNat, LenProperties DEF TypeOK, KVTypeOK, Requests
<1>2. PICK k \in Nat : k <= Len(free) /\ k <= Missing(r, FeedLen(r)) /\ Take(r, k)
  <2>1. CASE ReserveOk(r, FeedLen(r))
    BY <1>1, <2>1 DEF ReserveOk
  <2>2. CASE ReserveShort(r, FeedLen(r))
    BY <1>1, <2>2 DEF ReserveShort
  <2>3. QED
    BY <2>1, <2>2
<1>3. PICK need \in Nat : need = BlocksFor(len[r] + FeedLen(r))
  <2>1. len[r] + FeedLen(r) \in Nat
    BY <1>1
  <2>2. QED
    BY <2>1, BlocksForNat
<1>4. Len(table[r]) <= need
  BY <1>3 DEF TablesFit
<1>5. Len(table[r]) + k <= need
  <2>1. Missing(r, FeedLen(r)) = IF need > Len(table[r]) THEN need - Len(table[r]) ELSE 0
    BY <1>3 DEF Missing
  <2>2. QED
    BY <1>1, <1>2, <1>4, <2>1
<1>6. Popped(k) \in Seq(Blocks) /\ Len(Popped(k)) = k
  BY <1>1, <1>2, PoppedProperties
<1>7. table'[r] = table[r] \o Popped(k) /\ \A x \in Seqs \ {r} : table'[x] = table[x]
  BY <1>1, <1>2 DEF Take
<1>8. Len(table'[r]) = Len(table[r]) + k
  <2>1. table[r] \in Seq(Blocks)
    BY <1>1
  <2>2. Len(table[r] \o Popped(k)) = Len(table[r]) + Len(Popped(k))
    BY <1>6, <2>1, ConcatProperties
  <2>3. QED
    BY <1>6, <1>7, <2>2
<1>9. len' = len /\ \A x \in Requests : FeedLen(x)' = FeedLen(x)
  BY <1>2 DEF Take, FeedLen
<1>10. Len(table'[r]) <= BlocksFor(len'[r] + FeedLen(r)')
  BY <1>3, <1>5, <1>8, <1>9
<1>11. ASSUME NEW x \in Requests \ {r}
       PROVE  Len(table'[x]) <= BlocksFor(len'[x] + FeedLen(x)')
  BY <1>7, <1>9 DEF TablesFit, Requests
<1>12. QED
  BY <1>10, <1>11 DEF TablesFit

LEMMA LimitsReserve ==
  ASSUME IndInv, LimitsInv, FormJoin \/ FormWait \/ FormFail
  PROVE  LimitsInv'
<1>1. PICK r \in Requests :
        /\ Forming(r) /\ Fits(r)
        /\ ReserveOk(r, FeedLen(r)) \/ ReserveShort(r, FeedLen(r))
        /\ UNCHANGED <<prefilled, running, nxt>>
        /\ \/ /\ stepReqs' = Append(stepReqs, r) /\ budget' = budget - FeedLen(r)
              /\ pc' = "form"
           \/ /\ UNCHANGED <<stepReqs, budget>>
              /\ pc' = "form" \/ (pc' = "failing" /\ after' = "form")
  BY DEF FormJoin, FormWait, FormFail, Forming, StartFailing, request, step
<1>2. /\ TypeOK /\ stepReqs \in Seq(Requests) /\ todo \in Seq(Requests) /\ budget \in Nat
      /\ MaxSeq \in Nat /\ maxBatch \in Nat /\ Len(stepReqs) \in Nat /\ Len(todo) \in Nat
      /\ FeedLen(r) \in Nat
  BY KVAssumption, MaxBatchPositive, LenProperties, FeedLenNat DEF IndInv, TypeOK
<1>3. TablesFit'
  BY <1>1, <1>2, ReserveFits DEF LimitsInv
<1>4. len' = len /\ Forms /\ \A x \in Requests : FeedLen(x)' = FeedLen(x)
  <2>1. KVTypeOK /\ r \in Seqs
    BY DEF IndInv, TypeOK, Requests
  <2>2. len' = len
    BY <1>1, <1>2, <2>1, ReserveFrame
  <2>3. QED
    BY <1>1, <2>2 DEF Forming, Forms, FeedLen
<1>5. Len(todo') \in Nat /\ Len(todo') + 1 = Len(todo)
  BY <1>1, <1>2, EmptySeq, HeadTailProperties, LenProperties DEF Forming
<1>6. Len(todo) + Len(stepReqs) <= maxBatch /\ Len(running) <= maxBatch
  BY <1>4 DEF LimitsInv, SlotsKept
<1>7. CASE /\ UNCHANGED <<stepReqs, budget>>
           /\ pc' = "form" \/ (pc' = "failing" /\ after' = "form")
  <2>1. SlotsKept'
    BY <1>1, <1>2, <1>5, <1>6, <1>7 DEF SlotsKept, Forms
  <2>2. Backend!Rows(Batch)' = Backend!Rows(Batch)
    BY <1>1, <1>7 DEF Backend!Rows, Batch, FeedLen
  <2>3. BudgetSpent'
    BY <1>4, <1>7, <2>2 DEF LimitsInv, BudgetSpent
  <2>4. QED
    BY <1>3, <1>7, <2>1, <2>3 DEF LimitsInv
<1>8. CASE /\ stepReqs' = Append(stepReqs, r) /\ budget' = budget - FeedLen(r) /\ pc' = "form"
  <2>. DEFINE k == Len(stepReqs)
              n == FeedLen(r)
  <2>1. /\ stepReqs' \in Seq(Requests) /\ Len(stepReqs') = k + 1
        /\ DOMAIN stepReqs' = 1 .. k + 1
        /\ \A i \in 1 .. k : stepReqs'[i] = stepReqs[i]
        /\ stepReqs'[k + 1] = r
    <3>1. /\ stepReqs' \in Seq(Requests) /\ Len(stepReqs') = k + 1
          /\ \A i \in 1 .. k : stepReqs'[i] = stepReqs[i]
          /\ stepReqs'[k + 1] = r
      BY <1>2, <1>8, AppendProperties
    <3>2. QED
      BY <3>1, LenProperties
  <2>2. SlotsKept'
    BY <1>1, <1>2, <1>5, <1>6, <1>8, <2>1 DEF SlotsKept, Forms
  <2>3. Backend!Rows(Batch)' = Backend!Rows(Batch) \cup ({k + 1} \X (1 .. n))
    <3>1. Backend!Rows(Batch) = UNION {{i} \X (1 .. FeedLen(stepReqs[i])) : i \in 1 .. k}
      BY <1>2, Entries
    <3>2. Backend!Rows(Batch)' = UNION {{i} \X (1 .. FeedLen(stepReqs'[i])) : i \in 1 .. k + 1}
      BY <1>1, <2>1 DEF Backend!Rows, Batch, FeedLen
    <3>3. ASSUME NEW i \in 1 .. k + 1
          PROVE  stepReqs'[i] = IF i \in 1 .. k THEN stepReqs[i] ELSE r
      BY <1>2, <2>1
    <3>4. 1 .. k + 1 = 1 .. k \cup {k + 1} /\ k + 1 \notin 1 .. k
      BY <1>2
    <3>. HIDE DEF k, n
    <3>5. QED
      BY <3>1, <3>2, <3>3, <3>4 DEF n
  <2>4. \A j \in 1 .. n : <<k + 1, j>> \notin Backend!Rows(Batch)
    <3>1. Backend!Rows(Batch) = UNION {{i} \X (1 .. FeedLen(stepReqs[i])) : i \in 1 .. k}
      BY <1>2, Entries
    <3>2. k + 1 \notin 1 .. k
      BY <1>2
    <3>. HIDE DEF k, n
    <3>3. QED
      BY <3>1, <3>2
  <2>5. /\ IsFiniteSet(Backend!Rows(Batch))
        /\ Cardinality(Backend!Rows(Batch)) + budget = MaxSeq
    BY <1>4 DEF LimitsInv, BudgetSpent
  <2>6. n \in Nat /\ n <= budget /\ budget' = budget - n
    BY <1>1, <1>2, <1>8 DEF Fits
  <2>. HIDE DEF k, n
  <2>7. /\ IsFiniteSet(Backend!Rows(Batch)') /\ Cardinality(Backend!Rows(Batch)) \in Nat
        /\ Cardinality(Backend!Rows(Batch)') = Cardinality(Backend!Rows(Batch)) + n
    <3>1. PICK S : S = Backend!Rows(Batch)
      OBVIOUS
    <3>2. /\ IsFiniteSet(S \cup ({k + 1} \X (1 .. n))) /\ Cardinality(S) \in Nat
          /\ Cardinality(S \cup ({k + 1} \X (1 .. n))) = Cardinality(S) + n
      BY <2>4, <2>5, <2>6, <3>1, RowMore
    <3>3. QED
      BY <2>3, <3>1, <3>2
  <2>8. Cardinality(Backend!Rows(Batch)') + budget' = MaxSeq
    BY <1>2, <2>5, <2>6, <2>7
  <2>9. BudgetSpent'
    BY <2>7, <2>8 DEF BudgetSpent
  <2>10. QED
    BY <1>3, <1>8, <2>2, <2>9 DEF LimitsInv
<1>9. QED
  BY <1>1, <1>7, <1>8

LEMMA LimitsForward ==
  ASSUME IndInv, BatchInv, LimitsInv, Forward
  PROVE  LimitsInv'
<1>1. /\ UNCHANGED <<table, len, prefilled, running>> /\ pc = "forward" /\ skipped = <<>>
      /\ todo = <<>> /\ Len(todo) = 0 /\ Len(stepReqs) \in Nat /\ nxt = <<>>
  BY LenProperties DEF IndInv, TypeOK, ListsOfPhase, BatchInv, Forward, ForwardRefused, ForwardFault,
     ForwardOk, FailBatch, kvVars, request
<1>2. Len(stepReqs) <= maxBatch /\ maxBatch \in Nat
  BY <1>1, MaxBatchPositive DEF LimitsInv, SlotsKept, Forms
<1>3. \/ pc' = "failing" /\ after' = "loop"
      \/ pc' = "commit" /\ nxt' = <<>> /\ stepReqs' = stepReqs
  BY <1>1 DEF Forward, ForwardRefused, ForwardFault, ForwardOk, FailBatch, StartFailing
<1>4. SlotsKept' /\ ~ Forms'
  BY <1>1, <1>2, <1>3 DEF LimitsInv, SlotsKept, Forms
<1>5. TablesFit'
  BY <1>1 DEF LimitsInv, TablesFit, FeedLen
<1>6. QED
  BY <1>3, <1>4, <1>5 DEF LimitsInv, BudgetSpent

\* A request whose blocks go back has a table that fits.
LEMMA ReleaseFits ==
  ASSUME TypeOK, TablesFit, TypeOK', NEW r \in Requests, Release(r),
         \A x \in Requests \ {r} : prefilled'[x] = prefilled[x]
  PROVE  TablesFit'
<1>1. /\ table'[r] = <<>> /\ len'[r] = 0
      /\ \A x \in Requests \ {r} : table'[x] = table[x] /\ len'[x] = len[x]
  BY DEF Release, TypeOK, KVTypeOK, Requests
<1>2. FeedLen(r)' \in Nat
  BY SchedulerAssumption DEF TypeOK, FeedLen
<1>3. BlocksFor(len'[r] + FeedLen(r)') \in Nat
  <2>1. PICK n \in Nat : n = len'[r] + FeedLen(r)'
    BY <1>1, <1>2
  <2>2. QED
    BY <2>1, BlocksForNat
<1>4. Len(table'[r]) <= BlocksFor(len'[r] + FeedLen(r)')
  BY <1>1, <1>3
<1>5. ASSUME NEW x \in Requests \ {r}
      PROVE  Len(table'[x]) <= BlocksFor(len'[x] + FeedLen(x)')
  BY <1>1 DEF TablesFit, FeedLen
<1>6. QED
  BY <1>4, <1>5 DEF TablesFit

LEMMA LimitsCommit ==
  ASSUME IndInv, LimitsInv, CommitOne
  PROVE  LimitsInv'
<1>1. PICK r \in Requests, tok \in Nat \cup {Wrong} : CommitsOne(r, tok)
  BY CommitOneFacts
<1>2. TypeOK /\ TypeOK'
  BY CommitOneTypes DEF IndInv
<1>3. /\ \A x \in Requests \ {r} : prefilled'[x] = prefilled[x]
      /\ prefilled'[r]
  BY <1>1, <1>2 DEF CommitsOne, TypeOK
<1>4. TablesFit'
  <2>1. CASE Ends(r, tok)
    <3>1. Release(r)
      BY <1>1, <2>1 DEF CommitsOne, Settle
    <3>2. QED
      BY <1>2, <1>3, <3>1, ReleaseFits DEF LimitsInv
  <2>2. CASE ~ Ends(r, tok)
    <3>1. PICK n \in Nat : n = FeedLen(r)
      BY <1>2, FeedLenNat
    <3>2. /\ table' = table /\ len[r] \in Nat /\ len'[r] = len[r] + n
          /\ \A x \in Requests \ {r} : len'[x] = len[x]
      BY <1>1, <1>2, <2>2, <3>1 DEF CommitsOne, Settle, Commit, TypeOK, KVTypeOK, Requests
    <3>3. Len(table'[r]) <= BlocksFor(len'[r] + FeedLen(r)')
      <4>1. Len(table[r]) <= BlocksFor(len[r] + n)
        BY <3>1 DEF LimitsInv, TablesFit
      <4>2. PICK a \in Nat, b \in Nat : a = len[r] + n /\ b = a + 1
        BY <3>2
      <4>3. BlocksFor(a) <= BlocksFor(b) /\ BlocksFor(a) \in Nat /\ BlocksFor(b) \in Nat
        BY <4>2, BlocksForMonotone, BlocksForNat
      <4>4. FeedLen(r)' = 1
        BY <1>3 DEF FeedLen
      <4>5. len'[r] + FeedLen(r)' = b
        BY <3>2, <4>2, <4>4
      <4>6. Len(table[r]) \in Nat
        BY <1>2, LenProperties DEF TypeOK, KVTypeOK, Requests
      <4>7. QED
        BY <3>2, <4>1, <4>2, <4>3, <4>5, <4>6
    <3>4. ASSUME NEW x \in Requests \ {r}
          PROVE  Len(table'[x]) <= BlocksFor(len'[x] + FeedLen(x)')
      BY <1>3, <3>2 DEF LimitsInv, TablesFit, FeedLen
    <3>5. QED
      BY <3>3, <3>4 DEF TablesFit
  <2>3. QED
    BY <2>1, <2>2
<1>5. SlotsKept'
  <2>1. /\ stepReqs \in Seq(Requests) /\ stepReqs # <<>> /\ nxt \in Seq(Requests)
        /\ pc = "commit" /\ pc' = "commit" /\ running' = running /\ stepReqs' = Tail(stepReqs)
    BY <1>1, <1>2 DEF CommitsOne, CommitOne, TypeOK
  <2>2. Len(stepReqs) \in Nat \ {0} /\ Len(stepReqs') = Len(stepReqs) - 1 /\ Len(nxt) \in Nat
    BY <2>1, EmptySeq, LenProperties, HeadTailProperties
  <2>3. Len(nxt') \in {Len(nxt), Len(nxt) + 1}
    BY <1>1, <2>1, AppendProperties DEF CommitsOne
  <2>4. Len(stepReqs) + Len(nxt) <= maxBatch /\ Len(running) <= maxBatch /\ maxBatch \in Nat
    BY <2>1, MaxBatchPositive DEF LimitsInv, SlotsKept
  <2>5. Len(stepReqs') + Len(nxt') <= maxBatch
    BY <2>2, <2>3, <2>4
  <2>6. QED
    BY <2>1, <2>4, <2>5 DEF SlotsKept, Forms
<1>6. pc' = "commit"
  BY <1>1 DEF CommitsOne
<1>7. QED
  BY <1>4, <1>5, <1>6 DEF LimitsInv, BudgetSpent, Forms

LEMMA LimitsFail ==
  ASSUME IndInv, LimitsInv, FailOne
  PROVE  LimitsInv'
<1>1. PICK r \in Requests : FailsOne(r)
  BY FailOneFacts
<1>2. UNCHANGED <<prefilled, running, todo, stepReqs, nxt, pc, budget, after>>
  BY <1>1 DEF FailsOne, step
<1>3. TypeOK /\ TypeOK'
  BY FailOneTypes DEF IndInv
<1>4. TablesFit'
  BY <1>1, <1>2, <1>3, ReleaseFits DEF FailsOne, LimitsInv
<1>5. SlotsKept' /\ (Forms' <=> Forms)
  BY <1>2 DEF LimitsInv, SlotsKept, Forms
<1>6. Backend!Rows(Batch)' = Backend!Rows(Batch)
  BY <1>2 DEF Backend!Rows, Batch, FeedLen
<1>7. BudgetSpent'
  BY <1>2, <1>5, <1>6 DEF LimitsInv, BudgetSpent
<1>8. QED
  BY <1>2, <1>4, <1>5, <1>7 DEF LimitsInv

LEMMA LimitsNext == IndInv /\ BatchInv /\ LimitsInv /\ [Next]_vars => LimitsInv'
BY LimitsOther, LimitsAdmit, LimitsReserve, LimitsForward, LimitsCommit, LimitsFail
   DEF Next, Loop, Form

LEMMA LimitsInit == Init => LimitsInv
<1>. SUFFICES ASSUME Init PROVE LimitsInv
  OBVIOUS
<1>1. /\ pc = "idle" /\ running = <<>> /\ table = [r \in Requests |-> <<>>]
      /\ len = [r \in Requests |-> 0] /\ prefilled = [r \in Requests |-> FALSE]
  BY DEF Init, KVInit, Requests
<1>2. SlotsKept /\ ~ Forms
  BY <1>1, MaxBatchPositive DEF SlotsKept, Forms
<1>3. ASSUME NEW r \in Requests PROVE Len(table[r]) <= BlocksFor(len[r] + FeedLen(r))
  <2>1. PICK n \in Nat : n = len[r] + FeedLen(r)
    BY <1>1, SchedulerAssumption DEF FeedLen
  <2>2. BlocksFor(n) \in Nat
    BY <2>1, BlocksForNat
  <2>3. QED
    BY <1>1, <2>1, <2>2
<1>4. QED
  BY <1>1, <1>2, <1>3 DEF LimitsInv, BudgetSpent, TablesFit

\* In every run, the batch the loop forms is within every limit the backend
\* checks, but for the range of a sequence.
THEOREM BatchesFit == Spec => []BatchWithinLimits
<1>1. IndInv /\ LimitsInv => BatchWithinLimits
  <2>1. pc # "forward" => BatchWithinLimits
    BY DEF BatchWithinLimits
  <2>2. QED
    BY <2>1, BatchFits
<1>2. QED
  BY Inductive, BatchInvInit, BatchInvNext, LimitsInit, LimitsNext, <1>1, PTL DEF Spec

-----------------------------------------------------------------------------
(* The cells of the pool. *)

\* The block and the offset of a position.
LEMMA Position ==
  \A p \in Nat : /\ p \div BlockSize \in Nat /\ p % BlockSize \in 0 .. BlockSize - 1
                 /\ p = BlockSize * (p \div BlockSize) + (p % BlockSize)
BY KVAssumption

\* A position that n blocks cover lies in one of them.
LEMMA PositionInTable ==
  \A p, n \in Nat : p < BlockSize * n => (p \div BlockSize) + 1 \in 1 .. n
<1>. SUFFICES ASSUME NEW p \in Nat, NEW n \in Nat, p < BlockSize * n
              PROVE  (p \div BlockSize) + 1 \in 1 .. n
  OBVIOUS
<1>. DEFINE d == p \div BlockSize
<1>1. d \in Nat /\ BlockSize * d <= p
  BY Position, KVAssumption
<1>. HIDE DEF d
<1>2. ASSUME d >= n PROVE FALSE
  <2>1. BlockSize * n <= BlockSize * d
    BY <1>1, <1>2, CoverGrows
  <2>. DEFINE x == BlockSize * n
              y == BlockSize * d
  <2>2. x \in Nat /\ y \in Nat /\ x <= y /\ y <= p /\ p < x
    BY <1>1, <2>1, KVAssumption
  <2>. HIDE DEF x, y
  <2>3. QED
    BY <2>2
<1>3. d + 1 \in 1 .. n
  BY <1>1, <1>2
<1>4. QED
  BY <1>3 DEF d

\* No two covered positions, of one request or of two, share a cell.
LEMMA CellsApart ==
  ASSUME KVInv, NEW r \in Requests, NEW s \in Requests, NEW p \in Nat, NEW q \in Nat,
         p < BlockSize * Len(table[r]), q < BlockSize * Len(table[s]), Cell(r, p) = Cell(s, q)
  PROVE  r = s /\ p = q
<1>. DEFINE i == (p \div BlockSize) + 1
            j == (q \div BlockSize) + 1
<1>1. table[r] \in Seq(Blocks) /\ table[s] \in Seq(Blocks) /\ r \in Seqs /\ s \in Seqs
  BY DEF KVInv, KVTypeOK, Requests
<1>2. /\ Len(table[r]) \in Nat /\ DOMAIN table[r] = 1 .. Len(table[r])
      /\ Len(table[s]) \in Nat /\ DOMAIN table[s] = 1 .. Len(table[s])
  BY <1>1, LenProperties
<1>3. i \in DOMAIN table[r] /\ j \in DOMAIN table[s]
  BY <1>2, PositionInTable
<1>4. table[r][i] = table[s][j] /\ p % BlockSize = q % BlockSize
  BY DEF Cell
<1>5. r = s
  <2>1. table[r][i] \in Range(table[r]) /\ table[r][i] \in Range(table[s])
    BY <1>3, <1>4 DEF Range
  <2>2. QED
    BY <1>1, <2>1 DEF KVInv, BlocksPartitioned, HeldByOne
<1>6. i = j
  <2>. HIDE DEF i, j
  <2>1. IsInjective(table[r])
    BY <1>1 DEF KVInv, BlocksPartitioned, HeldOnce
  <2>2. QED
    BY <1>3, <1>4, <1>5, <2>1 DEF IsInjective
<1>7. p \div BlockSize = q \div BlockSize
  BY <1>6, Position
<1>8. p = q
  BY <1>4, <1>7, Position
<1>9. QED
  BY <1>5, <1>8

\* A table that grows leaves the cell of a covered position where it is.
LEMMA CellStays ==
  ASSUME KVTypeOK, NEW r \in Requests, NEW p \in Nat, p < BlockSize * Len(table[r]),
         \A i \in DOMAIN table[r] : table'[r][i] = table[r][i]
  PROVE  Cell(r, p)' = Cell(r, p)
<1>1. table[r] \in Seq(Blocks)
  BY DEF KVTypeOK, Requests
<1>2. (p \div BlockSize) + 1 \in DOMAIN table[r]
  BY <1>1, LenProperties, PositionInTable
<1>3. QED
  BY <1>2 DEF Cell
-----------------------------------------------------------------------------
(* What a forward writes. *)

\* r has a position p: it is written, or it is one the batch writes.
Has(r, p) ==
  /\ r \in Requests /\ p \in Nat
  /\ p < len[r] \/ (r \in Range(stepReqs) /\ p < len[r] + FeedLen(r))

LEMMA FedPositions ==
  ASSUME IndInv, NEW x \in Fed
  PROVE  \E s \in Range(stepReqs), q \in Nat :
           x = <<s, q>> /\ len[s] <= q /\ q < len[s] + FeedLen(s) /\ Has(s, q)
<1>1. PICK s \in Range(stepReqs) : x \in {s} \X (len[s] .. len[s] + FeedLen(s) - 1)
  BY DEF Fed, ToSet, Range
<1>2. PICK q \in len[s] .. len[s] + FeedLen(s) - 1 : x = <<s, q>>
  BY <1>1
<1>3. s \in Requests /\ len[s] \in Nat /\ FeedLen(s) \in Nat
  <2>1. s \in Requests
    BY <1>1 DEF IndInv, TypeOK, Range
  <2>2. QED
    BY <2>1, FeedLenNat DEF IndInv, TypeOK, KVTypeOK, Requests
<1>4. q \in Nat /\ len[s] <= q /\ q < len[s] + FeedLen(s)
  BY <1>2, <1>3
<1>5. QED
  BY <1>1, <1>2, <1>3, <1>4 DEF Has

LEMMA NewIsFed ==
  ASSUME IndInv, NEW r \in Requests, NEW p \in Nat, Has(r, p), ~ (p < len[r])
  PROVE  <<r, p>> \in Fed
<1>1. r \in Range(stepReqs) /\ len[r] \in Nat /\ FeedLen(r) \in Nat /\ p < len[r] + FeedLen(r)
  BY FeedLenNat DEF Has, IndInv, TypeOK, KVTypeOK, Requests
<1>2. p \in len[r] .. len[r] + FeedLen(r) - 1
  BY <1>1
<1>3. QED
  BY <1>1, <1>2 DEF Fed, ToSet, Range

\* Every such position is covered by its request's table.
LEMMA HasIsCovered ==
  ASSUME IndInv, WrittenIsCovered, NEW r, NEW p, Has(r, p)
  PROVE  p < BlockSize * Len(table[r])
<1>1. r \in Requests /\ r \in Seqs /\ p \in Nat /\ table[r] \in Seq(Blocks) /\ len[r] \in Nat
  BY DEF Has, IndInv, TypeOK, KVTypeOK, Requests
<1>. DEFINE b == BlockSize * Len(table[r])
<1>2. b \in Nat
  BY <1>1, LenProperties, KVAssumption
<1>3. len[r] <= b
  BY <1>1 DEF WrittenIsCovered
<1>4. r \in Range(stepReqs) => len[r] + FeedLen(r) <= b
  BY DEF IndInv, BatchCovered, Covered, Range
<1>. HIDE DEF b
<1>5. FeedLen(r) \in Nat
  BY <1>1, FeedLenNat DEF IndInv
<1>6. p < b
  BY <1>1, <1>2, <1>3, <1>4, <1>5 DEF Has
<1>7. QED
  BY <1>6 DEF b

\* The batch's requests feed the token their solo run has at each position.
LEMMA FeedsOwnText ==
  ASSUME IndInv, FeedsRight, NEW s \in Range(stepReqs), NEW q \in Nat,
         len[s] <= q, q < len[s] + FeedLen(s)
  PROVE  FedToken(s, q) = q
<1>1. s \in Live
  <2>1. s \in Range(Lists[5])
    BY DEF Lists
  <2>2. QED
    BY <2>1 DEF IndInv, ListsAreLive
<1>2. len[s] \in Nat /\ s \in Requests
  BY <1>1 DEF Live, IndInv, TypeOK, KVTypeOK, Requests
<1>3. CASE prefilled[s]
  BY <1>1, <1>2, <1>3 DEF FeedsRight, FeedLen, FedToken
<1>4. CASE ~ prefilled[s]
  BY <1>4 DEF FedToken
<1>5. QED
  BY <1>3, <1>4

\* After the forward every position that was written before it, or that it
\* writes, holds its own request's token.
LEMMA AppendedRight ==
  ASSUME IndInv, KVInv, WrittenIsCovered, KVIsolated, FeedsRight, NEW r, NEW p, Has(r, p)
  PROVE  Cell(r, p) \in DOMAIN Appended /\ Appended[Cell(r, p)] = <<r, p>>
<1>. DEFINE c == Cell(r, p)
            H == {x \in Fed : Cell(x[1], x[2]) = c}
            y == CHOOSE x \in H : TRUE
<1>1. r \in Requests /\ p \in Nat /\ len[r] \in Nat
  BY DEF Has, IndInv, TypeOK, KVTypeOK, Requests
<1>2. DOMAIN Appended = DOMAIN cells \cup {Cell(x[1], x[2]) : x \in Fed}
  BY DEF Appended
<1>3. p < len[r] => c \in DOMAIN cells /\ cells[c] = <<r, p>>
  BY <1>1 DEF KVIsolated, Intact
<1>4. ~ (p < len[r]) => <<r, p>> \in H
  BY <1>1, NewIsFed
<1>5. c \in DOMAIN Appended
  BY <1>2, <1>3, <1>4
<1>6. Appended[c] = IF H = {} THEN cells[c] ELSE <<y[1], FedToken(y[1], y[2])>>
  BY <1>5 DEF Appended
<1>7. CASE H = {}
  BY <1>3, <1>4, <1>5, <1>6, <1>7
<1>8. CASE H # {}
  <2>1. y \in Fed /\ Cell(y[1], y[2]) = c
    BY <1>8
  <2>. HIDE DEF y, H
  <2>2. PICK s \in Range(stepReqs), q \in Nat :
          y = <<s, q>> /\ len[s] <= q /\ q < len[s] + FeedLen(s) /\ Has(s, q)
    BY <2>1, FedPositions
  <2>3. Cell(s, q) = c
    BY <2>1, <2>2
  <2>4. s \in Requests
    BY <2>2 DEF Has
  <2>5. s = r /\ q = p
    BY <1>1, <2>2, <2>3, <2>4, HasIsCovered, CellsApart
  <2>6. FedToken(s, q) = q
    BY <2>2, FeedsOwnText
  <2>7. QED
    BY <1>5, <1>6, <1>8, <2>2, <2>5, <2>6
<1>9. QED
  BY <1>7, <1>8
-----------------------------------------------------------------------------
(* The invariant, action by action. *)

Right ==
  /\ KVIsolated /\ FeedsRight /\ TextsRight /\ NotOver
  /\ LogitsRight /\ FailuresFail

\* A request that has at least one token coming.
LEMMA SoloLenPositive ==
  ASSUME IndInv, NEW r \in Requests, ~ BadRequest(r)
  PROVE  SoloLen[r] \in Nat \ {0} /\ SoloLen[r] <= MaxNew[r] /\ SoloLen[r] <= EosAt[r]
         /\ SoloLen[r] \in {MaxNew[r], EosAt[r]}
<1>1. EosAt[r] \in Nat \ {0} /\ MaxNew[r] \in Nat /\ ~ (MaxNew[r] <= 0)
  BY SchedulerAssumption DEF BadRequest
<1>2. QED
  BY <1>1 DEF SoloLen

\* What a live request has been sent stays right while only the clients move.
LEMMA RightClients ==
  ASSUME IndInv, RightInv, Stop \/ Halted \/ UNCHANGED vars \/ \E r \in Requests : Submit(r)
  PROVE  Right'
<1>1. UNCHANGED <<kvVars, pc, lists, step, request, cells>>
  BY DEF Stop, Halted, vars, loopVars, Submit, SubmitReject, SubmitSend, SubmitReturn, SubmitStopped
<1>2. KVIsolated' /\ TextsRight' /\ FailuresFail'
  BY <1>1 DEF RightInv, KVIsolated, TextsRight, FailuresFail, Intact, Cell, kvVars, request, step
<1>3. LogitsRight'
  BY <1>1 DEF RightInv, LogitsRight, Intact, Cell, FeedLen, kvVars, request, step, lists
<1>4. \A x \in Live' \ Live : /\ x \in Requests /\ ~ Taken(x) /\ ~ BadRequest(x)
  BY <1>1 DEF Live, Taken, Closed, request, Stop, Halted, vars, Submit, SubmitReject, SubmitSend,
     SubmitReturn, SubmitStopped, Submitted, IndInv, TypeOK
<1>5. ASSUME NEW x \in Live' \ Live
      PROVE  ~ prefilled[x] /\ len[x] = 0 /\ generated[x] = 0 /\ 0 < SoloLen[x]
  BY <1>4, SoloLenPositive DEF RightInv, UntakenFresh, IndInv, UntakenUntouched
<1>6. FeedsRight'
  BY <1>1, <1>5 DEF RightInv, FeedsRight, kvVars, request
<1>7. NotOver'
  BY <1>1, <1>5 DEF RightInv, NotOver, request
<1>8. QED
  BY <1>2, <1>3, <1>6, <1>7 DEF Right

\* What is written stays when tables only grow.
LEMMA IsolatedStays ==
  ASSUME IndInv, WrittenIsCovered, KVIsolated, cells' = cells, len' = len,
         \A x \in Requests : \A i \in DOMAIN table[x] : table'[x][i] = table[x][i]
  PROVE  KVIsolated'
<1>1. ASSUME NEW x \in Requests, NEW p \in 0 .. len[x] - 1
      PROVE  Cell(x, p)' = Cell(x, p)
  <2>1. KVTypeOK /\ len[x] \in Nat
    BY DEF IndInv, TypeOK, KVTypeOK, Requests
  <2>2. p \in Nat /\ p < len[x]
    BY <2>1
  <2>3. p < BlockSize * Len(table[x])
    BY <2>2, HasIsCovered DEF Has
  <2>4. QED
    BY <2>1, <2>2, <2>3, CellStays
<1>2. ASSUME NEW x \in Requests, NEW p \in 0 .. len'[x] - 1
      PROVE  Cell(x, p)' \in DOMAIN cells' /\ cells'[Cell(x, p)'] = <<x, p>>
  <2>1. p \in 0 .. len[x] - 1
    OBVIOUS
  <2>2. Cell(x, p) \in DOMAIN cells /\ cells[Cell(x, p)] = <<x, p>>
    BY <2>1 DEF KVIsolated, Intact
  <2>3. Cell(x, p)' = Cell(x, p)
    BY <1>1, <2>1
  <2>4. QED
    BY <2>2, <2>3
<1>3. QED
  BY <1>2 DEF KVIsolated, Intact

\* A Reserve while the batch is formed.
LEMMA RightReserve ==
  ASSUME IndInv, WrittenIsCovered, RightInv, FormJoin \/ FormWait \/ FormFail
  PROVE  Right'
<1>1. PICK r \in Requests :
        /\ ReserveOk(r, FeedLen(r)) \/ ReserveShort(r, FeedLen(r))
        /\ UNCHANGED <<clientVars, request, cells>> /\ pc' # "commit"
        /\ pc' = "failing" => why' = "noblocks"
  BY DEF FormJoin, FormWait, FormFail, Forming, StartFailing
<1>2. KVTypeOK /\ r \in Seqs /\ FeedLen(r) \in Nat
  BY FeedLenNat DEF IndInv, TypeOK, Requests
<1>3. PICK k \in Nat : k <= Len(free) /\ Take(r, k)
  BY <1>1, <1>2, ReserveTakes
<1>4. \A x \in Requests : \A i \in DOMAIN table[x] : table'[x][i] = table[x][i]
  BY <1>2, <1>3, TakeExtends DEF Requests
<1>5. len' = len
  BY <1>3 DEF Take
<1>6. KVIsolated'
  BY <1>1, <1>4, <1>5, IsolatedStays DEF RightInv
<1>7. Live' = Live
  BY <1>1 DEF Live, Taken, Closed, clientVars, request
<1>8. FeedsRight' /\ NotOver' /\ TextsRight'
  BY <1>1, <1>5, <1>7 DEF RightInv, FeedsRight, NotOver, TextsRight, request
<1>9. LogitsRight' /\ FailuresFail'
  BY <1>1 DEF LogitsRight, FailuresFail
<1>10. QED
  BY <1>6, <1>8, <1>9 DEF Right

\* The steps of the loop that touch no request.
LEMMA RightOther ==
  ASSUME IndInv, RightInv, UNCHANGED <<kvVars, clientVars, request, cells>>,
         pc' # "commit", pc' = "failing" => why' # "done"
  PROVE  Right'
<1>1. Live' = Live
  BY DEF Live, Taken, Closed, clientVars, request
<1>2. KVIsolated'
  BY DEF RightInv, KVIsolated, Intact, Cell, kvVars
<1>3. FeedsRight' /\ NotOver' /\ TextsRight'
  BY <1>1 DEF RightInv, FeedsRight, NotOver, TextsRight, request, kvVars
<1>4. LogitsRight' /\ FailuresFail'
  BY DEF LogitsRight, FailuresFail
<1>5. QED
  BY <1>2, <1>3, <1>4 DEF Right

\* The forward: what it writes, and the tokens it returns.
LEMMA RightForward ==
  ASSUME IndInv, KVInv, WrittenIsCovered, RightInv, Forward
  PROVE  Right'
<1>1. /\ UNCHANGED <<kvVars, clientVars, request>> /\ cells' \in {cells, Appended}
      /\ \/ ForwardOk
         \/ pc' = "failing" /\ why' # "done"
  BY DEF Forward, ForwardRefused, ForwardFault, ForwardOk, FailBatch, StartFailing
<1>2. len' = len /\ table' = table /\ prefilled' = prefilled /\ Live' = Live
  BY <1>1 DEF kvVars, clientVars, request, Live, Taken, Closed
<1>3. \A x \in Requests : len[x] \in Nat
  BY DEF IndInv, TypeOK, KVTypeOK, Requests
<1>4. \A x, p : Has(x, p) => Cell(x, p) \in DOMAIN Appended /\ Appended[Cell(x, p)] = <<x, p>>
  BY AppendedRight DEF RightInv
<1>5. KVIsolated'
  <2>1. ASSUME NEW x \in Requests, NEW p \in 0 .. len[x] - 1
        PROVE  Cell(x, p) \in DOMAIN cells' /\ cells'[Cell(x, p)] = <<x, p>>
    <3>1. CASE cells' = cells
      BY <2>1, <3>1 DEF RightInv, KVIsolated, Intact
    <3>2. CASE cells' = Appended
      <4>1. Has(x, p)
        BY <1>3, <2>1 DEF Has
      <4>2. QED
        BY <1>4, <3>2, <4>1
    <3>3. QED
      BY <1>1, <3>1, <3>2
  <2>2. QED
    BY <1>2, <2>1 DEF KVIsolated, Intact, Cell
<1>6. FeedsRight' /\ NotOver' /\ TextsRight'
  BY <1>1, <1>2 DEF RightInv, FeedsRight, NotOver, TextsRight, request
<1>7. LogitsRight'
  <2>1. CASE pc' # "commit"
    BY <2>1 DEF LogitsRight
  <2>2. CASE ForwardOk
    <3>1. /\ cells' = Appended /\ stepReqs' = stepReqs /\ stepReqs \in Seq(Requests)
          /\ \A i \in DOMAIN stepReqs :
               logits'[i] = IF Intact(cells', stepReqs[i], len[stepReqs[i]] + FeedLen(stepReqs[i]))
                            THEN len[stepReqs[i]] + FeedLen(stepReqs[i]) ELSE Wrong
      BY <2>2 DEF ForwardOk, IndInv, TypeOK
    <3>2. ASSUME NEW x \in Range(stepReqs), NEW p \in 0 .. (len[x] + FeedLen(x)) - 1
          PROVE  Cell(x, p) \in DOMAIN cells' /\ cells'[Cell(x, p)] = <<x, p>>
      <4>1. x \in Requests /\ len[x] \in Nat /\ FeedLen(x) \in Nat
        BY <1>3, <3>1, FeedLenNat DEF Range, IndInv
      <4>2. Has(x, p)
        BY <3>2, <4>1 DEF Has
      <4>3. QED
        BY <1>4, <3>1, <4>2
    <3>3. ASSUME NEW i \in DOMAIN stepReqs, NEW x, x = stepReqs[i]
          PROVE  /\ Intact(cells', x, len[x] + FeedLen(x))
                 /\ logits'[i] = len[x] + FeedLen(x)
      <4>1. x \in Range(stepReqs)
        BY <3>3 DEF Range
      <4>2. Intact(cells', x, len[x] + FeedLen(x))
        BY <3>2, <4>1 DEF Intact
      <4>3. QED
        BY <3>1, <3>3, <4>2
    <3>4. SUFFICES ASSUME NEW i \in DOMAIN stepReqs
                   PROVE  LET y == stepReqs[i]
                              n == len[y] + FeedLen(y)
                          IN  logits'[i] = n /\ Intact(cells', y, n)
      BY <1>2, <3>1 DEF LogitsRight, Intact, Cell, FeedLen
    <3>5. QED
      BY <3>3
  <2>3. QED
    BY <1>1, <2>1, <2>2
<1>8. FailuresFail'
  BY <1>1 DEF FailuresFail, ForwardOk
<1>9. QED
  BY <1>5, <1>6, <1>7, <1>8 DEF Right

\* The token a commit sends is the next one of the request's solo run, and it
\* is the last exactly if the solo run ends there.
LEMMA CommitIsNext ==
  ASSUME IndInv, RightInv, NEW r, NEW tok, CommitsOne(r, tok)
  PROVE  /\ tok = len[r] + FeedLen(r) /\ tok \in Nat
         /\ generated[r] \in Nat /\ tok = PromptLen[r] + generated[r]
         /\ generated[r] < SoloLen[r] /\ (Ends(r, tok) <=> generated[r] + 1 = SoloLen[r])
         /\ \A p \in 0 .. tok - 1 : Cell(r, p) \in DOMAIN cells /\ cells[Cell(r, p)] = <<r, p>>
<1>1. /\ r \in Requests /\ r \in Live /\ pc = "commit" /\ logits # <<>>
      /\ stepReqs = <<r>> \o stepReqs' /\ stepReqs' = Tail(stepReqs) /\ tok = Head(logits)
  BY DEF CommitsOne
<1>2. /\ stepReqs \in Seq(Requests) /\ logits \in Seq(Nat \cup {Wrong})
      /\ generated[r] \in Nat /\ len[r] \in Nat /\ FeedLen(r) \in Nat
      /\ Len(logits) = Len(stepReqs)
  BY <1>1, FeedLenNat DEF IndInv, TypeOK, KVTypeOK, Requests, LogitsMatch
<1>3. 1 \in DOMAIN stepReqs /\ stepReqs[1] = r /\ logits[1] = tok
  <2>1. Len(logits) \in Nat \ {0} /\ Head(logits) = logits[1]
    BY <1>1, <1>2, EmptySeq
  <2>2. stepReqs # <<>> /\ DOMAIN stepReqs = 1 .. Len(stepReqs)
    BY <1>2, <2>1, EmptySeq, LenProperties
  <2>3. Tail(stepReqs) \in Seq(Requests) /\ <<r>> \in Seq(Requests)
    BY <1>1, <1>2, <2>2, HeadTailProperties
  <2>4. (<<r>> \o Tail(stepReqs))[1] = r
    <3>1. Len(<<r>>) = 1 /\ <<r>>[1] = r /\ Len(Tail(stepReqs)) \in Nat
      BY <2>3, LenProperties
    <3>2. 1 \in 1 .. Len(<<r>>) + Len(Tail(stepReqs))
      BY <3>1
    <3>3. QED
      BY <2>3, <3>1, <3>2, ConcatProperties
  <2>5. QED
    BY <1>1, <1>2, <2>1, <2>2, <2>4
<1>4. /\ tok = len[r] + FeedLen(r)
      /\ \A p \in 0 .. tok - 1 : Cell(r, p) \in DOMAIN cells /\ cells[Cell(r, p)] = <<r, p>>
  BY <1>1, <1>3 DEF RightInv, LogitsRight, Intact
<1>5. PromptLen[r] \in Nat /\ tok = PromptLen[r] + generated[r]
  <2>1. PromptLen[r] \in Nat
    BY <1>1, SchedulerAssumption
  <2>2. CASE prefilled[r]
    BY <1>1, <1>2, <1>4, <2>1, <2>2 DEF RightInv, FeedsRight, FeedLen
  <2>3. CASE ~ prefilled[r]
    BY <1>1, <1>2, <1>4, <2>1, <2>3 DEF RightInv, FeedsRight, FeedLen
  <2>4. QED
    BY <2>1, <2>2, <2>3
<1>6. generated[r] < SoloLen[r]
  BY <1>1 DEF RightInv, NotOver
<1>7. Ends(r, tok) <=> generated[r] + 1 = SoloLen[r]
  <2>1. ~ BadRequest(r)
    BY <1>1 DEF IndInv, TakenAreGood, Live
  <2>2. /\ SoloLen[r] \in Nat /\ SoloLen[r] <= MaxNew[r] /\ SoloLen[r] <= EosAt[r]
        /\ SoloLen[r] \in {MaxNew[r], EosAt[r]} /\ MaxNew[r] \in Nat /\ EosAt[r] \in Nat
    BY <1>1, <2>1, SoloLenPositive, SchedulerAssumption
  <2>3. Eos(r, tok) <=> generated[r] + 1 = EosAt[r]
    <3>1. \A a, b, e \in Nat : a + b = a + e - 1 <=> b + 1 = e
      OBVIOUS
    <3>2. Eos(r, tok) <=> PromptLen[r] + generated[r] = PromptLen[r] + EosAt[r] - 1
      BY <1>5 DEF Eos
    <3>3. PromptLen[r] \in Nat /\ generated[r] \in Nat /\ EosAt[r] \in Nat
      BY <1>2, <1>5, <2>2
    <3>4. QED
      BY <3>1, <3>2, <3>3
  <2>4. QED
    BY <1>2, <1>6, <2>2, <2>3 DEF Ends
<1>8. QED
  BY <1>2, <1>4, <1>5, <1>6, <1>7

\* A commit: the request has one more token, and one more position.
LEMMA RightCommit ==
  ASSUME IndInv, RightInv, CommitOne
  PROVE  Right'
<1>1. PICK r \in Requests, tok \in Nat \cup {Wrong} : CommitsOne(r, tok)
  BY CommitOneFacts
<1>2. /\ tok = len[r] + FeedLen(r) /\ tok \in Nat
      /\ generated[r] \in Nat /\ tok = PromptLen[r] + generated[r]
      /\ generated[r] < SoloLen[r] /\ (Ends(r, tok) <=> generated[r] + 1 = SoloLen[r])
      /\ \A p \in 0 .. tok - 1 : Cell(r, p) \in DOMAIN cells /\ cells[Cell(r, p)] = <<r, p>>
  BY <1>1, CommitIsNext
<1>3. /\ r \in Live /\ pc = "commit" /\ pc' = "commit" /\ cells' = cells
      /\ Live' = IF Ends(r, tok) THEN Live \ {r} ELSE Live
      /\ stepReqs = <<r>> \o stepReqs' /\ stepReqs' = Tail(stepReqs) /\ r \notin Range(stepReqs')
      /\ logits # <<>> /\ logits' = Tail(logits)
  BY <1>1 DEF CommitsOne
<1>4. /\ prefilled'[r] /\ nextTok'[r] = tok /\ generated'[r] = generated[r] + 1
      /\ tokens'[r] = Append(tokens[r], tok)
      /\ \A x \in Requests \ {r} :
           /\ prefilled'[x] = prefilled[x] /\ nextTok'[x] = nextTok[x]
           /\ generated'[x] = generated[x] /\ tokens'[x] = tokens[x]
  BY <1>1 DEF CommitsOne, IndInv, TypeOK
<1>5. /\ \A x \in Requests \ {r} : len'[x] = len[x] /\ table'[x] = table[x]
      /\ Ends(r, tok) => len'[r] = 0
      /\ ~ Ends(r, tok) => len'[r] = tok /\ table'[r] = table[r]
  BY <1>1, <1>2 DEF CommitsOne, Settle, Release, Commit, IndInv, TypeOK, KVTypeOK, Requests
<1>6. KVIsolated'
  <2>1. ASSUME NEW x \in Requests, NEW p \in 0 .. len'[x] - 1
        PROVE  Cell(x, p)' \in DOMAIN cells /\ cells[Cell(x, p)'] = <<x, p>>
    <3>1. CASE x # r
      BY <1>5, <2>1, <3>1 DEF RightInv, KVIsolated, Intact, Cell
    <3>2. CASE x = r
      <4>1. ~ Ends(r, tok)
        BY <1>5, <2>1, <3>2
      <4>2. p \in 0 .. tok - 1 /\ table'[x] = table[x]
        BY <1>5, <2>1, <3>2, <4>1
      <4>3. QED
        BY <1>2, <3>2, <4>2 DEF Cell
    <3>3. QED
      BY <3>1, <3>2
  <2>2. QED
    BY <1>3, <2>1 DEF KVIsolated, Intact
<1>7. FeedsRight'
  <2>1. ASSUME NEW x \in Live'
        PROVE  IF prefilled'[x]
               THEN nextTok'[x] = len'[x] /\ len'[x] = PromptLen[x] + generated'[x] - 1
               ELSE len'[x] = 0 /\ generated'[x] = 0
    <3>1. CASE x # r
      <4>1. x \in Live /\ x \in Requests
        BY <1>3, <2>1, <3>1 DEF Live
      <4>2. QED
        BY <1>4, <1>5, <3>1, <4>1 DEF RightInv, FeedsRight
    <3>2. CASE x = r
      <4>1. ~ Ends(r, tok) /\ PromptLen[r] \in Nat
        BY <1>3, <2>1, <3>2, SchedulerAssumption
      <4>2. PromptLen[r] + (generated[r] + 1) - 1 = tok
        BY <1>2, <4>1
      <4>3. QED
        BY <1>4, <1>5, <3>2, <4>1, <4>2
    <3>3. QED
      BY <3>1, <3>2
  <2>2. QED
    BY <2>1 DEF FeedsRight
<1>8. TextsRight'
  <2>1. tokens[r] \in Seq(Nat \cup {Wrong}) /\ Len(tokens[r]) = generated[r]
    BY DEF IndInv, TypeOK, TokensCounted
  <2>2. /\ Append(tokens[r], tok) \in Seq(Nat \cup {Wrong})
        /\ DOMAIN tokens[r] = 1 .. generated[r]
        /\ Len(Append(tokens[r], tok)) = generated[r] + 1
        /\ \A k \in 1 .. generated[r] : Append(tokens[r], tok)[k] = tokens[r][k]
        /\ Append(tokens[r], tok)[generated[r] + 1] = tok
    BY <1>2, <2>1, AppendProperties, LenProperties
  <2>3. DOMAIN Append(tokens[r], tok) = 1 .. generated[r] + 1
    BY <2>2, LenProperties
  <2>4. \A k \in 1 .. generated[r] + 1 : Append(tokens[r], tok)[k] = PromptLen[r] + k - 1
    <3>1. ASSUME NEW k \in 1 .. generated[r]
          PROVE  Append(tokens[r], tok)[k] = PromptLen[r] + k - 1
      BY <2>2 DEF RightInv, TextsRight
    <3>2. PromptLen[r] + (generated[r] + 1) - 1 = tok
      BY <1>2, SchedulerAssumption
    <3>3. \A k \in 1 .. generated[r] + 1 : k \in 1 .. generated[r] \/ k = generated[r] + 1
      BY <1>2
    <3>4. QED
      BY <2>2, <3>1, <3>2, <3>3
  <2>5. \A k \in DOMAIN tokens'[r] : tokens'[r][k] = PromptLen[r] + k - 1
    BY <1>4, <2>3, <2>4
  <2>6. QED
    BY <1>4, <2>5 DEF RightInv, TextsRight
<1>9. NotOver'
  <2>1. ASSUME NEW x \in Live' PROVE generated'[x] < SoloLen[x]
    <3>1. CASE x # r
      <4>1. x \in Live /\ x \in Requests
        BY <1>3, <2>1, <3>1 DEF Live
      <4>2. QED
        BY <1>4, <3>1, <4>1 DEF RightInv, NotOver
    <3>2. CASE x = r
      <4>1. generated[r] + 1 # SoloLen[r]
        BY <1>2, <1>3, <2>1, <3>2
      <4>2. SoloLen[r] \in Nat
        BY <1>3, SoloLenPositive DEF IndInv, TakenAreGood, Live
      <4>3. QED
        BY <1>2, <1>4, <3>2, <4>1, <4>2
    <3>3. QED
      BY <3>1, <3>2
  <2>2. QED
    BY <2>1 DEF NotOver
<1>10. LogitsRight'
  <2>1. /\ stepReqs \in Seq(Requests) /\ stepReqs # <<>> /\ Len(logits) = Len(stepReqs)
        /\ logits \in Seq(Nat \cup {Wrong})
    <3>1. logits \in Seq(Nat \cup {Wrong}) /\ Len(logits) = Len(stepReqs) /\ stepReqs \in Seq(Requests)
      BY <1>3 DEF IndInv, TypeOK, LogitsMatch
    <3>2. QED
      BY <1>3, <3>1, EmptySeq
  <2>2. /\ Len(stepReqs) \in Nat /\ DOMAIN stepReqs = 1 .. Len(stepReqs)
        /\ Tail(stepReqs) \in Seq(Requests) /\ Len(Tail(stepReqs)) = Len(stepReqs) - 1
        /\ \A i \in 1 .. Len(stepReqs) - 1 : Tail(stepReqs)[i] = stepReqs[i + 1]
        /\ \A i \in 1 .. Len(stepReqs) - 1 : Tail(logits)[i] = logits[i + 1]
    BY <1>3, <2>1, HeadTailProperties, LenProperties
  <2>3. DOMAIN stepReqs' = 1 .. Len(stepReqs) - 1
    BY <1>3, <2>2, LenProperties
  <2>4. ASSUME NEW i \in DOMAIN stepReqs', NEW x, x = stepReqs'[i]
        PROVE  /\ x \in Requests \ {r} /\ i + 1 \in DOMAIN stepReqs
               /\ x = stepReqs[i + 1] /\ logits'[i] = logits[i + 1]
    <3>1. x \in Range(stepReqs')
      BY <2>4 DEF Range
    <3>2. i \in 1 .. Len(stepReqs) - 1 /\ i + 1 \in 1 .. Len(stepReqs)
      BY <2>2, <2>3
    <3>3. stepReqs'[i] = stepReqs[i + 1] /\ logits'[i] = logits[i + 1]
      BY <1>3, <2>2, <3>2
    <3>4. stepReqs[i + 1] \in Requests
      BY <2>1, <2>2, <3>2
    <3>5. QED
      BY <1>3, <2>2, <2>4, <3>1, <3>2, <3>3, <3>4
  <2>5. ASSUME NEW i \in DOMAIN stepReqs', NEW x, x = stepReqs'[i]
        PROVE  LET n == len'[x] + (IF prefilled'[x] THEN 1 ELSE PromptLen[x])
               IN  /\ logits'[i] = n
                   /\ \A p \in 0 .. n - 1 :
                        Cell(x, p)' \in DOMAIN cells' /\ cells'[Cell(x, p)'] = <<x, p>>
    <3>1. /\ x \in Requests \ {r} /\ i + 1 \in DOMAIN stepReqs
          /\ x = stepReqs[i + 1] /\ logits'[i] = logits[i + 1]
      BY <2>4, <2>5
    <3>2. logits[i + 1] = len[x] + FeedLen(x) /\ Intact(cells, x, len[x] + FeedLen(x))
      BY <1>3, <3>1 DEF RightInv, LogitsRight
    <3>3. len'[x] = len[x] /\ prefilled'[x] = prefilled[x] /\ table'[x] = table[x] /\ cells' = cells
      BY <1>3, <1>4, <1>5, <3>1
    <3>4. QED
      BY <3>1, <3>2, <3>3 DEF Intact, FeedLen, Cell
  <2>6. QED
    BY <2>5 DEF LogitsRight, Intact, FeedLen
<1>11. FailuresFail'
  BY <1>3 DEF FailuresFail
<1>12. QED
  BY <1>6, <1>7, <1>8, <1>9, <1>10, <1>11 DEF Right

\* A failed request is out of the live ones, and holds nothing.
LEMMA RightFail ==
  ASSUME IndInv, RightInv, FailOne
  PROVE  Right'
<1>1. pc = "failing" /\ \E r \in Requests : FailsOne(r)
  BY FailOneFacts
<1>2. PICK r \in Requests : FailsOne(r)
  BY <1>1
<1>3. /\ UNCHANGED <<pc, step, prefilled, nextTok, generated, tokens, cells>> /\ Live' = Live \ {r}
  BY <1>2 DEF FailsOne
<1>4. /\ len'[r] = 0
      /\ \A x \in Requests \ {r} : len'[x] = len[x] /\ table'[x] = table[x]
  BY <1>2 DEF FailsOne, Release, IndInv, TypeOK, KVTypeOK, Requests
<1>5. KVIsolated'
  <2>1. ASSUME NEW x \in Requests, NEW p \in 0 .. len'[x] - 1
        PROVE  Cell(x, p)' \in DOMAIN cells /\ cells[Cell(x, p)'] = <<x, p>>
    <3>1. x # r
      BY <1>4, <2>1
    <3>2. QED
      BY <1>4, <2>1, <3>1 DEF RightInv, KVIsolated, Intact, Cell
  <2>2. QED
    BY <1>3, <2>1 DEF KVIsolated, Intact
<1>6. FeedsRight'
  <2>1. \A x \in Live' : x \in Live /\ x \in Requests \ {r}
    BY <1>3 DEF Live
  <2>2. QED
    BY <1>3, <1>4, <2>1 DEF RightInv, FeedsRight
<1>7. TextsRight' /\ NotOver'
  BY <1>3 DEF RightInv, TextsRight, NotOver
<1>8. LogitsRight' /\ FailuresFail'
  BY <1>1, <1>3 DEF RightInv, LogitsRight, FailuresFail, step
<1>9. QED
  BY <1>5, <1>6, <1>7, <1>8 DEF Right

LEMMA RightNext ==
  IndInv /\ KVInv /\ WrittenIsCovered /\ RightInv /\ [Next]_vars => RightInv'
<1>. SUFFICES ASSUME IndInv, KVInv, WrittenIsCovered, RightInv, [Next]_vars PROVE RightInv'
  OBVIOUS
<1>1. UntakenFresh'
  BY UntakenFreshNext DEF RightInv
<1>2. CASE Stop \/ Halted \/ UNCHANGED vars \/ \E r \in Requests : Submit(r)
  BY <1>1, <1>2, RightClients DEF RightInv, Right
<1>3. CASE FormJoin \/ FormWait \/ FormFail
  BY <1>1, <1>3, RightReserve DEF RightInv, Right
<1>4. CASE Forward
  BY <1>1, <1>4, RightForward DEF RightInv, Right
<1>5. CASE CommitOne
  BY <1>1, <1>5, RightCommit DEF RightInv, Right
<1>6. CASE FailOne
  BY <1>1, <1>6, RightFail DEF RightInv, Right
<1>7. CASE \/ IdleReceive \/ DrainReceive \/ IdleStop \/ DrainStop \/ Admit \/ FormOverBudget
           \/ FormEmpty \/ FormDone \/ CommitDone \/ FailDone
  <2>1. UNCHANGED <<kvVars, clientVars, request, cells>>
    BY <1>7 DEF IdleReceive, DrainReceive, Receive, IdleStop, DrainStop, Admit, FormOverBudget,
       Forming, FormEmpty, FormDone, CommitDone, FailDone
  <2>2. pc' # "commit" /\ (pc' = "failing" => why' # "done")
    BY <1>7 DEF IdleReceive, DrainReceive, Receive, IdleStop, DrainStop, StartFailing, Admit,
       FormOverBudget, Forming, FormEmpty, FormDone, CommitDone, FailDone, LoopTop, IndInv, TypeOK
  <2>3. QED
    BY <1>1, <2>1, <2>2, RightOther DEF RightInv, Right
<1>8. QED
  BY <1>2, <1>3, <1>4, <1>5, <1>6, <1>7 DEF Next, Loop, Form

LEMMA RightInit == Init => RightInv
<1>. SUFFICES ASSUME Init PROVE RightInv
  OBVIOUS
<1>1. /\ \A r \in Requests : ~ prefilled[r] /\ len[r] = 0 /\ ~ Taken(r) /\ tokens[r] = <<>>
      /\ pc = "idle"
  BY DEF Init, KVInit, Requests, Taken
<1>2. KVIsolated
  BY <1>1 DEF KVIsolated, Intact
<1>3. QED
  BY <1>1, <1>2 DEF RightInv, UntakenFresh, FeedsRight, TextsRight, NotOver, LogitsRight,
     FailuresFail, Live

\* Every live request's stream, next token and KV are what they would be if it
\* ran alone, whatever was batched with it.
LEMMA RightAlways == Spec => []RightInv
<1>1. IndInv => KVTypeOK
  BY DEF IndInv, TypeOK
<1>2. KVTypeOK /\ BlocksPartitioned => KVInv
  BY DEF KVInv
<1>3. QED
  BY Inductive, SchedulerKeepsPool, RightInit, RightNext, <1>1, <1>2, PTL DEF Spec

\* In every run, every position a request has written and not released holds
\* what it wrote, whoever else was batched, failed or released since.
THEOREM NobodyOverwrites == Spec => []KVIsolated
<1>1. RightInv => KVIsolated
  BY DEF RightInv
<1>2. QED
  BY RightAlways, <1>1, PTL
-----------------------------------------------------------------------------
(* The refinement. *)

\* A request's phase and stream, as Service sees them.
Phase == [r \in Requests |->
            CASE sub[r] = "new" -> "new"
              [] sub[r] = "rejected" -> "refused"
              [] Taken(r) /\ ending[r] = "open" -> "open"
              [] Taken(r) /\ ending[r] = "done" -> "done"
              [] OTHER -> "failed"]
Stream == [r \in Requests |-> [k \in DOMAIN tokens[r] |-> tokens[r][k] - PromptLen[r] + 1]]

\* The phase of a request that Submit let through, and of one it did not.
LEMMA PhaseOfTaken ==
  ASSUME NEW r \in Requests, Taken(r)
  PROVE  /\ ending[r] = "open" => Phase[r] = "open"
         /\ ending[r] = "done" => Phase[r] = "done"
         /\ ending[r] \notin {"open", "done"} => Phase[r] = "failed"
<1>1. sub[r] # "new" /\ sub[r] # "rejected"
  BY DEF Taken
<1>2. QED
  BY <1>1 DEF Phase

\* One request's phase changes to p.
LEMMA PhaseChanges ==
  ASSUME NEW r \in Requests, NEW p, Phase'[r] = p,
         \A x \in Requests \ {r} : Phase'[x] = Phase[x]
  PROVE  Phase' = [Phase EXCEPT ![r] = p]
<1>1. /\ Phase = [x \in Requests |-> Phase[x]]
      /\ Phase' = [x \in Requests |-> Phase'[x]]
  BY DEF Phase
<1>2. DOMAIN Phase = Requests
  BY <1>1
<1>3. [Phase EXCEPT ![r] = p] = [x \in Requests |-> IF x = r THEN p ELSE Phase[x]]
  BY <1>2
<1>4. QED
  BY <1>1, <1>3

\* What a request has been sent is the beginning of its solo stream.
LEMMA StreamIsPrefix ==
  ASSUME TypeOK, TokensCounted, TextsRight, NEW r \in Requests
  PROVE  Stream[r] = [k \in 1 .. generated[r] |-> k]
<1>1. DOMAIN tokens[r] = 1 .. generated[r] /\ generated[r] \in Nat
  BY LenProperties DEF TypeOK, TokensCounted
<1>2. \A k \in 1 .. generated[r] : tokens[r][k] - PromptLen[r] + 1 = k
  <2>1. ASSUME NEW k \in 1 .. generated[r]
        PROVE  tokens[r][k] - PromptLen[r] + 1 = k
    <3>1. tokens[r][k] = PromptLen[r] + k - 1 /\ PromptLen[r] \in Nat /\ k \in Nat
      BY <1>1, SchedulerAssumption DEF TextsRight
    <3>2. \A a, b \in Nat : (a + b - 1) - a + 1 = b
      OBVIOUS
    <3>3. QED
      BY <3>1, <3>2
  <2>2. QED
    BY <2>1
<1>3. QED
  BY <1>1, <1>2 DEF Stream

\* One more token on such a stream.
LEMMA PrefixGrows ==
  ASSUME NEW n \in Nat
  PROVE  LET s == [k \in 1 .. n |-> k]
         IN  Len(s) = n /\ Append(s, n + 1) = [k \in 1 .. n + 1 |-> k]
<1>. DEFINE s == [k \in 1 .. n |-> k]
            t == [k \in 1 .. n + 1 |-> k]
<1>1. s \in Seq(Nat) /\ t \in Seq(Nat) /\ DOMAIN s = 1 .. n /\ DOMAIN t = 1 .. n + 1
  BY SeqDef
<1>2. \A k \in 1 .. n : s[k] = k
  OBVIOUS
<1>3. \A k \in 1 .. n + 1 : t[k] = k
  OBVIOUS
<1>. HIDE DEF s, t
<1>4. Len(s) = n /\ Len(t) = n + 1
  <2>1. Len(s) \in Nat /\ DOMAIN s = 1 .. Len(s) /\ Len(t) \in Nat /\ DOMAIN t = 1 .. Len(t)
    BY <1>1, LenProperties
  <2>2. QED
    BY <1>1, <2>1, SameInterval
<1>5. /\ Append(s, n + 1) \in Seq(Nat) /\ Len(Append(s, n + 1)) = n + 1
      /\ \A k \in 1 .. n : Append(s, n + 1)[k] = s[k]
      /\ Append(s, n + 1)[n + 1] = n + 1
  BY <1>1, <1>4, AppendProperties
<1>6. \A k \in 1 .. n + 1 : Append(s, n + 1)[k] = t[k]
  BY <1>2, <1>3, <1>5
<1>7. Append(s, n + 1) = t
  BY <1>1, <1>4, <1>5, <1>6, SeqEqual
<1>8. QED
  BY <1>4, <1>7 DEF s, t

\* A Submit is an answer, or the second half of one.
LEMMA SubmitServes ==
  ASSUME IndInv, NEW r \in Requests, Submit(r)
  PROVE  [Service!ServiceNext]_(Service!serviceVars)
<1>1. /\ UNCHANGED <<tokens, ending>> /\ ending \in [Requests -> Endings]
      /\ sub \in [Requests -> {"new", "sent", "accepted", "rejected"}]
  BY DEF Submit, SubmitReject, SubmitSend, SubmitReturn, SubmitStopped, loopVars, request, IndInv,
     TypeOK
<1>2. Stream' = Stream
  BY <1>1 DEF Stream
<1>3. \A x \in Requests \ {r} : sub'[x] = sub[x]
  BY <1>1 DEF Submit, SubmitReject, SubmitSend, SubmitReturn, SubmitStopped, Submitted
<1>4. \A x \in Requests \ {r} : Phase'[x] = Phase[x]
  BY <1>1, <1>3 DEF Phase, Taken
<1>5. CASE SubmitReturn(r)
  <2>1. sub[r] = "sent" /\ sub'[r] = "accepted"
    BY <1>1, <1>5 DEF SubmitReturn, Submitted
  <2>2. Phase'[r] = Phase[r]
    BY <1>1, <2>1 DEF Phase, Taken
  <2>3. Phase' = Phase
    BY <1>4, <2>2 DEF Phase
  <2>4. QED
    BY <1>2, <2>3 DEF Service!serviceVars, Phase, Stream
<1>6. CASE SubmitReject(r) \/ SubmitStopped(r)
  <2>1. sub[r] = "new" /\ sub'[r] = "rejected"
    BY <1>1, <1>6 DEF SubmitReject, SubmitStopped, Submitted
  <2>2. Phase[r] = "new" /\ Phase'[r] = "refused"
    BY <2>1 DEF Phase, Taken
  <2>3. Phase' = [Phase EXCEPT ![r] = "refused"]
    BY <1>4, <2>2, PhaseChanges
  <2>4. Service!Answer(r, "refused")
    BY <1>2, <2>2, <2>3 DEF Service!Answer, Phase, Stream
  <2>5. QED
    BY <2>4 DEF Service!ServiceNext
<1>7. CASE SubmitSend(r)
  <2>1. sub[r] = "new" /\ sub'[r] = "sent" /\ ending[r] = "open" /\ ending'[r] = "open"
    BY <1>1, <1>7 DEF SubmitSend, Submitted, IndInv, UntakenUntouched, Taken
  <2>2. Phase[r] = "new" /\ Phase'[r] = "open"
    BY <2>1 DEF Phase, Taken
  <2>3. Phase' = [Phase EXCEPT ![r] = "open"]
    BY <1>4, <2>2, PhaseChanges
  <2>4. Service!Answer(r, "open")
    BY <1>2, <2>2, <2>3 DEF Service!Answer, Phase, Stream
  <2>5. QED
    BY <2>4 DEF Service!ServiceNext
<1>8. QED
  BY <1>5, <1>6, <1>7 DEF Submit

\* A commit delivers the next token, and ends the stream with the last one.
LEMMA CommitServes ==
  ASSUME IndInv, RightInv, IndInv', RightInv', CommitOne
  PROVE  Service!ServiceNext
<1>1. PICK r \in Requests, tok \in Nat \cup {Wrong} : CommitsOne(r, tok)
  BY CommitOneFacts
<1>2. /\ generated[r] \in Nat /\ (Ends(r, tok) <=> generated[r] + 1 = SoloLen[r])
      /\ generated'[r] = generated[r] + 1
      /\ \A x \in Requests \ {r} : generated'[x] = generated[x]
  BY <1>1, CommitIsNext DEF CommitsOne, IndInv, TypeOK
<1>3. /\ sub' = sub /\ Taken(r) /\ Taken(r)' /\ ending[r] = "open"
      /\ ending'[r] = IF Ends(r, tok) THEN "done" ELSE "open"
      /\ \A x \in Requests \ {r} : ending'[x] = ending[x]
  BY <1>1 DEF CommitsOne, Live, Closed, Taken, clientVars, IndInv, TypeOK
<1>. DEFINE n == generated[r]
<1>4. Stream[r] = [k \in 1 .. n |-> k] /\ Stream'[r] = [k \in 1 .. n + 1 |-> k]
  <2>1. Stream[r] = [k \in 1 .. n |-> k]
    BY StreamIsPrefix DEF IndInv, RightInv
  <2>2. DOMAIN tokens'[r] = 1 .. generated'[r] /\ generated'[r] \in Nat
    BY LenProperties DEF IndInv, TypeOK, TokensCounted
  <2>3. \A k \in 1 .. n + 1 : tokens'[r][k] - PromptLen[r] + 1 = k
    <3>1. ASSUME NEW k \in 1 .. n + 1
          PROVE  tokens'[r][k] - PromptLen[r] + 1 = k
      <4>1. tokens'[r][k] = PromptLen[r] + k - 1 /\ PromptLen[r] \in Nat /\ k \in Nat
        BY <1>2, <2>2, SchedulerAssumption DEF RightInv, TextsRight
      <4>2. \A a, b \in Nat : (a + b - 1) - a + 1 = b
        OBVIOUS
      <4>3. QED
        BY <4>1, <4>2
    <3>2. QED
      BY <3>1
  <2>4. Stream'[r] = [k \in 1 .. n + 1 |-> k]
    BY <1>2, <2>2, <2>3 DEF Stream
  <2>5. QED
    BY <2>1, <2>4
<1>5. \A x \in Requests \ {r} : Stream'[x] = Stream[x]
  BY <1>1 DEF CommitsOne, Stream, IndInv, TypeOK
<1>6. Len(Stream[r]) = n /\ Append(Stream[r], n + 1) = Stream'[r] /\ Len(Stream'[r]) = n + 1
  <2>1. n \in Nat /\ n + 1 \in Nat
    BY <1>2
  <2>. HIDE DEF n
  <2>2. QED
    BY <1>4, <2>1, PrefixGrows
<1>7. Stream' = [Stream EXCEPT ![r] = Append(Stream[r], Len(Stream[r]) + 1)]
  <2>1. Stream = [x \in Requests |-> Stream[x]] /\ Stream' = [x \in Requests |-> Stream'[x]]
    BY DEF Stream
  <2>2. Stream'[r] = Append(Stream[r], Len(Stream[r]) + 1)
    BY <1>6
  <2>3. QED
    BY <1>5, <2>1, <2>2
<1>8. Phase[r] = "open" /\ Phase'[r] = IF Len(Stream'[r]) = SoloLen[r] THEN "done" ELSE "open"
  <2>1. Phase[r] = "open"
    BY <1>3, PhaseOfTaken
  <2>2. Phase'[r] = IF Ends(r, tok) THEN "done" ELSE "open"
    BY <1>3 DEF Phase, Taken
  <2>3. QED
    BY <1>2, <1>6, <2>1, <2>2
<1>9. \A x \in Requests \ {r} : Phase'[x] = Phase[x]
  BY <1>3 DEF Phase, Taken
<1>10. Phase' = [Phase EXCEPT ![r] = IF Len(Stream'[r]) = SoloLen[r] THEN "done" ELSE "open"]
  BY <1>8, <1>9, PhaseChanges
<1>11. Service!Deliver(r)
  BY <1>7, <1>8, <1>10 DEF Service!Deliver, Phase, Stream
<1>12. QED
  BY <1>11 DEF Service!ServiceNext

\* A failure cuts a stream short.
LEMMA FailServes ==
  ASSUME IndInv, RightInv, FailOne
  PROVE  Service!ServiceNext
<1>1. pc = "failing" /\ \E r \in Requests : FailsOne(r)
  BY FailOneFacts
<1>2. PICK r \in Requests : FailsOne(r)
  BY <1>1
<1>3. /\ sub' = sub /\ tokens' = tokens /\ Taken(r) /\ ending[r] = "open"
      /\ ending'[r] = why /\ why \notin {"open", "done"}
      /\ \A x \in Requests \ {r} : ending'[x] = ending[x]
  BY <1>1, <1>2 DEF FailsOne, Live, Closed, clientVars, IndInv, TypeOK, RightInv, FailuresFail
<1>4. Stream' = Stream
  BY <1>3 DEF Stream
<1>5. Phase[r] = "open" /\ Phase'[r] = "failed"
  <2>1. Phase[r] = "open"
    BY <1>3, PhaseOfTaken
  <2>2. Phase'[r] = "failed"
    BY <1>3 DEF Phase, Taken
  <2>3. QED
    BY <2>1, <2>2
<1>6. \A x \in Requests \ {r} : Phase'[x] = Phase[x]
  BY <1>3 DEF Phase, Taken
<1>7. Phase' = [Phase EXCEPT ![r] = "failed"]
  BY <1>5, <1>6, PhaseChanges
<1>8. Service!FailStream(r)
  BY <1>4, <1>5, <1>7 DEF Service!FailStream, Phase, Stream
<1>9. QED
  BY <1>8 DEF Service!ServiceNext

LEMMA StepsServe ==
  IndInv /\ IndInv' /\ RightInv /\ RightInv' /\ [Next]_vars
    => [Service!ServiceNext]_(Service!serviceVars)
<1>. SUFFICES ASSUME IndInv, IndInv', RightInv, RightInv', [Next]_vars
              PROVE  [Service!ServiceNext]_(Service!serviceVars)
  OBVIOUS
<1>1. CASE \E r \in Requests : Submit(r)
  BY <1>1, SubmitServes
<1>2. CASE CommitOne
  BY <1>2, CommitServes
<1>3. CASE FailOne
  BY <1>3, FailServes
<1>4. CASE UNCHANGED <<sub, tokens, ending>>
  <2>1. Phase' = Phase /\ Stream' = Stream
    BY <1>4 DEF Phase, Stream, Taken
  <2>2. QED
    BY <2>1 DEF Service!serviceVars, Phase, Stream
<1>5. CASE Stop \/ Halted \/ UNCHANGED vars
  BY <1>4, <1>5 DEF Stop, Halted, vars, loopVars, request
<1>6. CASE Loop
  BY <1>2, <1>3, <1>4, <1>6 DEF Loop, Form, Forward, IdleReceive, DrainReceive, Receive, IdleStop,
     DrainStop, Admit, FormOverBudget, FormJoin, FormWait, FormFail, FormEmpty, FormDone,
     ForwardRefused, ForwardFault, ForwardOk, FailBatch, CommitDone, FailDone, clientVars, request
<1>7. QED
  BY <1>1, <1>5, <1>6 DEF Next

\* Batching is invisible: in every run each client is served the stream its
\* request would get alone, in order, nothing made up, and complete when it
\* ends with Done.
THEOREM BatchingIsInvisible == Spec => ServesAlone
<1>1. Init => Service!ServiceInit
  <2>. SUFFICES ASSUME Init PROVE Service!ServiceInit
    OBVIOUS
  <2>1. Phase = [r \in Requests |-> "new"] /\ Stream = [r \in Requests |-> <<>>]
    <3>1. \A r \in Requests : sub[r] = "new" /\ tokens[r] = <<>>
      BY DEF Init
    <3>2. Phase = [r \in Requests |-> "new"]
      BY <3>1 DEF Phase, Taken
    <3>3. \A f : f = [k \in DOMAIN f |-> f[k]] /\ DOMAIN f = {} => f = <<>>
      OBVIOUS
    <3>4. \A r \in Requests : [k \in DOMAIN tokens[r] |-> tokens[r][k] - PromptLen[r] + 1] = <<>>
      BY <3>1, <3>3
    <3>5. QED
      BY <3>2, <3>4 DEF Stream
  <2>2. QED
    BY <2>1 DEF Service!ServiceInit, Phase, Stream
<1>2. QED
  BY Inductive, RightAlways, StepsServe, <1>1, PTL DEF Spec, ServesAlone, Service!ServiceSpec
=============================================================================
