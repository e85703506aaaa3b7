----------------------------- MODULE ForwardCheck -----------------------------
(***************************************************************************)
(* The checks a batch passes before te_forward_batch touches the device:   *)
(* the Go side's (Handle.ForwardBatch), the flattening of the batch into   *)
(* the C arrays, and the backend's own.  Pure operators on a batch, a      *)
(* sequence of descriptors                                                 *)
(*   [n |-> new tokens, pos |-> tokens written before, table |-> blocks].  *)
(***************************************************************************)
EXTENDS Integers, Sequences, FiniteSetsExt

CONSTANTS
  MaxSeq,       \* positions of one sequence, and tokens of one batch
  NumBlocks,    \* physical blocks of the pool
  BlockSize     \* positions per block

MaxBatchSeqs == 128

RoundUp(n) == (n + BlockSize - 1) \div BlockSize

\* flattenBatch: one row of block ids per sequence, all as wide as the widest
\* table, the rest of a shorter row filled with -1.
Width(batch) == Max({Len(batch[i].table) : i \in DOMAIN batch} \cup {0})

Row(e, w) == [b \in 1 .. w |-> IF b <= Len(e.table) THEN e.table[b] ELSE -1]

BadCount(batch) == Len(batch) \notin 1 .. MaxBatchSeqs

NoTokens(e) == e.n <= 0

\* The new tokens end beyond the longest sequence the model was made for.
OutOfRange(e) == e.pos < 0 \/ e.pos + e.n > MaxSeq

RowTooShort(e, w) == RoundUp(e.pos + e.n) > w

\* A block that the new or the old tokens lie in is not in the pool: an id
\* beyond it, or the padding of a row.
BadBlock(e, w) ==
  \E b \in 1 .. RoundUp(e.pos + e.n) : Row(e, w)[b] \notin 0 .. NumBlocks - 1

\* The rows of the step, one for each new token of each sequence.
Rows(batch) == UNION {{i} \X (1 .. batch[i].n) : i \in DOMAIN batch}

TooManyTokens(batch) == Cardinality(Rows(batch)) > MaxSeq

\* The staging buffer for the rows is made for MaxBatchSeqs full sequences.
StagingFull(batch) == Len(batch) * Width(batch) > MaxBatchSeqs * RoundUp(MaxSeq)

BadSequence(e, w) ==
  \/ NoTokens(e)
  \/ OutOfRange(e)
  \/ RowTooShort(e, w)
  \/ BadBlock(e, w)

\* The batch goes to the device.  Any one bad sequence refuses all of it.
Accepts(batch) ==
  /\ ~ BadCount(batch)
  /\ \A i \in DOMAIN batch : ~ BadSequence(batch[i], Width(batch))
  /\ ~ TooManyTokens(batch)
  /\ ~ StagingFull(batch)
=============================================================================
