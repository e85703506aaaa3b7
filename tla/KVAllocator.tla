----------------------------- MODULE KVAllocator -----------------------------
(***************************************************************************)
(* engine/kv: the paged KV allocator.  A fixed pool of physical blocks, a  *)
(* LIFO free list, and for each sequence its block table (physical ids in  *)
(* logical order) and the number of token positions written so far.        *)
(*                                                                         *)
(* The allocator takes no lock: one goroutine, the scheduler's, makes      *)
(* every call, so a call is one step here.                                 *)
(***************************************************************************)
EXTENDS Integers, Sequences, Functions

CONSTANTS
  Seqs,         \* the sequences that ever draw on this pool
  NumBlocks,    \* physical blocks in the pool
  BlockSize,    \* token positions per block
  MaxSeq        \* the most tokens one call reserves or commits: the engine's
                \* MaxSeq, which bounds the tokens of a step

ASSUME KVAssumption ==
  /\ NumBlocks \in Nat
  /\ BlockSize \in Nat \ {0}
  /\ MaxSeq \in Nat \ {0}

VARIABLES
  free,         \* the free list; the next block handed out is its last
  table,        \* table[s]: the blocks of sequence s, in logical order
  len           \* len[s]: the tokens of s written so far

kvVars == <<free, table, len>>

Blocks == 0 .. NumBlocks - 1

\* Mutant: the ids count from one.
KVInitFromOne ==
  /\ free = [i \in 1 .. NumBlocks |-> NumBlocks - i + 1]
  /\ table = [s \in Seqs |-> <<>>]
  /\ len = [s \in Seqs |-> 0]

KVInit ==
  /\ free = [i \in 1 .. NumBlocks |-> NumBlocks - i]
  /\ table = [s \in Seqs |-> <<>>]
  /\ len = [s \in Seqs |-> 0]

-----------------------------------------------------------------------------
\* The blocks a table must have to cover n positions, rounded up.
BlocksFor(n) == (n + BlockSize - 1) \div BlockSize

\* What sequence s lacks to cover n more tokens.  A table that is already
\* long enough lacks nothing: Reserve's loop does not run.
Missing(s, n) ==
  LET need == BlocksFor(len[s] + n)
  IN  IF need > Len(table[s]) THEN need - Len(table[s]) ELSE 0

\* The k blocks that k calls of alloc pop, in the order they are popped.
Popped(k) == [i \in 1 .. k |-> free[Len(free) - i + 1]]

\* Mutant: a new block goes in front of the table.
TakePrepends(s, k) ==
  /\ free' = SubSeq(free, 1, Len(free) - k)
  /\ table' = [table EXCEPT ![s] = Popped(k) \o @]
  /\ UNCHANGED len

\* Mutant: alloc reads the last block of the list and leaves it there.
TakeShares(s, k) ==
  /\ table' = [table EXCEPT ![s] = @ \o Popped(k)]
  /\ UNCHANGED <<free, len>>

Take(s, k) ==
  /\ free' = SubSeq(free, 1, Len(free) - k)
  /\ table' = [table EXCEPT ![s] = @ \o Popped(k)]
  /\ UNCHANGED len

\* Reserve(n) when the pool has what is missing.
ReserveOk(s, n) ==
  /\ Missing(s, n) <= Len(free)
  /\ Take(s, Missing(s, n))

\* Reserve(n) when the pool runs dry: the loop has already put every free
\* block in the table when alloc fails, and the error return leaves them there.
ReserveShort(s, n) ==
  /\ Missing(s, n) > Len(free)
  /\ Take(s, Len(free))

\* The table of s has room for n more tokens.
Covered(s, n) == len[s] + n <= BlockSize * Len(table[s])

\* Commit(n).  The code adds n unconditionally; that it is called only for
\* tokens a Reserve covered is the caller's part (KVNext states it, and the
\* scheduler is shown to keep to it).
Commit(s, n) ==
  /\ len' = [len EXCEPT ![s] = @ + n]
  /\ UNCHANGED <<free, table>>

\* Mutant: the table is given back and kept.
ReleaseKeepsTable(s) ==
  /\ free' = free \o table[s]
  /\ len' = [len EXCEPT ![s] = 0]
  /\ UNCHANGED table

\* Mutant: the position is not reset.
ReleaseKeepsLen(s) ==
  /\ free' = free \o table[s]
  /\ table' = [table EXCEPT ![s] = <<>>]
  /\ UNCHANGED len

\* Release: the whole table goes back on the free list, in table order.
Release(s) ==
  /\ free' = free \o table[s]
  /\ table' = [table EXCEPT ![s] = <<>>]
  /\ len' = [len EXCEPT ![s] = 0]

KVStep(s, n) ==
  \/ ReserveOk(s, n)
  \/ ReserveShort(s, n)
  \/ Covered(s, n) /\ Commit(s, n)

KVNext == \E s \in Seqs : Release(s) \/ \E n \in 1 .. MaxSeq : KVStep(s, n)

KVSpec == KVInit /\ [][KVNext]_kvVars

-----------------------------------------------------------------------------
KVTypeOK ==
  /\ free \in Seq(Blocks)
  /\ table \in [Seqs -> Seq(Blocks)]
  /\ len \in [Seqs -> Nat]

\* No block is twice on the free list or in a table, and none is in two
\* of them: the sequences' KV can never share a physical block.
FreeOnce == IsInjective(free)
HeldOnce == \A s \in Seqs : IsInjective(table[s])
FreeNotHeld == \A s \in Seqs : Range(free) \cap Range(table[s]) = {}
HeldByOne == \A s, t \in Seqs : s # t => Range(table[s]) \cap Range(table[t]) = {}

\* No block is ever lost: each is free or in a table.
NoneLost == \A b \in Blocks : b \in Range(free) \/ \E s \in Seqs : b \in Range(table[s])

\* Every block of the pool is in exactly one place, once: on the free list or
\* in one sequence's table (alloc, release, Reserve and Release in engine/kv).
BlocksPartitioned == FreeOnce /\ HeldOnce /\ FreeNotHeld /\ HeldByOne /\ NoneLost

\* Every token position written so far lies in a block the sequence still
\* holds, so the backend can find it through the table.
WrittenIsCovered == \A s \in Seqs : len[s] <= BlockSize * Len(table[s])

\* The block that holds a written position never changes while the sequence
\* lives: Reserve only extends the table, nothing reorders or shortens it.
KeepsWritten ==
  \A s \in Seqs :
    \/ len'[s] = 0 /\ table'[s] = <<>>
    \/ /\ len'[s] >= len[s]
       /\ \A i \in DOMAIN table[s] : i \in DOMAIN table'[s] /\ table'[s][i] = table[s][i]

WrittenStaysPut == [][KeepsWritten]_kvVars

\* The allocator implements the pool: forget the order of the free list and of
\* the tables, and every call takes available blocks or gives back its own.
Pool == INSTANCE BlockPool
          WITH avail <- Range(free), held <- [s \in Seqs |-> Range(table[s])]
ImplementsPool == Pool!PoolSpec
=============================================================================
