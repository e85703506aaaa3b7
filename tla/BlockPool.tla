------------------------------ MODULE BlockPool ------------------------------
(***************************************************************************)
(* What the KV block allocator promises, with no free list and no order:   *)
(* every block is available or held by one sequence, a sequence that asks  *)
(* for blocks is given available ones, and gives back all it holds.        *)
(***************************************************************************)
CONSTANTS
  Seqs,       \* the sequences
  Blocks      \* the physical blocks of the pool

VARIABLES
  avail,      \* the blocks nobody holds
  held        \* the blocks each sequence holds

poolVars == <<avail, held>>

PoolInit ==
  /\ avail = Blocks
  /\ held = [s \in Seqs |-> {}]

\* A sequence takes blocks nobody holds.
Grow(s, B) ==
  /\ B \subseteq avail
  /\ avail' = avail \ B
  /\ held' = [held EXCEPT ![s] = @ \cup B]

\* A sequence gives back everything it holds.
GiveBack(s) ==
  /\ avail' = avail \cup held[s]
  /\ held' = [held EXCEPT ![s] = {}]

PoolNext == \E s \in Seqs : GiveBack(s) \/ \E B \in SUBSET avail : Grow(s, B)

PoolSpec == PoolInit /\ [][PoolNext]_poolVars
=============================================================================
