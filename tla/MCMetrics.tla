------------------------------ MODULE MCMetrics ------------------------------
(***************************************************************************)
(* Two requests of up to two tokens, and one scrape at any moment.         *)
(***************************************************************************)
EXTENDS Metrics, TLC
CONSTANTS ra, rb, loop, s1

\* Which request is which makes no difference.
Symmetry == Permutations({ra, rb})
=============================================================================
