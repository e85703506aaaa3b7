----------------------------- MODULE MCScheduler -----------------------------
(***************************************************************************)
(* The instances of the scheduler that TLC checks: three or four          *)
(* requests; each cfg picks prompts, limits and the size of the pool.      *)
(***************************************************************************)
EXTENDS SchedulerClaims

CONSTANTS ra, rb, rc, rd

Four(w, x, y, z) == (ra :> w) @@ (rb :> x) @@ (rc :> y) @@ (rd :> z)

\* ra reaches the end of the longest sequence before it has its tokens, rb
\* stops at EOS, rc gets one token only, and rd's prompt is too long to take.
TightPrompts == Four(2, 1, 3, 5)
TightMaxNew == Four(4, 4, 1, 1)
TightEos == Four(9, 3, 9, 9)

\* Three prompts a pool of four can hold one at a time; ra's stream decodes
\* long enough for rb and rc to come while it holds blocks.
Three(w, x, y) == (ra :> w) @@ (rb :> x) @@ (rc :> y)
HoarderPrompts == Three(2, 3, 3)
HoarderMaxNew == Three(2, 1, 1)
NoEos == [r \in Seqs |-> 9]
=============================================================================
