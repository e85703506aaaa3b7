------------------------------ MODULE Generate ------------------------------
(***************************************************************************)
(* The single-sequence path: Sequence.Forward runs one sequence as a batch *)
(* of one, Engine.Generate decodes with it until EOS or the limit          *)
(* (cmd/generate), and cmd/bench times prefills and decodes with it.       *)
(* One goroutine makes every call; between two of them others may have     *)
(* drawn on the pool.  A token is its number in the text.                  *)
(***************************************************************************)
EXTENDS KVAllocator, FiniteSets

CONSTANTS MaxTokens     \* bound: the most tokens asked for

ASSUME GenerateAssumption == MaxTokens \in Nat

\* The call under way: whose it is, its sequence, the prompt's length, the
\* limit and which token is EOS (0: none), the tokens of the next Forward,
\* where the call is, the tokens sampled, the error it will return, and the
\* blocks that were free when it began.
VARIABLE call

Backend == INSTANCE ForwardCheck

gVars == <<kvVars, call>>

NoCall == [by |-> "nobody", stage |-> "none"]

GInit == KVInit /\ call = NoCall

\* NewSequence, and the call of Forward with the prompt.
Begin(prog) ==
  /\ call = NoCall
  /\ \E s \in Seqs, prompt \in 0 .. MaxSeq + 1, max, eos \in 0 .. MaxTokens :
       /\ table[s] = <<>>
       /\ prog = "generate" \/ eos = 0
       /\ call' = [by |-> prog, seq |-> s, prompt |-> prompt, max |-> max, eos |-> eos,
                   feed |-> prompt, stage |-> "reserve", out |-> 0, err |-> "none",
                   atCall |-> Range(free)]
  /\ UNCHANGED kvVars

Goes(to, err) == call' = [call EXCEPT !.stage = to, !.err = err]

\* Sequence.Step.
Reserve ==
  /\ call.stage = "reserve"
  /\ \/ ReserveOk(call.seq, call.feed) /\ Goes("forward", "none")
     \/ ReserveShort(call.seq, call.feed) /\ Goes("return", "noroom")

Refused ==
  ~ Backend!Accepts(<<[n |-> call.feed, pos |-> len[call.seq], table |-> table[call.seq]]>>)

\* ForwardBatch of one, which may be refused, or fail on the device.
ForwardFails ==
  /\ call.stage = "forward"
  /\ Goes("return", IF Refused THEN "refused" ELSE "fault")
  /\ UNCHANGED kvVars

\* ForwardBatch succeeds and Forward commits.
ForwardOk ==
  /\ call.stage = "forward"
  /\ ~ Refused
  /\ Commit(call.seq, call.feed)
  /\ Goes("sample", "none")

\* Mutant: one token more than the limit.
EnoughLate == call.out > call.max

\* The range of the loop is exhausted; a timed prefill has none.
Enough == call.out >= call.max \/ call.by = "prefill"

LoopEnds ==
  /\ call.stage = "sample"
  /\ Enough
  /\ Goes("return", "none")
  /\ UNCHANGED kvVars

\* Argmax of the logits, and EOS, which cmd/bench does not look at.  The token
\* is fed even if it is the last one asked for.
Sample ==
  /\ call.stage = "sample"
  /\ ~ Enough
  /\ LET eos == call.by = "generate" /\ call.out + 1 = call.eos
     IN  call' = [call EXCEPT !.out = @ + 1, !.feed = 1,
                              !.stage = IF eos THEN "return" ELSE "reserve"]
  /\ UNCHANGED kvVars

\* Mutant: an error returns before the Release.
ReleasesIfOk == call.err = "none"

\* The defer of Generate, and the Release that cmd/bench makes before it looks
\* at the error of a prefill; after an error of a decode it makes none.
Releases == call.err = "none" \/ call.by # "decode"

Return ==
  /\ call.stage = "return"
  /\ IF Releases THEN Release(call.seq) ELSE UNCHANGED kvVars
  /\ call' = NoCall

Others == call = NoCall /\ KVNext /\ UNCHANGED call

GNext ==
  \/ \E prog \in {"generate", "prefill", "decode"} : Begin(prog)
  \/ Reserve \/ ForwardFails \/ ForwardOk \/ LoopEnds \/ Sample \/ Return
  \/ Others

GSpec == GInit /\ [][GNext]_gVars

-----------------------------------------------------------------------------
\* Generate returns the whole text or an error, and an error that is not the
\* device's means that there is no room: the prompt and what was sampled do
\* not fit a sequence, or the pool.  The last forward, whose logits nobody
\* reads, needs room like any other: a text that ends at the last position
\* comes back with an error (Engine.Generate).
WholeTextOrNoRoom ==
  call.by = "generate" /\ call.stage = "return" =>
    LET text == IF call.eos \in 1 .. call.max THEN call.eos ELSE call.max
        fed == call.prompt + call.out
    IN  /\ call.out <= text
        /\ call.err = "none" => call.out = text
        /\ call.err = "refused" => call.prompt = 0 \/ fed > MaxSeq
        /\ call.err = "noroom" => BlocksFor(fed) > Cardinality(call.atCall)

\* Whatever a call ends with, the pool is as it was before: only a bench that
\* fails in a decode keeps blocks, and it exits (the deferred Release of
\* Generate, and those of cmd/bench).
PoolComesBack ==
  [][call.stage = "return" =>
       Range(free') = call.atCall \/ (call.by = "decode" /\ call.err # "none")]_gVars
=============================================================================
