------------------------------ MODULE Scheduler ------------------------------
(***************************************************************************)
(* engine/scheduler.go: continuous batching.  Submit runs on the caller's  *)
(* goroutine, one per request; Stop on the main one; run is one goroutine  *)
(* that owns the KV allocator and the backend.  The model has the loop's   *)
(* program counter, the lists run keeps on its stack, the bounded request  *)
(* channel, and for each request what has been sent on its stream.         *)
(*                                                                         *)
(* A token is named by its position in the text its request would produce  *)
(* alone: r's prompt is 0 .. PromptLen[r]-1 and its k-th generated token   *)
(* is PromptLen[r]+k-1.  Wrong is any other token.  A KV cell holds the    *)
(* request and the token that were written to it, so a request gets the    *)
(* token it would get alone exactly if the cells its attention reads are   *)
(* the ones it wrote.                                                      *)
(***************************************************************************)
EXTENDS KVAllocator, SequencesExt

CONSTANTS
  PromptLen,    \* PromptLen[r]: tokens of r's prompt
  MaxNew,       \* MaxNew[r]: the most tokens r asks for
  EosAt,        \* EosAt[r]: which token of r's solo stream is EOS
  MaxBatchArg,  \* NewScheduler's maxBatch argument
  QueueCap      \* capacity of the request channel

Requests == Seqs

ASSUME SchedulerAssumption ==
  /\ PromptLen \in [Requests -> Nat]
  /\ MaxNew \in [Requests -> Nat]
  /\ EosAt \in [Requests -> Nat \ {0}]
  /\ MaxBatchArg \in Int
  /\ QueueCap \in Nat

VARIABLES
  sub,          \* sub[r]: where r's Submit is
  queue,        \* the request channel
  stopping,     \* stopCh is closed
  pc,           \* where run is
  running,      \* run's lists, between two steps
  waiting,
  todo,         \* what is left of running while a batch is formed
  budget,       \* what is left of the step's token budget
  stepReqs,     \* the requests of the batch
  skipped,      \* running, but not in the batch
  logits,       \* the arg max of each row the forward returned
  nxt,          \* the next step's running
  dying,        \* the requests being failed, why, and where run goes then
  why,
  after,
  prefilled,    \* prefilled[r], nextTok[r], generated[r]: fields of reqState
  nextTok,
  generated,
  tokens,       \* tokens[r]: the tokens sent on r's stream
  ending,       \* ending[r]: the Done event that closed it, "open" before
  cells,        \* the KV pool: what was written to <<block, offset>>
  m             \* the metrics registry

lists == <<running, waiting, todo, stepReqs, skipped, nxt, dying>>
step == <<budget, logits, why, after>>
request == <<prefilled, nextTok, generated, tokens, ending>>
vars == <<kvVars, sub, queue, stopping, pc, lists, step, request, cells, m>>

Backend == INSTANCE ForwardCheck

Wrong == -1

maxBatch == IF MaxBatchArg <= 0 \/ MaxBatchArg > Backend!MaxBatchSeqs THEN 8 ELSE MaxBatchArg

\* What r gets when it runs alone: up to EOS or the tokens it asked for.
SoloLen == [r \in Requests |-> IF EosAt[r] < MaxNew[r] THEN EosAt[r] ELSE MaxNew[r]]

NoMetrics ==
  [total |-> 0, done |-> 0, tokens |-> 0, prefill |-> 0, steps |-> 0, batched |-> 0,
   ttft |-> 0, itl |-> 0, runningSeqs |-> 0, queuedReqs |-> 0, kvUsed |-> 0]

Init ==
  /\ KVInit
  /\ sub = [r \in Requests |-> "new"]
  /\ queue = <<>>
  /\ stopping = FALSE
  /\ pc = "idle"
  /\ running = <<>> /\ waiting = <<>> /\ todo = <<>> /\ stepReqs = <<>>
  /\ skipped = <<>> /\ nxt = <<>> /\ dying = <<>>
  /\ budget = 0 /\ logits = <<>> /\ why = "open" /\ after = "loop"
  /\ prefilled = [r \in Requests |-> FALSE]
  /\ nextTok = [r \in Requests |-> 0]
  /\ generated = [r \in Requests |-> 0]
  /\ tokens = [r \in Requests |-> <<>>]
  /\ ending = [r \in Requests |-> "open"]
  /\ cells = <<>>
  /\ m = NoMetrics

-----------------------------------------------------------------------------
(* Submit, on the caller's goroutine. *)

BadRequest(r) == PromptLen[r] = 0 \/ MaxNew[r] <= 0 \/ PromptLen[r] > MaxSeq

loopVars == <<kvVars, pc, lists, step, request, cells>>

Submitted(r, s) == sub' = [sub EXCEPT ![r] = s]

SubmitReject(r) ==
  /\ sub[r] = "new"
  /\ BadRequest(r)
  /\ Submitted(r, "rejected")
  /\ UNCHANGED <<loopVars, queue, stopping, m>>

\* The select's send: the request is in the scheduler's hands before Submit
\* has counted it or returned.
SubmitSend(r) ==
  /\ sub[r] = "new"
  /\ ~ BadRequest(r)
  /\ Len(queue) < QueueCap
  /\ queue' = Append(queue, r)
  /\ Submitted(r, "sent")
  /\ UNCHANGED <<loopVars, stopping, m>>

SubmitReturn(r) ==
  /\ sub[r] = "sent"
  /\ m' = [m EXCEPT !.total = @ + 1]
  /\ Submitted(r, "accepted")
  /\ UNCHANGED <<loopVars, queue, stopping>>

\* The select's other case; with room in the channel too, either is taken.
SubmitStopped(r) ==
  /\ sub[r] = "new"
  /\ ~ BadRequest(r)
  /\ stopping
  /\ Submitted(r, "rejected")
  /\ UNCHANGED <<loopVars, queue, stopping, m>>

\* Stop, called once, up to its wait for doneCh.
Stop ==
  /\ ~ stopping
  /\ stopping' = TRUE
  /\ UNCHANGED <<loopVars, sub, queue, m>>

clientVars == <<sub, stopping>>

-----------------------------------------------------------------------------
(* run: the top of the loop, and taking requests off the channel. *)

\* Mutant: sleep whenever nothing runs, whoever waits.
LoopTopForgetsWaiting(run, wait) == IF run = <<>> THEN "idle" ELSE "drain"

LoopTop(run, wait) == IF run = <<>> /\ wait = <<>> THEN "idle" ELSE "drain"

\* Both the idle select and the drain select receive like this.
Receive(from) ==
  /\ pc = from
  /\ queue # <<>>
  /\ waiting' = Append(waiting, Head(queue))
  /\ queue' = Tail(queue)
  /\ pc' = "drain"
  /\ UNCHANGED <<kvVars, clientVars, running, todo, stepReqs, skipped, nxt, dying, step,
                 request, cells, m>>

IdleReceive == Receive("idle")
DrainReceive == Receive("drain")

\* Stopped while idle: run returns at once.
IdleStop ==
  /\ pc = "idle"
  /\ stopping
  /\ pc' = "halted"
  /\ UNCHANGED <<kvVars, clientVars, queue, lists, step, request, cells, m>>

\* run fails the requests of ds, in order, and goes on at label next.
StartFailing(ds, reason, next) ==
  /\ dying' = ds
  /\ why' = reason
  /\ after' = next
  /\ pc' = "failing"

\* Mutant: finish what waits before honouring the stop.
StopSeenLate == stopping /\ waiting = <<>>

\* The stop case of the drain select is ready.
StopSeen == stopping

\* Stopped while draining: fail what is running and waiting, then return.
\* The channel is not looked at again.
DrainStop ==
  /\ pc = "drain"
  /\ StopSeen
  /\ StartFailing(running \o waiting, "stopped", "halted")
  /\ running' = <<>>
  /\ waiting' = <<>>
  /\ UNCHANGED <<kvVars, clientVars, queue, todo, stepReqs, skipped, nxt, budget, logits,
                 request, cells, m>>

\* Mutant: the new requests go before the running ones.
AdmittedFirst(k) == SubSeq(waiting, 1, k) \o running

\* running, once the k oldest waiting requests have joined it.
Admitted(k) == running \o SubSeq(waiting, 1, k)

\* Nothing to receive and no stop: admit the oldest waiting requests into the
\* free batch slots, set the gauges, and start a batch.
Admit ==
  LET room == IF Len(running) < maxBatch THEN maxBatch - Len(running) ELSE 0
      k == IF room < Len(waiting) THEN room ELSE Len(waiting)
  IN  /\ pc = "drain"
      /\ queue = <<>>
      /\ ~ StopSeen
      /\ todo' = Admitted(k)
      /\ running' = <<>>
      /\ waiting' = SubSeq(waiting, k + 1, Len(waiting))
      /\ m' = [m EXCEPT !.runningSeqs = Len(todo'),
                        !.queuedReqs = Len(waiting'),
                        !.kvUsed = NumBlocks - Len(free)]
      /\ budget' = MaxSeq
      /\ stepReqs' = <<>>
      /\ skipped' = <<>>
      /\ pc' = "form"
      /\ UNCHANGED <<kvVars, clientVars, queue, nxt, dying, logits, why, after, request, cells>>

-----------------------------------------------------------------------------
(* run: forming the batch, one running request at a time. *)

\* The tokens r feeds: its prompt, or the token it sampled last.
FeedLen(r) == IF prefilled[r] THEN 1 ELSE PromptLen[r]

\* Mutant: a request fits as long as there is any budget left.
FitsLoosely(r) == budget > 0

Fits(r) == FeedLen(r) <= budget

\* Mutant: continue without appending.
RequeueDrops(r) == UNCHANGED waiting

\* r waits for another step.
Requeue(r) == waiting' = Append(waiting, r)

Forming(r) ==
  /\ pc = "form"
  /\ todo # <<>>
  /\ r = Head(todo)
  /\ todo' = Tail(todo)

\* More tokens than the step has left: a prompt waits for another step, an
\* established sequence stays in flight and is skipped.
FormOverBudget ==
  \E r \in Requests :
    /\ Forming(r)
    /\ ~ Fits(r)
    /\ IF prefilled[r]
       THEN skipped' = Append(skipped, r) /\ UNCHANGED waiting
       ELSE Requeue(r) /\ UNCHANGED skipped
    /\ UNCHANGED <<kvVars, clientVars, queue, pc, running, stepReqs, nxt, dying, step,
                   request, cells, m>>

FormJoin ==
  \E r \in Requests :
    /\ Forming(r)
    /\ Fits(r)
    /\ ReserveOk(r, FeedLen(r))
    /\ budget' = budget - FeedLen(r)
    /\ stepReqs' = Append(stepReqs, r)
    /\ UNCHANGED <<clientVars, queue, pc, running, waiting, skipped, nxt, dying, logits, why,
                   after, request, cells, m>>

\* No blocks for a prompt: it waits, with the blocks it did get.
FormWait ==
  \E r \in Requests :
    /\ Forming(r)
    /\ Fits(r)
    /\ ~ prefilled[r]
    /\ ReserveShort(r, FeedLen(r))
    /\ Requeue(r)
    /\ UNCHANGED <<clientVars, queue, pc, running, stepReqs, skipped, nxt, dying, step,
                   request, cells, m>>

\* Mutant: an established sequence without a block tries again.
FormFailRetries ==
  \E r \in Requests :
    /\ Forming(r)
    /\ Fits(r)
    /\ prefilled[r]
    /\ ReserveShort(r, FeedLen(r))
    /\ skipped' = Append(skipped, r)
    /\ UNCHANGED <<clientVars, queue, pc, running, waiting, stepReqs, nxt, dying, step,
                   request, cells, m>>

\* No block for an established sequence: it fails, there and then.
FormFail ==
  \E r \in Requests :
    /\ Forming(r)
    /\ Fits(r)
    /\ prefilled[r]
    /\ ReserveShort(r, FeedLen(r))
    /\ StartFailing(<<r>>, "noblocks", "form")
    /\ UNCHANGED <<clientVars, queue, running, waiting, stepReqs, skipped, nxt, budget, logits,
                   request, cells, m>>

\* A step with nobody in it is not run.
FormEmpty ==
  /\ pc = "form"
  /\ todo = <<>>
  /\ stepReqs = <<>>
  /\ running' = skipped
  /\ skipped' = <<>>
  /\ pc' = LoopTop(running', waiting)
  /\ UNCHANGED <<kvVars, clientVars, queue, waiting, todo, stepReqs, nxt, dying, step,
                 request, cells, m>>

FormDone ==
  /\ pc = "form"
  /\ todo = <<>>
  /\ stepReqs # <<>>
  /\ pc' = "forward"
  /\ UNCHANGED <<kvVars, clientVars, queue, lists, step, request, cells, m>>

-----------------------------------------------------------------------------
(* run: the forward pass. *)

Batch ==
  [i \in DOMAIN stepReqs |->
     [n |-> FeedLen(stepReqs[i]), pos |-> len[stepReqs[i]], table |-> table[stepReqs[i]]]]

\* Where position p of r lies in the pool.
Cell(r, p) == <<table[r][(p \div BlockSize) + 1], p % BlockSize>>

\* The new positions of the batch's requests, and the token fed at each.
Fed == UNION {{r} \X (len[r] .. len[r] + FeedLen(r) - 1) : r \in ToSet(stepReqs)}
FedToken(r, p) == IF prefilled[r] THEN nextTok[r] ELSE p

\* kv_append: each new token's K and V go to its cell.
Appended ==
  LET hits(c) == {x \in Fed : Cell(x[1], x[2]) = c}
  IN  [c \in DOMAIN cells \cup {Cell(x[1], x[2]) : x \in Fed} |->
         IF hits(c) = {} THEN cells[c]
         ELSE LET x == CHOOSE x \in hits(c) : TRUE IN <<x[1], FedToken(x[1], x[2])>>]

\* Attention over positions 0 .. n-1 of r reads what r wrote there.
Intact(kv, r, n) ==
  \A p \in 0 .. n - 1 : Cell(r, p) \in DOMAIN kv /\ kv[Cell(r, p)] = <<r, p>>

\* The backend or the device reports an error: every request of the batch and
\* every skipped one is failed.
FailBatch(reason) ==
  /\ StartFailing(stepReqs \o skipped, reason, "loop")
  /\ stepReqs' = <<>>
  /\ skipped' = <<>>
  /\ UNCHANGED <<kvVars, clientVars, queue, running, waiting, todo, nxt, budget, logits,
                 request, m>>

ForwardRefused ==
  /\ pc = "forward"
  /\ ~ Backend!Accepts(Batch)
  /\ FailBatch("refused")
  /\ UNCHANGED cells

\* A CUDA call fails, before or after the KV was written.
ForwardFault ==
  /\ pc = "forward"
  /\ Backend!Accepts(Batch)
  /\ FailBatch("fault")
  /\ cells' \in {cells, Appended}

ForwardOk ==
  /\ pc = "forward"
  /\ Backend!Accepts(Batch)
  /\ cells' = Appended
  /\ logits' = [i \in DOMAIN stepReqs |->
                  LET r == stepReqs[i]
                      n == len[r] + FeedLen(r)
                  IN  IF Intact(cells', r, n) THEN n ELSE Wrong]
  /\ m' = [m EXCEPT !.steps = @ + 1, !.batched = @ + Len(stepReqs)]
  /\ nxt' = skipped
  /\ skipped' = <<>>
  /\ pc' = "commit"
  /\ UNCHANGED <<kvVars, clientVars, queue, running, waiting, todo, stepReqs, dying, budget,
                 why, after, request>>

-----------------------------------------------------------------------------
(* run: after the forward, one request of the batch at a time. *)

\* Mutant: look at the token that was fed, not at the one that came out.
EosOfTheFed(r, tok) == nextTok[r] = PromptLen[r] + EosAt[r] - 1

Eos(r, tok) == tok = PromptLen[r] + EosAt[r] - 1

\* Mutant: compare the limit before counting the new token.
EndsCountsLate(r, tok) == Eos(r, tok) \/ generated[r] >= MaxNew[r]

\* tok is r's last token.
Ends(r, tok) == Eos(r, tok) \/ generated[r] + 1 >= MaxNew[r]

\* Mutant: the blocks go back before the fed tokens are committed.
SettleReleasesFirst(r, last) ==
  IF last
  THEN /\ free' = free \o table[r]
       /\ table' = [table EXCEPT ![r] = <<>>]
       /\ len' = [len EXCEPT ![r] = FeedLen(r)]
  ELSE Commit(r, FeedLen(r))

\* Commit, and Release after it if this was the end: it resets what Commit did.
Settle(r, last) == IF last THEN Release(r) ELSE Commit(r, FeedLen(r))

\* The token is sent; at EOS or the request's limit so is Done, the stream is
\* closed and the blocks go back.
CommitOne ==
  /\ pc = "commit"
  /\ stepReqs # <<>>
  /\ LET r == Head(stepReqs)
         tok == Head(logits)
         last == Ends(r, tok)
     IN  /\ Settle(r, last)
         /\ prefilled' = [prefilled EXCEPT ![r] = TRUE]
         /\ nextTok' = [nextTok EXCEPT ![r] = tok]
         /\ generated' = [generated EXCEPT ![r] = @ + 1]
         /\ tokens' = [tokens EXCEPT ![r] = Append(@, tok)]
         /\ ending' = [ending EXCEPT ![r] = IF last THEN "done" ELSE @]
         /\ nxt' = IF last THEN nxt ELSE Append(nxt, r)
         /\ m' = [m EXCEPT !.tokens = @ + 1,
                           !.prefill = IF prefilled[r] THEN @ ELSE @ + PromptLen[r],
                           !.ttft = IF prefilled[r] THEN @ ELSE @ + 1,
                           !.itl = IF prefilled[r] THEN @ + 1 ELSE @,
                           !.done = IF last THEN @ + 1 ELSE @]
  /\ stepReqs' = Tail(stepReqs)
  /\ logits' = Tail(logits)
  /\ UNCHANGED <<clientVars, queue, pc, running, waiting, todo, skipped, dying, budget, why,
                 after, cells>>

CommitDone ==
  /\ pc = "commit"
  /\ stepReqs = <<>>
  /\ running' = nxt
  /\ nxt' = <<>>
  /\ pc' = LoopTop(running', waiting)
  /\ UNCHANGED <<kvVars, clientVars, queue, waiting, todo, stepReqs, skipped, dying, step,
                 request, cells, m>>

-----------------------------------------------------------------------------
(* run: fail, for each request of dying. *)

\* Mutant: the blocks are not given back.
FailKeepsBlocks(r) ==
  /\ UNCHANGED kvVars
  /\ ending' = [ending EXCEPT ![r] = why]
  /\ m' = [m EXCEPT !.done = @ + 1]

\* Mutant: only requests that finish are counted.
FailUncounted(r) ==
  /\ Release(r)
  /\ ending' = [ending EXCEPT ![r] = why]
  /\ UNCHANGED m

Fail(r) ==
  /\ Release(r)
  /\ ending' = [ending EXCEPT ![r] = why]
  /\ m' = [m EXCEPT !.done = @ + 1]

FailOne ==
  /\ pc = "failing"
  /\ dying # <<>>
  /\ Fail(Head(dying))
  /\ dying' = Tail(dying)
  /\ UNCHANGED <<clientVars, queue, pc, running, waiting, todo, stepReqs, skipped, nxt, step,
                 prefilled, nextTok, generated, tokens, cells>>

FailDone ==
  /\ pc = "failing"
  /\ dying = <<>>
  /\ pc' = IF after = "loop" THEN LoopTop(running, waiting) ELSE after
  /\ UNCHANGED <<kvVars, clientVars, queue, lists, step, request, cells, m>>

-----------------------------------------------------------------------------
Form == FormOverBudget \/ FormJoin \/ FormWait \/ FormFail \/ FormEmpty \/ FormDone
Forward == ForwardRefused \/ ForwardFault \/ ForwardOk

Loop ==
  \/ IdleReceive \/ IdleStop
  \/ DrainReceive \/ DrainStop \/ Admit
  \/ Form
  \/ Forward
  \/ CommitOne \/ CommitDone
  \/ FailOne \/ FailDone

Submit(r) == SubmitReject(r) \/ SubmitSend(r) \/ SubmitReturn(r) \/ SubmitStopped(r)

\* run has returned and no Submit is under way.
Halted ==
  /\ pc = "halted"
  /\ \A r \in Requests : sub[r] \in {"accepted", "rejected"}
  /\ UNCHANGED vars

Next == Loop \/ Stop \/ Halted \/ \E r \in Requests : Submit(r)

Spec == Init /\ [][Next]_vars

\* The Go runtime schedules every goroutine that can run: the loop, and a
\* Submit that has only its last two statements left.  Nobody has to call
\* Submit or Stop, and the forward may fail or not.
Fairness ==
  /\ WF_vars(Loop)
  /\ \A r \in Requests : WF_vars(SubmitReturn(r))

FairSpec == Spec /\ Fairness
=============================================================================
