------------------------- MODULE SchedulerProperties -------------------------
(***************************************************************************)
(* What the scheduler of engine/scheduler.go has to get right.             *)
(***************************************************************************)
EXTENDS Scheduler

Endings == {"open", "done", "stopped", "noblocks", "refused", "fault"}

\* The type of every variable of the loop, the requests and the clients.
TypeOK ==
  /\ KVTypeOK
  /\ sub \in [Requests -> {"new", "sent", "accepted", "rejected"}]
  /\ queue \in Seq(Requests)
  /\ stopping \in BOOLEAN
  /\ pc \in {"idle", "drain", "form", "forward", "commit", "failing", "halted"}
  /\ running \in Seq(Requests)
  /\ waiting \in Seq(Requests)
  /\ todo \in Seq(Requests)
  /\ stepReqs \in Seq(Requests)
  /\ skipped \in Seq(Requests)
  /\ nxt \in Seq(Requests)
  /\ dying \in Seq(Requests)
  /\ budget \in Nat
  /\ logits \in Seq(Nat \cup {Wrong})
  /\ why \in Endings
  /\ after \in {"loop", "form", "halted"}
  /\ prefilled \in [Requests -> BOOLEAN]
  /\ nextTok \in [Requests -> Nat \cup {Wrong}]
  /\ generated \in [Requests -> Nat]
  /\ tokens \in [Requests -> Seq(Nat \cup {Wrong})]
  /\ ending \in [Requests -> Endings]

Taken(r) == sub[r] \in {"sent", "accepted"}
Closed(r) == ending[r] # "open"
Live == {r \in Requests : Taken(r) /\ ~ Closed(r)}

-----------------------------------------------------------------------------
(* Custody. *)

Custody == queue \o waiting \o running \o todo \o stepReqs \o skipped \o nxt \o dying

\* Every accepted request whose stream is open is in exactly one of the lists
\* the loop works on, once, and a closed one is in none: no request is lost,
\* run twice in a step, or touched after its stream was closed (the appends,
\* slicings and continues of run).
InExactlyOneList ==
  /\ IsInjective(Custody)
  /\ Range(Custody) = Live

\* The stream channel has room for every send (made with capacity maxNew+1),
\* even if its reader never takes anything: the loop never blocks on a client.
NeverBlocks ==
  \A r \in Requests :
    Len(tokens[r]) + (IF Closed(r) THEN 1 ELSE 0) <= MaxNew[r] + 1

-----------------------------------------------------------------------------
(* KV. *)

\* Every written position of every live request still holds what the request
\* wrote there, whoever else was batched, failed or released in between.
KVIsolated == \A r \in Requests : Intact(cells, r, len[r])

\* Blocks are held only by requests that are waiting or in flight: a request
\* that ended by any path has given all of them back.
HoldersAreLive ==
  \A r \in Requests : table[r] # <<>> => r \in Range(Custody) \ Range(queue)

\* The loop's own accounting keeps every batch within the backend's limits:
\* the only check that can refuse one is the range of a sequence.
BatchWithinLimits ==
  pc = "forward" =>
    /\ ~ Backend!BadCount(Batch)
    /\ ~ Backend!TooManyTokens(Batch)
    /\ \A i \in DOMAIN Batch :
         LET e == Batch[i]
             w == Backend!Width(Batch)
         IN  \/ Backend!OutOfRange(e)
             \/ ~ Backend!BadSequence(e, w)
    /\ (\A i \in DOMAIN Batch : ~ Backend!OutOfRange(Batch[i])) => ~ Backend!StagingFull(Batch)

\* A decode is never left out of a step, whatever the number of batch slots:
\* prompts join behind the decodes and only with budget to spare, so there are
\* never more decodes than a step has tokens (docs/JOURNAL.md says it for a
\* budget of at least the batch size; the skipped list is never used).
DecodesNeverSkipped ==
  /\ skipped = <<>>
  /\ Cardinality({r \in Range(running \o todo \o stepReqs \o nxt) : prefilled[r]}) <= MaxSeq

-----------------------------------------------------------------------------
(* Metrics. *)

Counted == {r \in Requests : sub[r] = "accepted"}
Ended == {r \in Requests : Closed(r)}
Begun == {r \in Requests : tokens[r] # <<>>}

\* The tokens sent, and the tokens of the prompts that are in.
Sent == UNION {{r} \X DOMAIN tokens[r] : r \in Requests}
PromptsIn == UNION {{r} \X (1 .. PromptLen[r]) : r \in Begun}

\* The tokens of the step's forward that are still to be committed.
Uncommitted == IF pc = "commit" THEN Len(stepReqs) ELSE 0

\* Between two steps, the counters agree with each other and with what the
\* clients were sent, and RequestsTotal lags only by the Submits under way.
MetricsAddUp ==
  /\ m.total = Cardinality(Counted)
  /\ m.done = Cardinality(Ended)
  /\ m.tokens = Cardinality(Sent)
  /\ m.prefill = Cardinality(PromptsIn)
  /\ m.ttft = Cardinality(Begun)
  /\ m.ttft + m.itl = m.tokens
  /\ m.batched = m.tokens + Uncommitted

-----------------------------------------------------------------------------
(* Refinement. *)

\* Batching is invisible except in timing: seen from its client, each request
\* is a stream served alone, in order, nothing made up, and complete if it
\* ends with Done.
Service ==
  INSTANCE StreamService
    WITH phase <- [r \in Requests |->
                     CASE sub[r] = "new" -> "new"
                       [] sub[r] = "rejected" -> "refused"
                       [] Taken(r) /\ ending[r] = "open" -> "open"
                       [] Taken(r) /\ ending[r] = "done" -> "done"
                       [] OTHER -> "failed"],
         stream <- [r \in Requests |->
                      [k \in DOMAIN tokens[r] |-> tokens[r][k] - PromptLen[r] + 1]]
ServesAlone == Service!ServiceSpec

\* The loop uses the allocator as the allocator's specification requires: in
\* particular it commits only tokens that a successful Reserve covered.
UsesAllocator == KVSpec

-----------------------------------------------------------------------------
(* Stopping, and liveness. *)

\* Stop returns: the loop sees the closed stopCh whatever it is doing, also
\* when every waiting prompt is short of blocks.
StopTerminates == stopping ~> pc = "halted"

\* A request that has its first token is served to its end, also when there
\* are more running requests than tokens in a step's budget.
DecodesNeverStarve == \A r \in Requests : prefilled[r] ~> Closed(r)

\* Deadlocked: nobody runs, and what each prompt lacks is more than what is left.
Hoarded == \A r \in Live : ~ prefilled[r] /\ Missing(r, PromptLen[r]) > Len(free)

\* A request the scheduler has taken gets its terminal event, unless the
\* scheduler stops with the request in the channel or the live prompts, this
\* one among them, hoard the pool.
Answered ==
  \A r \in Requests :
    Taken(r) ~>
      Closed(r) \/ (pc = "halted" /\ r \in Range(queue)) \/ (r \in Live /\ Hoarded)

-----------------------------------------------------------------------------
(* The strengthening that makes the type, custody, the allocator's use and *)
(* the room in the streams inductive.                                      *)

Lists == <<queue, waiting, running, todo, stepReqs, skipped, nxt, dying>>

\* No list holds a request twice, and no two lists hold the same one.
ListsDistinct ==
  /\ \A a \in 1 .. 8 : IsInjective(Lists[a])
  /\ \A a, b \in 1 .. 8 : a # b => Range(Lists[a]) \cap Range(Lists[b]) = {}

\* The lists hold the live requests.
ListsAreLive == UNION {Range(Lists[a]) : a \in 1 .. 8} = Live

\* Which lists are empty at each point of the loop.
ListsOfPhase ==
  /\ pc = "idle" => running = <<>> /\ waiting = <<>>
  /\ pc \in {"idle", "drain", "halted"} =>
       todo = <<>> /\ stepReqs = <<>> /\ skipped = <<>> /\ nxt = <<>> /\ dying = <<>>
  /\ pc = "form" => running = <<>> /\ nxt = <<>> /\ dying = <<>>
  /\ pc = "forward" => running = <<>> /\ todo = <<>> /\ nxt = <<>> /\ dying = <<>>
  /\ pc = "commit" => running = <<>> /\ todo = <<>> /\ skipped = <<>> /\ dying = <<>>
  /\ pc = "failing" =>
       /\ running = <<>> /\ nxt = <<>>
       /\ why # "open"
       /\ after \in {"loop", "halted"} => todo = <<>> /\ stepReqs = <<>> /\ skipped = <<>>
       /\ after = "halted" => waiting = <<>>
  /\ pc = "halted" => running = <<>> /\ waiting = <<>>

\* The table of each request of the batch covers what it feeds.
BatchCovered ==
  \A i \in DOMAIN stepReqs : Covered(stepReqs[i], FeedLen(stepReqs[i]))

\* A token for every request of the batch that is still to be committed.
LogitsMatch == pc = "commit" => Len(logits) = Len(stepReqs)

\* Only requests Submit let through are ever taken.
TakenAreGood == \A r \in Requests : Taken(r) => ~ BadRequest(r)

\* What Submit has not let through has been sent nothing.
UntakenUntouched ==
  \A r \in Requests : ~ Taken(r) => ending[r] = "open" /\ generated[r] = 0

\* A live request still has a token to come.
TokensCounted ==
  \A r \in Requests :
    /\ generated[r] = Len(tokens[r])
    /\ generated[r] <= MaxNew[r]
    /\ r \in Live => generated[r] < MaxNew[r]

IndInv ==
  /\ TypeOK
  /\ ListsDistinct
  /\ ListsAreLive
  /\ ListsOfPhase
  /\ BatchCovered
  /\ LogitsMatch
  /\ TakenAreGood
  /\ UntakenUntouched
  /\ TokensCounted
=============================================================================
