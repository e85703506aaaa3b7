# KLLM: a verification project

KLLM is an LLM inference engine in Go over a CUDA backend. Its serving core is
a *continuous batching scheduler* over a *paged KV cache*: one goroutine decides,
step by step, which requests feed tokens to one batched forward pass, and which
blocks of a fixed pool each of them holds. This directory models that core in
TLA+, with what is around it (the loading of a model from its shards, the
single-sequence path, the kernels that reduce over shared memory, the mixture of
experts, the metrics registry, the HTTP handler and the load generator that
measures it), checks it with TLC on small instances, and proves
with TLAPS what matters most for every instance.

Paths below are relative to the repository's sources (`src/`).

## 1. Inventory

### Components, their state and operations

| component | source | state | operations |
|---|---|---|---|
| KV allocator | `engine/kv/kv.go` | free list (LIFO); per sequence a block table and a length | `Reserve`, `Commit`, `Release` |
| scheduler | `engine/scheduler.go` | request channel, `stopCh`, `doneCh`; on `run`'s stack: `running`, `waiting`, `stepReqs`, `skipped`, `next`, `budget`; per request: `prefilled`, `nextTok`, `generated`, its stream | `Submit`, `Start`, `Stop`, the loop `run` |
| engine | `engine/engine.go` | the backend handle, the allocator | `New`, `NewSequence`, `Step`, `Commit`, `Forward`, `Release`, `Generate` |
| backend (Go) | `engine/backend/*.go` | a reference on the library | `Load`, `LoadTensor*`, `ForwardBatch` (validation, flattening), `Close` |
| device model | `backend/model.cu`, `shim.cu` | one process-wide model: created, tensors, finalized; KV pool; staging buffers | `te_model_create`, `load_tensor(_w4)`, `finalize`, `set_*`, `te_forward_batch` |
| metrics | `engine/metrics/metrics.go` | atomic counters and gauges; histograms, each with a mutex | `Inc`, `Set`, `Observe`, `UpdateTokPerSec`, `WriteProm`, `Snapshot` |
| server | `server/server.go` | none of its own | `/v1/generate` (SSE), `/metrics`, `/stats.json`, `/healthz` |
| configuration | `models/config.go` | none | `LoadConfig`, `Backend`, `LayerSlidingFlags`, `Validate` |
| loader | `engine/loader/safetensors.go` | the open shard files, the index of tensors by name | `parse`, `Open`, `OpenModel`, `Tensor(s)`, `ReadTensor`, `Close` |
| commands | `cmd/serve`, `cmd/loadgen`, `cmd/bench`, ... | worker pools | start, drive, stop |

### How they interact

`server` calls `Scheduler.Submit` on a goroutine per HTTP request and relays the
returned stream. `Submit` sends the request on a bounded channel; `run` receives
it, reserves blocks from the allocator, calls `ForwardBatch` with one entry per
request of the step, and sends each sampled token on the request's own channel.
`ForwardBatch` validates, flattens the entries and their block tables, and
`te_forward_batch` validates again, writes K and V through the tables, and reads
them back through the same tables in attention. `Stop` closes `stopCh` and waits
for `run` to return. The metrics registry is shared by all of them: callers of
`Submit` and the loop write it while handlers of `/metrics` read it word by word.

`engine.New` loads the library, opens every shard of a checkpoint, uploads its
tensors one by one in the order of their names, and closes the shards again; what
it returns on an error must leave nothing behind. `cmd/generate` and `cmd/bench`
call `Generate` and `Forward` on one goroutine, over the same allocator.

### What is hard

* *Concurrency.* Callers of `Submit`, the caller of `Stop` and the loop race on
  the request channel, on `stopCh` and on the counters. Everything else is owned
  by the loop's goroutine, and correctness rests on that ownership.
* *Resource limits.* The pool of blocks, the token budget of a step, the batch
  slots, the channel's capacity, `MaxSeq`, and the capacity of each stream, all
  bite independently of one another.
* *Failure.* A `Reserve` may fail for a prompt (wait) or for a decode (fail); a
  forward may be refused or may fault on the device; a stop may come at any time.
* *Ordering.* Requests move between eight lists by appends, re-slicings and
  `continue`s. Blocks are reused LIFO, so a mistake shows at once as one request
  reading another's context.
* *A process-wide model.* `engine.New` creates, fills and finalizes a model that is
  a global of the library; any step may fail, and Close unloads the library on one
  platform only.
* *Lists of weights kept twice.* What `te_model_finalize` asks for and what
  `te_forward_batch` reads is written down separately, per architecture.
* *Threads of a block.* The kernels use one scratch twice with barriers between;
  `moe_forward` permutes rows on the host and adds them back with atomics, in
  buffers that are used again by every layer.
* *Handles of several kinds.* Between the start of `New` and its return are a
  library reference, a list of open shards, one shard being parsed and a half filled
  model; each error return gives up a different part of them.
* *Checkpoints in pieces.* A quantized weight and its scales are two tensors, maybe
  of two shards, and the upload counts on an order over all of them.
* *Scrapes.* A rendering reads some forty words while the loop writes them.
* *Truncated responses.* The HTTP status goes out before the first token, so a
  failure later is only a line of the stream, and a cut connection looks like an end.
* *Termination.* The loop must sleep only when there is nothing to do, and must
  end when told to.

The full list, at its lines and with the properties that watch it, is under
`hazards` in `PROJECT.json`.

### What makes each component correct

* **Allocator**: every block is on the free list or in one table, once; written
  positions are covered by the table and stay in their block.
* **Scheduler**: no request lost, duplicated or touched after its end; each
  client sees the tokens it would get alone, whatever it was batched with; the
  loop never blocks on a client; a batch is always within the backend's limits;
  blocks come back by every path; decodes are served to the end; a stop ends it.
* **Backend**: a batch is refused before anything is written; the device reads
  only what the same sequence wrote.
* **Metrics**: the counters agree with each other and with what was delivered, and what
  a scrape shows of its histograms could have been true: each is of one moment, and each explains
  the loop's counters that were rendered before it.
* **Server**: what a client reads is a prefix of its stream, with one line at the end that
  says how it ended; a handler returns when the stream does, its client there or not.
* **Load generator**: only a request served to its end counts, a reported level counts
  each, and a level ends whatever breaks.
* **Lifecycle and configuration**: an engine that is returned has the weights of its own
  checkpoint, all that a forward reads, and slides in the layers the checkpoint says.
* **Kernels**: no two threads touch a cell at once, and the parallel versions compute the
  sums the naive ones do. **Experts**: each token gets its own experts, weighted, once.
* **Loader**: a checkpoint is served or refused for what its files say, however it is cut
  into shards (one overflow apart, section 5); no file stays open, and no library reference, on any return.
* **Single sequences**: `Generate` returns the whole text, or an error that means there was
  no room, and gives back what it took.

## 2. Modules

| module | what it is |
|---|---|
| `KVAllocator` | `engine/kv`: free list, tables, lengths; `Reserve` complete and short, `Commit`, `Release` |
| `BlockPool` | the abstract pool the allocator implements: sets, no order |
| `ForwardCheck` | pure operators: what `Handle.ForwardBatch` and `te_forward_batch` check of a batch |
| `Scheduler` | `engine/scheduler.go`, composed with the allocator (EXTENDS) and the checks (INSTANCE) |
| `StreamService` | the abstract service a client is promised: requests served alone |
| `SchedulerProperties` | the properties, and the inductive invariant of custody |
| `SchedulerClaims` | what comments and docs say and the code does not do |
| `MCScheduler` | the instances for TLC |
| `ModelConfig` | pure operators: `models/config.go`, `te_model_create`'s checks, and the weights finalize asks for and a forward reads |
| `Generate` | `Sequence.Forward`, `Engine.Generate` and the calls of `cmd/bench`, over `KVAllocator` (EXTENDS) and `ForwardCheck` (INSTANCE) |
| `ModelLifecycle` | `engine.New`, `uploadWeights`, `Close` over the global model of `model.cu` |
| `LifecycleClaims`, `MCLifecycle` | what a comment says of it; the checkpoints for TLC |
| `Loader`, `MCLoader` | `loader.OpenModel`, `parse`, `backend.Load` and `uploadWeights` over the files of a checkpoint; refines `ModelLifecycle` (EXTENDS) |
| `ThreadBlock`, `MCThreadBlock` | one thread block of the reducing kernels: attention, W4 products (v1, v2), norms |
| `MoERouting`, `MCMoERouting` | `moe_forward`: router, permutation, experts, atomic adds |
| `Metrics`, `MCMetrics` | `engine/metrics`: writers and scrapes of the registry, an access at a time |
| `Server` | the handler of POST /v1/generate, over `StreamService` (EXTENDS) |
| `LoadGen`, `MCLoadGen` | `cmd/loadgen` over `Server` (EXTENDS) |
| `KVAllocatorProofs`, `SchedulerProofs`, `GenerateProofs`, `LoaderProofs`, `ThreadBlockProofs`, `MoERoutingProofs`, `LoadGenProofs`, `MetricsProofs` | theorems |

The scheduler is shown to implement `StreamService` (`ServesAlone`), and the server is built on
`StreamService`: what holds of the server holds of it over the real scheduler, as
far as safety goes.

A definition that begins with "Mutant:" in its comment is a plausible bug, kept
beside the definition it would replace; it shows that the properties notice.

### Correspondence with the code

*Allocator.* `free` is `Allocator.free` (its last element is popped first),
`table[s]` and `len[s]` are `Sequence.blocks` and `Sequence.len`. `Reserve` is one action
per outcome: its loop pops a block at a time, and since one goroutine makes
every call nobody sees the loop half done; when the pool runs dry the blocks
already popped stay in the table, as in the code.

*Submit* is three steps, because other goroutines run in between: the check
(`SubmitReject`), the `select` (`SubmitSend`, `SubmitStopped`), and the increment of
`RequestsTotal` that follows the send (`SubmitReturn`).

*run* is a program counter:

| `pc` | code |
|---|---|
| `idle` | the first `select`, blocking (scheduler.go:116-123) |
| `drain` | the second `select` and, by its default, admission and gauges (124-153) |
| `form` | the loop that builds `stepReqs` (164-193), one request per step |
| `forward` | `ForwardBatch` and its error path (195-209) |
| `commit` | the loop over the logits (210-234), one request per step |
| `failing` | `fail` for a list of requests; `after` says where it was called from |
| `halted` | returned |

`todo` is what the forming loop has not looked at yet; `dying` what the failing
loop has not. A step of the model touches one request at a time wherever other
goroutines (Submit, Stop) can observe the difference through the channels and
the counters.

*Tokens and KV contents.* A token is named by its position in the text its
request would produce alone, and a KV cell records which request wrote which
token there. `ForwardOk` appends the new rows through the tables, as the kernel
does, and a row's arg max is the right next token exactly if every cell attention reads
through the table holds what that request wrote at that position; otherwise it is
`Wrong`. That is how batching, block reuse, failures and retries can be shown
invisible without modelling a kernel's arithmetic. It assumes the arithmetic of
a row does not depend on the other rows of the batch (the repository's end-to-end
tests compare batched with single runs).

*Streams.* `tokens[r]` are the token events sent, `ending[r]` the Done event that closed
the stream (or `open`). The reader of the stream is not modelled: the loop's sends never
block (`NeverBlocks`, proved), so what the reader does cannot matter to it.

*Life cycle.* `at` says where `New` is; each call into the library is an action, with
an action for its failure, and `Fail` is the error return with its deferred Close. Close
unloads the library on Windows (the model goes with it) and does nothing of the kind in
the cgo build: `Fail` and `EngineClose` allow both. A tensor is a name, a form and
whether its shape fits; the call that loaded it is kept, so that a leftover
of an earlier call would show. `Has` is how finalize looks a weight up (`require_proj`), `Finds` how a forward
does: its products go through `mm`, which has a choice of form of its own (`Mm`). Numbers of the configuration that are only passed
on (theta, eps, scales) are left out.

*Loader.* A shard is a number, in the order of the paths; a checkpoint's `dir` says what its
index, its files and their headers are, each entry a shape, a type and two offsets. `step` is where `New` is
within its configuration and opening, `paths` the shards still to open, taken in their order, `cur` the one being parsed, `files` the `m.Files` of
`OpenModel`, `fds` the files that are open, `lib` the references held on the library, `list` the
names that `uploadWeights` still has to send, taken in the order of `Place` (`Model.Tensors` sorts them). Each action that refuses says in `blame` whether
the files were the reason. An index that cannot be read is no index, as in the code; which tensor it
says is in which file is not looked at by the code either. What `ModelLifecycle` calls the
tensors of a checkpoint is here computed from the entries: `Forms` pairs a `.qweight` with its
`.scales`; scales of no weight are passed over. `ContentsAssumption` says what the two views of a checkpoint have
to do with each other: one whose shards open has in `tensors` what they hold. The
largest integer is `MaxInt`, and the code's products wrap at it (`Wrap`). Entries of a file may
overlap, as the code allows. `OpenModel` of a single file, which `New` never asks for, and the metadata are
not modelled, and a `.qweight` with a dimension of zero, on which `New` panics, is excluded by
`LoaderAssumption`.

*Single sequences.* `call` is the one call under way, its stage and its result; `Others` are the
allocator's operations between two calls. `Reserve`, `ForwardFails`, `ForwardOk` and `Sample` are
the body of the loop of `Generate` and of the benchmark's decode; `Releases` says which error returns release.

*Metrics.* A goroutine's `script` is the list of the operations it makes on the registry: an `Inc` or an `Add` is
one atomic addition, an `Observe` is a lock, three writes and an unlock, a rendering reads the counters
and each histogram in the order the code does. `line` and `at` are where a goroutine is, in its script and in the
operation; each access is a step, and those of all goroutines interleave. `run` makes its
writes in the order of the code: those of a step (`Step`), then those of each of the step's requests, which `rest` holds until their turn
(`NextToken`), and one for a request it fails (`FailRequest`); `Submit` counts a request that the loop may have
taken already. All times observed are 1, so that a sum of times counts them. Gauges and `UpdateTokPerSec`
(single words that one goroutine writes) are left out. A batch is up to the number of requests, so its sizes
reach the +Inf bucket of the instance, where the sum is only bounded below.

*Thread block.* A kernel is a `Program`: stages with a barrier after each. A thread does its
part of a stage in one step; that loses no behaviour because threads in the same stage
touch different cells, which is `NoRace`, proved. A number is a term: a partial sum is the bag
of what was added, an exponential the pair of score and maximum, so a term added twice or left
out, or taken against another maximum, shows. That float addition is commutative and
associative is assumed (the repository compares with a tolerance). A dynamic scratch of
`blockDim` cells lies after `ScoreCap` scores, as in the kernel. The scratch before
the launch holds `Lowest`; nobody reads it.

*Experts.* `at` follows `moe_forward`; buffers keep what earlier calls left in
them, rows past the current ones included. A hidden state is its call and token.
Scores are positive numbers: a sigmoid that underflows to zero for every expert
picked would divide by zero, and is left to numerics.

*Server and load generator.* `handler[r]` is the goroutine of a request, `body[r]` the lines that
reached the client, `conn[r]` the connection; `Cut` breaks one at any moment, and `Killed` is the end
of the process, since `cmd/serve` handles no signal (its deferred `Stop` and `Close` run only when the
listener fails). A worker reads lines in order, and at a connection that is gone
may fail before or after the lines that had arrived.

*Logging, timing, text* are left out. TTFT and ITL are counted, not measured.

## 3. Runs

| run | instance | what it shows |
|---|---|---|
| `kv_allocator` | 3 sequences, 4 blocks of 2, MaxSeq 5, texts of up to 2 tokens | the pool is partitioned, written positions covered and stable, `BlockPool` implemented, with short reserves and blocks handed on in LIFO order; a call of Generate is whole or has no room, and gives back its blocks |
| `scheduler_tight` | 4 requests, 4 blocks of 2, MaxSeq 4, 3 slots, channel of 2 | all safety, and both refinements, where everything is scarce: a request that reaches MaxSeq, one that ends at EOS, one of a single token, one rejected; faults and a stop at any moment |
| `scheduler_starved` | 3 requests, 4 blocks of 1, MaxSeq 6, 2 slots, channel of 2 | liveness where prompts can hoard blocks: `Stop` returns, decodes finish, and every taken request is answered but for hoarding and the stop |
| `lifecycle` | two calls of `New`, some sixty checkpoint directories of one or two layers, in one file or two or three shards, with sizes up to 2047 (12 bits) | whatever failed before, an engine is its own checkpoint's, complete, and slides where it should; files and library are let go; the verdict is a matter of the files; `ModelLifecycle` is implemented |
| `metrics` | two requests of up to 2 tokens, symmetric, one scrape, one bound per histogram | what a scrape reads belongs together, and nothing counted is lost |
| `thread_block` | 4 threads, scratch after 6 scores; some 300 launches with lengths below, at and above the number of threads | the kernels are free of races and right, in any order of the threads |
| `moe_routing` | 3 experts, 2 per token, at most 2 tokens, 2 calls, scores 1 and 2, with and without bias | each token gets its mixture, with empty experts, ties, buffers used again, any order of adds |
| `load_generator` | 2 requests (of 2 tokens and 1), 2 workers; cuts, refusals, failures, a kill | nothing truncated is counted; handlers and levels end |
| `claim_*` | as `scheduler_tight`, `scheduler_starved` or `lifecycle` | four statements of docs and comments that the code does not keep (section 5) |

The properties:

* `InExactlyOneList`: every accepted request with an open stream is in exactly
  one of the eight lists, once; a closed one in none.
* `DecodesNeverSkipped`: prefills cannot crowd decodes out of a
  step. It is stronger than docs/JOURNAL.md:151 (which asks for a budget
  of at least the batch size): the branch that skips a decode is dead code,
  because prompts only join behind the decodes and with budget to spare, so that
  decodes never outnumber a step's tokens.
* `NeverBlocks`: a stream's capacity suffices for every send, also on the paths
  that fail a request after all its tokens but one.
* `KVIsolated`, `ServesAlone`: each request's cells hold what it wrote, and each stream is
  a prefix of what the request would get alone, complete when Done
  (docs/theory/04:112, "observationally invisible except in timing").
* `HoldersAreLive`: blocks come back by every path.
* `BatchWithinLimits`: the loop's accounting makes every one of the backend's
  refusals impossible but one (a sequence out of range).
* `MetricsAddUp`: seven counters agree with the streams in every state.
* `UsesAllocator`: the loop keeps to the allocator's contract; `Commit` is
  unconditional in the code, so this is where its precondition is discharged.
* `StopTerminates`, `DecodesNeverStarve`, `Answered`: liveness. `Answered` names the two ways in
  which the code leaves a taken request without an answer, and shows there is no third:
  left in the channel by a stop, and `Hoarded`, when no live request has its prompt in
  and each lacks more blocks than are free.
* `WholeTextOrNoRoom`: an error of `Generate` that is not the device's means that the text and the
  prompt do not fit the sequence or the pool; it counts the forward of the last token, which
  the scheduler does not make. `PoolComesBack`: after any end of a call the free blocks are the same,
  but for the benchmark's failed decode, which exits.
* `HistogramsWhole`, `CountersExplained`, `RegistryRight`: what a scrape shows of a histogram is of one
  moment (in /metrics as many observations in its buckets as its count says, in /stats.json a sum and a count that
  belong together: equal for the times, which are all 1, and a sum of at least the count for the batches). The
  counters of the loop are not ahead of the histograms, which are read after them and written after them; that says
  nothing of one counter against another (section 5). At rest the registry says what happened.
* `ServesItsOwn`: all that is loaded was loaded by this call of New, from this checkpoint, and
  nothing of it is left out, and the flags are those of its configuration. `ForwardFindsWeights`: no forward of a
  ready model meets a missing or misshapen weight in the middle of a step, whichever form `mm` takes of a weight that came in
  both; it leaves out gemma3 with experts, for which it is
  false (section 5). `SlidingAsConfigured`: a gemma3 pattern or list of layer types comes through
  `Backend`, `LayerSlidingFlags` and the library's own rule unchanged.
* `NothingLeftOpen`: on each of its returns New has closed every shard, and on the failed ones
  released the library. `VerdictOfFiles`: `WellFormed` says of a directory, without shards or order and with
  shapes multiplied out in full, when it can be served. Such a one is never refused for its files. An engine is built only from
  one that is `Loadable`, which is `WellFormed` but for one exception, `ComesRound`: an entry that needs more bytes than
  an int64 holds may pass with a range its product comes round to (section 5). `WellFormed` also asks that the
  product of leading dimensions fit an int64, as `parse` does. `LCSpec`: opening and uploading from shards implements `ModelLifecycle`, where the tensors
  simply come in order.
* `NoRace`: of two threads that may run at once, neither writes what the other touches.
  `AttentionRight`, `W4Right`, `NormRight`: the outputs are those of the naive kernels' definitions, for
  windows that bite, groups the vectorized product must refuse, and rows shorter
  than the block.
* `SegmentsRight`, `OutIsMixture`: the rows that an expert is run on, as the loop's offset cuts them out, are of those
  who chose it; the sums are right whatever ran before.
* `BodyFollowsStream`, `CountedIsServed`, `LevelAddsUp`: the lines follow the stream; a request counted as served
  was, to its last token; a level's total is the sum over all its requests.
  `HandlersReturn`, `LevelReturns`: neither a client that leaves nor a killed server keeps a goroutine.

### Bounds, and why they are enough

There is no state constraint and no counter is cut off: each request is
submitted once, so runs end. Four requests of different kinds are enough to have
one decoding, one prefilling, one waiting and one arriving, which is all that one step
distinguishes. Blocks are fewer than what the requests need together, so
that every path of `Reserve` is taken; blocks of two positions give partly filled blocks;
three batch slots and a channel of two fill up. `MaxSeq` 4 is reached by one
request, crosses a block boundary and is smaller than the sum of the prompts, so the
budget bites.

Two calls of `New` suffice for a leftover of one to meet the next; one layer is enough where
layers are alike and two where they differ (sliding and full). Four threads give a reduction of
two rounds, the least in which a round reads what another wrote; 1 to 6 scores and rows of 1 to 9
go below the block, meet it, and pass it once and twice. Three experts of which two are
taken leave an expert empty, and two calls let the second, shorter or longer, find the first's
buffers. A dozen bits are enough for
shapes whose product comes round, and two shards for a pair, a name or an order that is split between
them; a third is for what the index does not list. Two requests and one scrape let it meet a first and a later token,
and a submit, in every order; scrapes only read, so a second one would show nothing more.
Two workers and two requests let one fail or break while the other goes on, or
one worker serve both.

The mutants show that the instances reach the cases.

### Fairness

`FairSpec` asks weak fairness of the loop as a whole and of a Submit whose send is
done: the Go runtime schedules every runnable goroutine, and neither has
anything to wait for that the model leaves out. Nothing obliges a client to
submit, anybody to call `Stop`, or a forward to succeed. No fairness is asked
between the branches of a `select`; none of the liveness properties needs it.

`LGFairSpec` asks weak fairness of each worker, of `runLevel`, of each handler, and of
the scheduler's answer and events for each request. The last is an assumption about
the scheduler: that it ends each stream it opened. `Answered` shows when it does: where
prompts hoard blocks, or a stop leaves a request in the channel, it fails
(`claim_prefills_wait`, `claim_streams_close`), and a handler and a worker then wait with it. Neither a cut nor a kill is fair.

The remaining specifications check safety only, and state no fairness.

## 4. Proofs

All theorems are for every set of requests, pool, block size, limit and channel
capacity allowed by `KVAssumption` and `SchedulerAssumption` (natural numbers, and
block size and MaxSeq positive, as `Options.fill` ensures).

*Allocator* (`KVAllocatorProofs`). The type and the partition of the pool are
inductive together (`KVInv`). Coverage and stability of written positions, and the step
simulation of `BlockPool`, follow with them. The facts are stated of one call (`AnyCall`), whoever makes it and
with whatever count of tokens, so that each composition with the allocator uses the same lemmas.

*Scheduler* (`SchedulerProofs`). `InExactlyOneList` and `NeverBlocks` are not inductive
as they stand. `IndInv` adds: which lists are empty at each point of the loop
(`ListsOfPhase`: the reason that `running = skipped` or `running = next` loses nobody), that the
lists are disjoint and hold the live requests, that a Reserve covered what each request of
the batch will commit (`BatchCovered`: blocks of a request in the batch stay until its commit),
that there is a row of logits for each (`LogitsMatch`), that a live request has tokens to come
(`TokensCounted`: hence the room in its stream), and that only checked requests were taken. The
proof has one lemma per action, for the types and for the rest. From it:

* `SchedulerTypeCorrect`, `CustodyKept`, `LoopNeverBlocks`: the invariants (`TypeOK` is a conjunct of
  `IndInv`, which the run checks);
* `AllocatorUsed`: the scheduler implements the allocator's specification (every step is
  one of `KVNext` or leaves the allocator alone);
* `SchedulerKeepsPool`: hence, by the allocator's theorems, no block is shared or lost
  under the scheduler, and every written position is covered.

*Scheduler, the batch* (`SchedulerProofs`). `BlocksComeBack`: a request that holds blocks is live and
out of the channel (`Holding`, inductive beside `IndInv`). `DecodesAlwaysFit`: `BatchInv` says that
requests that wait are prompts and those that run between two steps are decodes, that in `todo`
every decode comes before every prompt, and that the j-th of them finds at least j tokens of budget left;
so a decode always fits, only prompts can be turned away, and what joined the step together with what is left
of the budget stays within MaxSeq.
`BatchesFit`: of all that `te_forward_batch` refuses, only a sequence past MaxSeq is left. `LimitsInv` counts
what a batch is made of: its requests take one slot each of `maxBatch` (`SlotsKept`, which needs that admission cut
what waited to what was free), its rows and what is left of the budget make MaxSeq (`BudgetSpent`), and no table is longer than
what its request has written and feeds, rounded up (`TablesFit`). The rows are a set of pairs and the width a maximum, so
that both are reasoned about by cardinality (`Entries`, `WidthBounds`).
`CountersAddUp`: `MetricsInv` says that each counter is the cardinality of what it counts: the requests that ended, the pairs of
a request and a token sent, the pairs of a begun request and a position of its prompt. A prompt counts when its first token
does (`BegunArePrefilled`); a failure counts a request as done and takes none of its tokens back.

*Scheduler, the service* (`SchedulerProofs`). `RightInv` ties each live request to its own solo run: it
has written what it was sent but for the last token (`FeedsRight`), its cells hold it (`KVIsolated`), and
during the commit each row still to be handled is the request's next token (`LogitsRight`). The forward
keeps it because two covered positions never share a cell (`CellsApart`, from the partition of the pool, which
`SchedulerKeepsPool` gives) and every position the batch writes is covered (`BatchCovered`); a later
Reserve only extends tables. `NobodyOverwrites` is its first conjunct. `BatchingIsInvisible`: a Submit is an answer, a commit a
delivery whose end is the solo run's end (`CommitIsNext`), a failure cuts one stream, and every other
step is a stutter of `StreamService`. What is assumed of the kernels, that a row over intact cells gives
the solo token, is the model's definition of `logits` and is the subject of `ThreadBlock`.

`IndInv` is an invariant of `scheduler_tight`; `BatchInv`, `LimitsInv`, `MetricsInv` and `RightInv` stand at the head of
`SchedulerProofs`.

*Generate* (`GenerateProofs`), for every sequence, prompt, limit and pool. `GenerateKeepsPool`, `GenerateStaysPut`,
`GenerateUsesPool`: each step of a call, and of the others that take blocks meanwhile, is a call of the
allocator (`StepIsCall`). `TextOrNoRoom`: `GInv` says what the sequence
has been fed at each stage of the loop (`FeedsText`), that its table is what that takes (`HoldsText`), that a loop that goes on
has met neither the end nor the limit (`GoesOn`), and that the blocks it started with are still free or its own
(`OwnOrFree`): a Reserve that fails has then used all there were. `CallsGiveBack` follows from the last.

*Lifecycle* (`LoaderProofs`), for every set of checkpoints.
`LifecycleTypeCorrect`: nothing of a model is left where there is none, and uploads go to an open one.
`ForwardComplete`: `FinalizeCoversForward` compares the two lists of weights for every configuration the code
is written for, `ReadyIsChecked` carries what finalize found to the forward, and
`CheckedIsFound` says that the forward's product takes the form finalize looked at. `EngineIsOwn`: `OwnSoFar` (all loaded
tensors carry this call), and `NoneLeftOut` (each tensor of the checkpoint is loaded or still to come) are
inductive; the second needs the order of names, because the first form of a tensor that comes
in two forms is loaded before the second. `LayersAttendAsConfigured`: `FlagsInv` says that the flags sent are those of the
configuration, and `FlagsMean` compares what the library makes of them with what `config.json` says,
layer by layer and pattern by pattern.

*Loader* (`LoaderProofs`), for every set of directories and any number of calls. `HandlesClosed`: `HandleInv` says that the open
files are always those of `m.Files` and the one being parsed, which is why each error return has to close
just these, and how many references to the library there are at each point of `New`.

`VerdictRight` and `LoaderImplementsLifecycle` rest on `DiskInv`, which adds two things. `Opening`: the shards in hand and those
still to open are those of the checkpoint, and those merged have good headers and share no name, so that a refusal of a shard refutes
`Openable` (`ShardsRefused`) and the last merge proves it (`AllMerged`). `Uploading`: what is `left` to upload is
the forms of the names left, and every name gone was of a kind that is sent. Between the code's tests and what the files say
stand lemmas about the operators, for every shape and every width: the loop of `parse` computes the product of the dimensions or finds
that it does not fit (`NumelRight`, by induction along the shape with `UpTo`), so that it accepts the entries whose
range has the bytes of the shape and, beyond an int64, those it comes round to (`EntryIsAcceptable`); the remainders of `uploadWeights` and the backend accept the pairs that have one even
group size (`GroupsEven`, `W4IsPaired`); and `Forms` of all names is what the files hold (`FormsAreContents`, from
`ContentsAssumption`). `NextComes` shows that the least name stands for the tensor that comes next in the lifecycle, and
that taking the name off the list takes off that tensor only. `LoadedEngineIsOwn` carries the theorems of the
lifecycle over to the loading from files.

*Thread block* (`ThreadBlockProofs`), for every power of two of threads and
every launch. `RaceFree`: two threads that may run are in the same stage (`SameStage`, from the barrier), and
in one stage they touch different cells (`StageRaceFree`), by the arithmetic of stripes and halves
(`CellsApart`, `CountFits`). `CountFits` rests on `LaunchAssumption`, that no position reaches `max_seq`, which
`te_forward_batch` refuses (`ForwardCheck`).

`AttentionIsRight`, `ProductIsRight` and `NormIsRight` rest on `BlockInv`. It says of each thread what stands at the barrier it has come to in
what it owns: its cell of the scratch (`CellAt`), the scores of its stripe (`ScoreAt`), its registers (`MineAt`) and its
part of the row (`RowAt`). After i rounds of a tree of width w, cell t stands for the threads congruent to t modulo w
(`Group`), and a cell that has just left the tree keeps what it had (`Held`): so what a thread takes in is the same
whether the thread it takes it from has done the round or not, and this is why no barrier is needed within a
round. A round is sound because the threads of the two halves are those of the cell they make (`GroupHalves`), the parts of two
threads share no term (`PartsApart`), and the sum of disjoint sets is that of their union (`SumOfTwo`; `TopOfTwo` for the maximum).
Only `t` moves what `t` owns, so each conjunct of the invariant is looked at for one thread (`CellsStep` and its like);
which stage a thread is in tells how far it has come (`Places`, from what the programs are, `ShortProgram`
and `LongProgram`), because the strides of the rounds are all different (`RoundIs`). At the end the parts of all threads
are the whole row (`AllParts`): stripes cover each element once (`Owner`), and the bytes and words of a quantized row
each column (`ColumnOwner`), with the scale of its own group, as a word lies in one group when the group is a
multiple of its eight columns (`SameGroup`). That rows and groups are even is in `LaunchAssumption`, and refused otherwise by
`te_model_load_tensor_w4` (model.cu:775).

*Experts* (`MoERoutingProofs`), for any number of experts, picks, tokens and calls, any scores and biases. The model's loops
are recursive functions and its sort is the row that the loops have come to at a slot (`Place`), so each can be unfolded
and counted. `BestRight`: the scan finds the unused expert ahead of all unused others, by induction along the
experts. `PicksRight`: after i picks, i experts are picked, all ahead of all others, so that TopK picks are those
that fewer than TopK experts are ahead of (`Chosen`, by cardinality); a tie goes to the lower number because the scan
asks for more and not for as much. `PlacesRight`: the place of a slot grows with the slots before it, so
it is one to one, and on to the rows because there are as many of them; `Segments`: an expert's slots are placed
after those of the lower experts and before all others. `MoEInv` carries this through the buffers: after the
permutation there is a `Layout`, which expert each row is for and where each segment starts; in the loop over the experts
the rows before the offset are done (`ExpertsDone`), whatever stood in the buffer; and while blocks scatter, each sum is
that of the token's rows whose block has run (`SumsRight`), a row adding a term the sum has not yet
(`ScatterAdds`), which is why the order does not matter. `SegmentsAlwaysRight` and `OutAlwaysMixture` follow.

*Server and load generator* (`LoadGenProofs`), for any number of requests and workers, and any solo lengths
(`LoadGenAssumption`). `ServerInv` says what stands in a response at each point of its handler (`StreamRight`,
`HandlerRight`): while the handler relays, tokens of the stream and nothing else; when it has returned over a live connection, also
the line that ends it. `JobsRight` says who is responsible for a request that was handed out: one worker, or a result that is
stored. `ScanRight` says that what a client has counted is the tokens it has scanned, and that a result counted as
served met the last line. It stays true while the server goes on because the server takes nothing
back (`ServerKeeps`). `ClientsReadTheirStreams`, `CountedInFull` and `ReportedInFull` follow; for the last, a
level reports only when every result is stored, and `TotalOf` of equal functions is equal, whatever
a sum is.

*Metrics* (`MetricsProofs`), for any number of requests and scrapes, any bounds and any limits, from `MetricsAssumption`: finitely many
requests, each with its goroutine, and a loop and scrapers apart from them. `MetricsInv` has four parts.
`PlacesInv`: which script each goroutine can have, where in it it can be, and that a mutex is held by the one that is
inside an operation on its histogram. `BooksInv`: words are compared with the requests as they will be when `run` has got to the end of its
script (`Due`: the value of a word and what the script has yet to add to it, `Owed`), which makes the books
balance at every access and not only between two steps. `HistogramsInv`: each histogram comes to a whole one, and is one
already while `run` is not inside of it. `ScrapesInv`: what a scrape has read is what it has passed
(`ReadSoFar`), what it has read of the histogram it is inside of is there still (`StillThere`, by the mutex), and a counter it
has rendered is explained by what it has read or would read now (`ExplainedSoFar`: words only grow, and of what is due
`run` has at most one event counted and not yet observed).
`ScrapesShowMoments`, `ScrapesExplainCounters` and `RegistryComesRight` follow. What the buckets hold is a set of pairs
and what they are worth a set of triples, so that both are counted by cardinality and nothing is summed by recursion.

*Model-checked only*: the liveness properties (`StopTerminates`, `DecodesNeverStarve`, `Answered`, `HandlersReturn`,
`LevelReturns`), which are out of this prover's reach with ENABLED. Every other property that a passing run checks is
stated by a theorem.

## 5. Where the code and its documentation differ

1. *Prefills that don't fit do not simply wait* (docs/theory/04:75-76): they keep the
   blocks of a short Reserve. Two prompts that fit the pool one at a time can hold it
   between them and wait for ever, the loop spinning (`claim_prefills_wait`).
2. *Failure is not per request* (docs/theory/04:118): a sequence past MaxSeq makes
   the backend refuse the batch, and every request of the step fails (`claim_fails_alone`).
3. *A stream may never close* (scheduler.go:60-61): a request sent around a stop stays in the
   channel (`claim_streams_close`).
4. *Validate lets mis-run configurations through* (config.go:183): it looks at gemma3 only; a
   llama-family configuration with `rope_scaling`, or with a sliding window and a pattern, is accepted
   and run without either (`claim_validate_rejects`).

Seen while modelling, without a run of their own:

* A shape and a byte length may disagree. `Open` is said to validate each tensor's offsets (safetensors.go:90-91), and a test has it refuse
  a file in which "shape and byte-length disagree" (safetensors_test.go:135). `parse` checks the product of the dimensions for
  overflow (154) and not its product with the size of an element (164): an F32 entry of shape `[2^62+1]` with a range of 4 bytes
  is opened. Nothing later looks at the shape of a dense tensor: what is sent has the one element its range holds, and
  finalize compares that count with the configuration. `VerdictOfFiles` names the exception (`ComesRound`), and the run
  `lifecycle` has such an entry (1025 elements of 4 bytes, in integers of 12 bits) in a checkpoint that is served.
* `RequestsDone` is documented as finished requests (metrics.go:70); `fail` increments it too
  (scheduler.go:103). `MetricsAddUp` states what it does count.
* `Submit` increments `RequestsTotal` after its send (scheduler.go:77-79), and the loop may have ended the request by then: a scrape can
  show more `requests_done` than `requests_total`. `RegistryRight` says that they come right at rest.
* `kv_blocks_used` is documented as currently allocated (metrics.go:138); it is set before a step
  and not after it, so an idle scheduler reports the blocks of its last step.
* `te_model_finalize` promises every weight the config requires (shim.h:99-100). A gemma3
  configuration with experts is finalized with the experts' weights (model.cu:889-903), and its forward reads dense
  ones (model.cu:1165-1168) that were never asked for.
* A tensor in both forms is a "duplicate tensor" when the dense one comes first (model.cu:778-779), but the
  loader sorts by name, `x.qweight` comes first, and `te_model_load_tensor` looks among the dense ones
  only (model.cu:752): both stay loaded and the dense one is unused.
* Whether an entry without elements is accepted depends on the order of its dimensions: `parse` refuses a shape for the
  product of its leading dimensions (safetensors.go:151), so `[2^62, 4, 0]` overflows and `[0, 2^62, 4]` does not, though
  neither has an element. `Acceptable` says it as the code does (`Leading`); where an engine is built, only scales
  that no weight takes can be without elements.

## 6. Plan

In order of importance to the system; later items build on earlier ones.

1. Allocator, pool, batch checks, scheduler, their properties and proofs: done.
2. `ModelConfig`, `ModelLifecycle`, their proofs; `ThreadBlock`; `MoERouting`;
   `Server` and `LoadGen`: done.
3. `Generate` (engine.go:173-213 and the benchmark); `Loader` (safetensors.go, from the directory to the
   upload) with `HandlesClosed`; `Metrics` (histograms and renderings): done.
4. Proofs: the allocator, the scheduler (custody, batches, counters, service), `Generate`, the lifecycle, the loader (handles,
   verdict, refinement), the thread block's schedule and its results, the load generator over the server, the metrics registry,
   and the routing of the experts: done. Liveness stays with TLC.
5. Starvation of long prompts under endless arrivals. With requests submitted again after their
   end, the smallest pool that shows it has millions of states under fairness; it would take a
   more abstract loop.

Not modelled, and not planned: floating-point arithmetic (numerical, tested against a
reference), rope, embedding and elementwise kernels (one thread per element), the marshalling of arguments into the library (one to one),
its debug and benchmark calls, gauges, test oracles and fixtures, Python tools,
build scripts, and the web page.
