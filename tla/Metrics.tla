------------------------------- MODULE Metrics -------------------------------
(***************************************************************************)
(* engine/metrics: the registry that Submit and run write while handlers   *)
(* of /metrics and /stats.json read it.  A counter is an atomic word; a    *)
(* histogram is some words under a mutex.  A goroutine has a script, the   *)
(* operations it makes on the registry, and the accesses of all of them,   *)
(* to a word or to a mutex, interleave.                                    *)
(***************************************************************************)
EXTENDS Integers, Sequences, FiniteSets

CONSTANTS
  Requests,     \* the requests; each has a goroutine that submits it
  PromptLen,    \* tokens of each prompt
  MaxNew,       \* the most tokens a request gets
  NumBounds,    \* a histogram's bounds: bound i is the number i, then +Inf
  Scrapers,     \* the handlers that read, one scrape each
  Loop          \* the goroutine of run

Threads == Requests \cup Scrapers \cup {Loop}

ASSUME MetricsAssumption ==
  /\ IsFiniteSet(Requests)
  /\ PromptLen \in Nat \ {0} /\ MaxNew \in Nat \ {0} /\ NumBounds \in Nat
  /\ Loop \notin Requests \cup Scrapers /\ Requests \cap Scrapers = {}
  /\ "nobody" \notin Threads

Counters == {"total", "done", "tokens", "prefill", "steps"}
Histograms == {"ttft", "itl", "batch"}
Buckets == 1 .. NumBounds + 1

\* The words: a counter, and of a histogram its counts, its sum and its total.
Value(c) == <<c, "value", 0>>
Bucket(h, i) == <<h, "bucket", i>>
Sum(h) == <<h, "sum", 0>>
Total(h) == <<h, "total", 0>>
HistogramWords(h) == {Bucket(h, i) : i \in Buckets} \cup {Sum(h), Total(h)}
Words == {Value(c) : c \in Counters} \cup UNION {HistogramWords(h) : h \in Histograms}

VARIABLES
  stage,        \* stage[r]: "new", "taken", "live" once it has a token, "over"
  given,        \* given[r]: its tokens
  rest,         \* the requests of the step whose token run has not come to
  word,         \* word[w]: the value of word w
  mu,           \* mu[h]: who holds h's mutex, or "nobody"
  script,       \* script[t]: the operations goroutine t makes
  line,         \* line[t]: the one it is at
  at,           \* at[t]: how many accesses of that one it has made
  kind,         \* kind[s]: what s renders, "prom", "json" or "none" yet
  seen          \* seen[s][w]: what s has read of word w

mVars == <<stage, given, rest, word, mu, script, line, at, kind, seen>>

Unread == -1

MInit ==
  /\ stage = [r \in Requests |-> "new"]
  /\ given = [r \in Requests |-> 0]
  /\ rest = {}
  /\ word = [w \in Words |-> 0]
  /\ mu = [h \in Histograms |-> "nobody"]
  /\ script = [t \in Threads |-> <<>>]
  /\ line = [t \in Threads |-> 1]
  /\ at = [t \in Threads |-> 0]
  /\ kind = [s \in Scrapers |-> "none"]
  /\ seen = [s \in Scrapers |-> [w \in Words |-> Unread]]

-----------------------------------------------------------------------------
(* The operations. *)

Operation(op, x, n) == [op |-> op, x |-> x, n |-> n]

Count(c, n) == Operation("count", c, n)         \* Counter.Inc and Counter.Add
Load(c) == Operation("load", c, 0)              \* Counter.Value
Observe(h, v) == Operation("observe", h, v)     \* Histogram.Observe
Render(h) == Operation("render", h, 0)          \* hist, of WriteProm
Mean(h) == Operation("mean", h, 0)              \* Histogram.Snapshot

\* All of a histogram's are under its mutex.
Locks(o) == o.op \in {"observe", "render", "mean"}

\* The first bucket whose bound v does not exceed.
BucketOf(v) == IF v > NumBounds THEN NumBounds + 1 ELSE IF v < 1 THEN 1 ELSE v

\* The words an operation goes to, in order; Histogram.Snapshot looks at total
\* twice, which under the mutex is the same.
Body(o) ==
  CASE o.op \in {"count", "load"} -> <<Value(o.x)>>
    [] o.op = "observe" -> <<Bucket(o.x, BucketOf(o.n)), Sum(o.x), Total(o.x)>>
    [] o.op = "render" -> [i \in Buckets |-> Bucket(o.x, i)] \o <<Sum(o.x), Total(o.x)>>
    [] o.op = "mean" -> <<Sum(o.x), Total(o.x)>>

\* What a writing operation adds to word w.
Amount(o, w) == IF w \in {Bucket(o.x, BucketOf(o.n)), Total(o.x)} THEN 1 ELSE o.n

-----------------------------------------------------------------------------
(* The scripts. *)

\* All times that are observed are one: a histogram of times counts.
Time == 1

\* What run writes when a forward of n sequences has succeeded, and then for a
\* token: the first of its request or not, its last or not.
StepWritten(n) == <<Count("steps", 1), Observe("batch", n)>>

TokenWritten(first, last) ==
  LET token == IF first THEN <<Count("tokens", 1), Count("prefill", PromptLen), Observe("ttft", Time)>>
               ELSE <<Count("tokens", 1), Observe("itl", Time)>>
  IN  IF last THEN Append(token, Count("done", 1)) ELSE token

\* Metrics.WriteProm, a mutant that renders the histograms before the counters,
\* and Metrics.Snapshot.
WritePromReversed ==
  <<Render("ttft"), Render("itl"), Render("batch"),
    Load("total"), Load("done"), Load("tokens"), Load("prefill"), Load("steps")>>
WriteProm ==
  <<Load("total"), Load("done"), Load("tokens"), Load("prefill"), Load("steps"),
    Render("ttft"), Render("itl"), Render("batch")>>
Snapshot ==
  <<Mean("ttft"), Mean("itl"), Mean("batch"),
    Load("total"), Load("done"), Load("tokens"), Load("prefill"), Load("steps")>>

-----------------------------------------------------------------------------
Idle(t) == line[t] > Len(script[t])
Now(t) == script[t][line[t]]

Begins(t, what) ==
  /\ Idle(t)
  /\ script' = [script EXCEPT ![t] = what]
  /\ line' = [line EXCEPT ![t] = 1]
  /\ UNCHANGED <<word, mu, at, seen>>

In(s) == {r \in Requests : stage[r] = s}

\* Submit: the request is in the channel before it is counted.
Submit(r) ==
  /\ stage[r] = "new"
  /\ Begins(r, <<Count("total", 1)>>)
  /\ stage' = [stage EXCEPT ![r] = "taken"]
  /\ UNCHANGED <<given, rest, kind>>

\* A forward succeeds for the live requests and some of the taken ones.
Step ==
  /\ rest = {}
  /\ \E prompts \in SUBSET In("taken") :
       /\ rest' = In("live") \cup prompts
       /\ rest' # {}
       /\ Begins(Loop, StepWritten(Cardinality(rest')))
  /\ UNCHANGED <<stage, given, kind>>

\* run comes to r's token, by EOS or by the limit its last.
NextToken(r) ==
  /\ r \in rest
  /\ \E last \in BOOLEAN :
       /\ given[r] + 1 >= MaxNew => last
       /\ Begins(Loop, TokenWritten(stage[r] = "taken", last))
       /\ stage' = [stage EXCEPT ![r] = IF last THEN "over" ELSE "live"]
  /\ given' = [given EXCEPT ![r] = @ + 1]
  /\ rest' = rest \ {r}
  /\ UNCHANGED kind

\* run fails one of its requests.
FailRequest(r) ==
  /\ rest = {}
  /\ r \in In("taken") \cup In("live")
  /\ Begins(Loop, <<Count("done", 1)>>)
  /\ stage' = [stage EXCEPT ![r] = "over"]
  /\ UNCHANGED <<given, rest, kind>>

\* A GET of /metrics or of /stats.json.
Scrape(s) ==
  /\ kind[s] = "none"
  /\ \E k \in {"prom", "json"} :
       /\ kind' = [kind EXCEPT ![s] = k]
       /\ Begins(s, IF k = "prom" THEN WriteProm ELSE Snapshot)
  /\ UNCHANGED <<stage, given, rest>>

-----------------------------------------------------------------------------
(* The accesses. *)

\* An access is made: the next one of the operation, or the next operation.
Goes(t) ==
  /\ IF Locks(Now(t)) /\ at[t] <= Len(Body(Now(t)))
     THEN at' = [at EXCEPT ![t] = @ + 1] /\ UNCHANGED line
     ELSE at' = [at EXCEPT ![t] = 0] /\ line' = [line EXCEPT ![t] = @ + 1]
  /\ UNCHANGED <<stage, given, rest, script, kind>>

\* t's next access is to a word, and to which.
AtWord(t) == ~ Idle(t) /\ (Locks(Now(t)) => at[t] \in DOMAIN Body(Now(t)))
NextWord(t) == Body(Now(t))[IF Locks(Now(t)) THEN at[t] ELSE 1]

\* Mutant: a store, where an addition is meant.
DoAddStores(t) ==
  /\ AtWord(t) /\ Now(t).op \in {"count", "observe"}
  /\ word' = [word EXCEPT ![NextWord(t)] = Amount(Now(t), NextWord(t))]
  /\ Goes(t)
  /\ UNCHANGED <<mu, seen>>

DoAdd(t) ==
  /\ AtWord(t) /\ Now(t).op \in {"count", "observe"}
  /\ word' = [word EXCEPT ![NextWord(t)] = @ + Amount(Now(t), NextWord(t))]
  /\ Goes(t)
  /\ UNCHANGED <<mu, seen>>

DoRead(s) ==
  /\ AtWord(s) /\ Now(s).op \in {"load", "render", "mean"}
  /\ seen' = [seen EXCEPT ![s][NextWord(s)] = word[NextWord(s)]]
  /\ Goes(s)
  /\ UNCHANGED <<word, mu>>

\* Mutant: an Observe that does not wait for the mutex.
DoLockInObserve(t) ==
  /\ ~ Idle(t) /\ Locks(Now(t)) /\ at[t] = 0
  /\ mu[Now(t).x] = "nobody" \/ Now(t).op = "observe"
  /\ mu' = [mu EXCEPT ![Now(t).x] = t]
  /\ Goes(t)
  /\ UNCHANGED <<word, seen>>

DoLock(t) ==
  /\ ~ Idle(t) /\ Locks(Now(t)) /\ at[t] = 0
  /\ mu[Now(t).x] = "nobody"
  /\ mu' = [mu EXCEPT ![Now(t).x] = t]
  /\ Goes(t)
  /\ UNCHANGED <<word, seen>>

DoUnlock(t) ==
  /\ ~ Idle(t) /\ Locks(Now(t)) /\ at[t] = Len(Body(Now(t))) + 1
  /\ mu' = [mu EXCEPT ![Now(t).x] = "nobody"]
  /\ Goes(t)
  /\ UNCHANGED <<word, seen>>

Quiet == rest = {} /\ \A t \in Threads : Idle(t)

\* Nobody has anything left to do, though clients may still submit.
Rests == Quiet /\ UNCHANGED mVars

MNext ==
  \/ \E r \in Requests : Submit(r) \/ NextToken(r) \/ FailRequest(r)
  \/ Step
  \/ \E s \in Scrapers : Scrape(s) \/ DoRead(s)
  \/ \E t \in Threads : DoAdd(t) \/ DoLock(t) \/ DoUnlock(t)
  \/ Rests

MSpec == MInit /\ [][MNext]_mVars

-----------------------------------------------------------------------------
Has(s, w) == seen[s][w] # Unread

\* Observations as a set, one element for each that the buckets of v count, and
\* one for each unit of what they are worth: an observation is the number of its
\* bucket, or more in the last one.
Observed(v, h) == UNION {{i} \X (1 .. v[Bucket(h, i)]) : i \in Buckets}
Worth(v, h) == UNION {{i} \X ((1 .. v[Bucket(h, i)]) \X (1 .. i)) : i \in Buckets}

\* The values v are those of h at one moment.
Whole(v, h) ==
  /\ Cardinality(Observed(v, h)) = v[Total(h)]
  /\ Cardinality(Worth(v, h)) <= v[Sum(h)]
  /\ v[Bucket(h, NumBounds + 1)] = 0 => Cardinality(Worth(v, h)) = v[Sum(h)]

\* The sum and the total in v belong together: every time observed is Time, and
\* every batch is of one sequence at least.
Together(v, h) ==
  /\ v[Total(h)] <= v[Sum(h)]
  /\ h # "batch" => v[Sum(h)] = Time * v[Total(h)]

\* A scrape shows each histogram at one moment, whatever is observed meanwhile:
\* in /metrics its +Inf bucket is its count and its sum is of that many observations
\* in those buckets, and in /stats.json no mean is of a sum and a count that do not
\* belong together, which of the sizes of batches only says that the mean is not
\* below one (WriteProm, Histogram.Snapshot).
HistogramsWhole ==
  \A s \in Scrapers, h \in Histograms :
    Has(s, Total(h)) =>
      /\ Together(seen[s], h)
      /\ kind[s] = "prom" => Whole(seen[s], h)

\* In a scrape of /metrics the histograms explain the counters of run, though the
\* words are read one by one: what these say has happened has been observed, but
\* for the event run is in the middle of.  Nothing of the kind holds of the two
\* counts of requests: Submit counts after its send.
CountersExplained ==
  \A s \in Scrapers :
    (\A w \in Words : Has(s, w)) =>
      LET v(c) == seen[s][Value(c)]
          n(h) == seen[s][Total(h)]
      IN  /\ v("tokens") <= n("ttft") + n("itl") + 1
          /\ v("tokens") <= seen[s][Sum("batch")]
          /\ v("prefill") <= PromptLen * (n("ttft") + 1)
          /\ v("steps") <= n("batch") + 1

Sent == UNION {{r} \X (1 .. given[r]) : r \in Requests}

\* Nothing is lost: when nobody is in the middle of anything, the registry says
\* what has happened, and every request that is over was counted as such.
RegistryRight ==
  Quiet =>
    LET v(c) == word[Value(c)]
        n(h) == word[Total(h)]
    IN  /\ v("total") = Cardinality(Requests \ In("new"))
        /\ v("done") = Cardinality(In("over"))
        /\ v("tokens") = Cardinality(Sent)
        /\ n("ttft") = Cardinality({r \in Requests : given[r] > 0})
        /\ n("ttft") + n("itl") = v("tokens")
        /\ v("tokens") = word[Sum("batch")] /\ v("steps") = n("batch")
=============================================================================
