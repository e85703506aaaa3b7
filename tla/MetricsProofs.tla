---------------------------- MODULE MetricsProofs ----------------------------
(***************************************************************************)
(* What the registry of engine/metrics promises, for any number of         *)
(* requests and scrapes, any bounds of the histograms and any limits.      *)
(***************************************************************************)
EXTENDS Metrics, FiniteSetTheorems, SequenceTheorems, TLAPS

-----------------------------------------------------------------------------
(* The inductive invariant. *)

Operations ==
  [op : {"count", "load"}, x : Counters, n : Nat]
    \cup [op : {"observe"}, x : Histograms, n : Nat \ {0}]
    \cup [op : {"render", "mean"}, x : Histograms, n : {0}]

LoopScripts ==
  {<<>>, <<Count("done", 1)>>}
    \cup {StepWritten(n) : n \in Nat \ {0}}
    \cup {TokenWritten(TRUE, last) : last \in BOOLEAN}
    \cup {TokenWritten(FALSE, last) : last \in BOOLEAN}

MTypeOK ==
  /\ stage \in [Requests -> {"new", "taken", "live", "over"}]
  /\ given \in [Requests -> Nat]
  /\ rest \in SUBSET Requests
  /\ word \in [Words -> Nat]
  /\ mu \in [Histograms -> Threads \cup {"nobody"}]
  /\ script \in [Threads -> Seq(Operations)]
  /\ line \in [Threads -> Nat \ {0}]
  /\ at \in [Threads -> Nat]
  /\ kind \in [Scrapers -> {"none", "prom", "json"}]
  /\ seen \in [Scrapers -> [Words -> Nat \cup {Unread}]]

\* Who has which script: nobody writes a counter but run, and Submit its own.
ScriptsRight ==
  /\ \A r \in Requests : script[r] = IF stage[r] = "new" THEN <<>> ELSE <<Count("total", 1)>>
  /\ \A s \in Scrapers : script[s] = IF kind[s] = "none" THEN <<>>
                                     ELSE IF kind[s] = "prom" THEN WriteProm ELSE Snapshot
  /\ script[Loop] \in LoopScripts

\* Where in its script a goroutine can be.
PlaceRight(t) ==
  /\ line[t] <= Len(script[t]) + 1
  /\ IF Idle(t) \/ ~ Locks(Now(t)) THEN at[t] = 0 ELSE at[t] <= Len(Body(Now(t))) + 1

\* t is inside an operation on h.
Inside(t, h) == ~ Idle(t) /\ at[t] > 0 /\ Now(t).x = h

\* A mutex is held by the one that is inside.
MutexRight == \A h \in Histograms, t \in Threads : mu[h] = t <=> Inside(t, h)

PlacesInv == MTypeOK /\ ScriptsRight /\ (\A t \in Threads : PlaceRight(t)) /\ MutexRight

\* What operation o, which has made n accesses, has yet to add to w, and what
\* the script of run has: none has more than four operations.
Left(o, n, w) ==
  IF \E i \in DOMAIN Body(o) : i >= n /\ Body(o)[i] = w THEN Amount(o, w) ELSE 0
LeftAt(i, w) ==
  IF i \in line[Loop] .. Len(script[Loop])
  THEN Left(script[Loop][i], IF i = line[Loop] THEN at[Loop] ELSE 0, w) ELSE 0
Owed(w) == LeftAt(1, w) + LeftAt(2, w) + LeftAt(3, w) + LeftAt(4, w)

\* What a word comes to when run has got to the end of its script.
Due == [w \in Words |-> word[w] + Owed(w)]

\* The requests whose Submit has not counted them yet.
Uncounted == {r \in Requests : stage[r] # "new" /\ ~ Idle(r)}
WithToken == {r \in Requests : given[r] > 0}

\* What the counters come to, against the requests.
BooksRight ==
  /\ word[Value("total")] + Cardinality(Uncounted) = Cardinality(Requests \ In("new"))
  /\ Due[Value("done")] = Cardinality(In("over"))
  /\ IsFiniteSet(Sent) /\ Due[Value("tokens")] = Cardinality(Sent)
  /\ Due[Total("ttft")] = Cardinality(WithToken)
  /\ Due[Total("ttft")] + Due[Total("itl")] = Due[Value("tokens")]
  /\ Due[Value("prefill")] = PromptLen * Due[Total("ttft")]
  /\ Due[Value("tokens")] + Cardinality(rest) = Due[Sum("batch")]
  /\ Due[Value("steps")] = Due[Total("batch")]

\* Requests of the step are open, and have tokens if they are live; a step's
\* script is that of the requests that are still to come.
StagesRight ==
  /\ \A r \in Requests : stage[r] \in {"new", "taken"} => given[r] = 0
  /\ \A r \in Requests : stage[r] = "live" => given[r] > 0
  /\ rest \subseteq In("taken") \cup In("live")
  /\ \A n \in Nat : script[Loop] = StepWritten(n) /\ ~ Idle(Loop) => n = Cardinality(rest)

BooksInv == StagesRight /\ BooksRight

\* A histogram whose values are v, as it is while nobody is inside.
HistogramOK(v, h) ==
  /\ IsFiniteSet(Observed(v, h)) /\ IsFiniteSet(Worth(v, h))
  /\ Whole(v, h)
  /\ Together(v, h)

\* A histogram comes to a whole one, and is one while run is not inside.
HistogramsInv ==
  \A h \in Histograms :
    /\ HistogramOK(Due, h)
    /\ mu[h] # Loop => HistogramOK(word, h)

\* A scrape has read what it has passed, and nothing twice; what it has read of
\* the histogram it is inside of is there still.
ReadSoFar(s) ==
  \A i \in DOMAIN script[s] : \A j \in DOMAIN Body(script[s][i]) :
    Has(s, Body(script[s][i])[j]) <=> i < line[s] \/ (i = line[s] /\ j < at[s])

StillThere(s) ==
  \A h \in Histograms : Inside(s, h) =>
    \A w \in HistogramWords(h) : Has(s, w) => seen[s][w] = word[w]

\* No scrape reads before it begins, and one for /stats.json reads no bucket.
ReadsNoMore(s) ==
  /\ kind[s] = "none" => \A w \in Words : ~ Has(s, w)
  /\ kind[s] = "json" => \A h \in Histograms : \A i \in Buckets : ~ Has(s, Bucket(h, i))

\* The value a scrape shows or, if it has not read it yet, would.
Shown(s, w) == IF Has(s, w) THEN seen[s][w] ELSE word[w]

\* What a rendered counter says is explained by what will be rendered.
ExplainedSoFar(s) ==
  LET n(h) == Shown(s, Total(h))
      v(c) == seen[s][Value(c)]
  IN  /\ Has(s, Value("tokens")) =>
           v("tokens") <= n("ttft") + n("itl") + 1 /\ v("tokens") <= Shown(s, Sum("batch"))
      /\ Has(s, Value("prefill")) => v("prefill") <= PromptLen * (n("ttft") + 1)
      /\ Has(s, Value("steps")) => v("steps") <= n("batch") + 1

ScrapeRight(s) ==
  /\ ReadSoFar(s) /\ StillThere(s) /\ ReadsNoMore(s)
  /\ kind[s] = "prom" => ExplainedSoFar(s)

ScrapesInv == \A s \in Scrapers : ScrapeRight(s)

MetricsInv == PlacesInv /\ BooksInv /\ HistogramsInv /\ ScrapesInv /\ HistogramsWhole

-----------------------------------------------------------------------------
(* Words, operations and scripts. *)

\* The words are all different.
LEMMA WordsApart ==
  /\ \A c, d : Value(c) = Value(d) <=> c = d
  /\ \A g, h, i, j : Bucket(g, i) = Bucket(h, j) <=> g = h /\ i = j
  /\ \A g, h : (Sum(g) = Sum(h) <=> g = h) /\ (Total(g) = Total(h) <=> g = h)
  /\ \A c, h, i : Value(c) # Bucket(h, i) /\ Value(c) # Sum(h) /\ Value(c) # Total(h)
  /\ \A g, h, i : Bucket(g, i) # Sum(h) /\ Bucket(g, i) # Total(h)
  /\ \A g, h : Sum(g) # Total(h)
BY DEF Value, Bucket, Sum, Total

LEMMA WordsKnown ==
  /\ \A c \in Counters : Value(c) \in Words
  /\ \A h \in Histograms : HistogramWords(h) \subseteq Words
  /\ \A h : Sum(h) \in HistogramWords(h) /\ Total(h) \in HistogramWords(h)
  /\ \A h : \A i \in Buckets : Bucket(h, i) \in HistogramWords(h)
  /\ \A c \in Counters, h \in Histograms : Value(c) \notin HistogramWords(h)
<1>1. \A c \in Counters : Value(c) \in Words
  BY DEF Words
<1>2. \A h \in Histograms : HistogramWords(h) \subseteq Words
  BY DEF Words
<1>3. \A h : Sum(h) \in HistogramWords(h) /\ Total(h) \in HistogramWords(h)
  BY DEF HistogramWords
<1>4. \A h : \A i \in Buckets : Bucket(h, i) \in HistogramWords(h)
  BY DEF HistogramWords
<1>5. \A c \in Counters, h \in Histograms : Value(c) \notin HistogramWords(h)
  BY WordsApart DEF HistogramWords
<1>6. QED
  BY <1>1, <1>2, <1>3, <1>4, <1>5

LEMMA BucketKnown == \A v \in Nat : BucketOf(v) \in Buckets
BY MetricsAssumption DEF BucketOf, Buckets

LEMMA OperationFacts ==
  ASSUME NEW o \in Operations
  PROVE  /\ o.n \in Nat
         /\ o.op \in {"count", "load"} => o.x \in Counters
         /\ Locks(o) => o.x \in Histograms
         /\ o.op = "observe" => o.n \in Nat \ {0}
         /\ o.op \in {"count", "load", "observe", "render", "mean"}
BY DEF Operations, Locks

\* What an operation goes to.
LEMMA BodyFacts ==
  ASSUME NEW o \in Operations
  PROVE  /\ Len(Body(o)) \in Nat \ {0} /\ DOMAIN Body(o) = 1 .. Len(Body(o))
         /\ ~ Locks(o) => Body(o) = <<Value(o.x)>> /\ Len(Body(o)) = 1 /\ Body(o)[1] \in Words
         /\ Locks(o) => \A j \in DOMAIN Body(o) : Body(o)[j] \in HistogramWords(o.x)
         /\ o.op = "observe" =>
              /\ Len(Body(o)) = 3
              /\ Body(o)[1] = Bucket(o.x, BucketOf(o.n))
              /\ Body(o)[2] = Sum(o.x) /\ Body(o)[3] = Total(o.x)
         /\ o.op = "render" =>
              /\ Len(Body(o)) = NumBounds + 3
              /\ \A i \in Buckets : Body(o)[i] = Bucket(o.x, i)
              /\ Body(o)[NumBounds + 2] = Sum(o.x) /\ Body(o)[NumBounds + 3] = Total(o.x)
         /\ o.op = "mean" =>
              Len(Body(o)) = 2 /\ Body(o)[1] = Sum(o.x) /\ Body(o)[2] = Total(o.x)
         /\ \A i, j \in DOMAIN Body(o) : Body(o)[i] = Body(o)[j] => i = j
<1>1. CASE o.op \in {"count", "load"}
  <2>1. Body(o) = <<Value(o.x)>> /\ ~ Locks(o)
    BY <1>1 DEF Body, Locks
  <2>2. Value(o.x) \in Words
    BY <1>1, OperationFacts, WordsKnown
  <2>3. QED
    BY <1>1, <2>1, <2>2
<1>2. CASE o.op = "observe"
  <2>1. Body(o) = <<Bucket(o.x, BucketOf(o.n)), Sum(o.x), Total(o.x)>> /\ Locks(o)
    BY <1>2 DEF Body, Locks
  <2>2. Len(Body(o)) = 3 /\ DOMAIN Body(o) = 1 .. 3
    BY <2>1
  <2>3. BucketOf(o.n) \in Buckets
    BY OperationFacts, BucketKnown
  <2>4. /\ Body(o)[1] = Bucket(o.x, BucketOf(o.n))
        /\ Body(o)[2] = Sum(o.x) /\ Body(o)[3] = Total(o.x)
    BY <2>1
  <2>5. \A j \in 1 .. 3 : j = 1 \/ j = 2 \/ j = 3
    OBVIOUS
  <2>6. \A j \in 1 .. 3 : Body(o)[j] \in HistogramWords(o.x)
    BY <2>3, <2>4, <2>5, WordsKnown
  <2>7. \A i, j \in 1 .. 3 : Body(o)[i] = Body(o)[j] => i = j
    BY <2>4, <2>5, WordsApart
  <2>8. QED
    BY <1>2, <2>1, <2>2, <2>4, <2>6, <2>7
<1>3. CASE o.op = "render"
  <2>. DEFINE u == [i \in Buckets |-> Bucket(o.x, i)]
              v == <<Sum(o.x), Total(o.x)>>
              W == HistogramWords(o.x)
  <2>1. Body(o) = u \o v /\ Locks(o)
    BY <1>3 DEF Body, Locks
  <2>2. u \in Seq(W) /\ Len(u) = NumBounds + 1
    BY MetricsAssumption, WordsKnown DEF Buckets
  <2>3. v \in Seq(W) /\ Len(v) = 2 /\ v[1] = Sum(o.x) /\ v[2] = Total(o.x)
    BY WordsKnown
  <2>4. \A i \in Buckets : u[i] = Bucket(o.x, i)
    OBVIOUS
  <2>. HIDE DEF u, v, W
  <2>. DEFINE c == u \o v
  <2>5. /\ c \in Seq(W) /\ Len(c) = NumBounds + 3 /\ DOMAIN c = 1 .. NumBounds + 3
        /\ \A i \in 1 .. NumBounds + 1 : c[i] = u[i]
        /\ c[NumBounds + 2] = v[1] /\ c[NumBounds + 3] = v[2]
    <3>1. /\ u \o v \in Seq(W) /\ Len(u \o v) = Len(u) + Len(v)
          /\ \A i \in 1 .. Len(u) + Len(v) : (u \o v)[i] = IF i <= Len(u) THEN u[i] ELSE v[i - Len(u)]
      BY <2>2, <2>3, ConcatProperties
    <3>2. c \in Seq(W) /\ Len(c) = NumBounds + 3
      BY <2>2, <2>3, <3>1, MetricsAssumption
    <3>3. DOMAIN c = 1 .. NumBounds + 3
      BY <3>2
    <3>4. \A i \in 1 .. NumBounds + 3 : c[i] = IF i <= NumBounds + 1 THEN u[i] ELSE v[i - (NumBounds + 1)]
      BY <2>2, <2>3, <3>1, MetricsAssumption
    <3>. HIDE DEF c
    <3>5. \A i \in 1 .. NumBounds + 1 : c[i] = u[i]
      BY <3>4, MetricsAssumption
    <3>6. c[NumBounds + 2] = v[1] /\ c[NumBounds + 3] = v[2]
      <4>1. /\ NumBounds + 2 \in 1 .. NumBounds + 3 /\ (NumBounds + 2) - (NumBounds + 1) = 1
            /\ NumBounds + 3 \in 1 .. NumBounds + 3 /\ (NumBounds + 3) - (NumBounds + 1) = 2
            /\ ~ NumBounds + 2 <= NumBounds + 1 /\ ~ NumBounds + 3 <= NumBounds + 1
        BY MetricsAssumption
      <4>2. QED
        BY <3>4, <4>1
    <3>7. QED
      BY <3>2, <3>3, <3>5, <3>6
  <2>. HIDE DEF c
  <2>6. /\ Len(Body(o)) = NumBounds + 3 /\ DOMAIN Body(o) = 1 .. NumBounds + 3
        /\ \A i \in Buckets : Body(o)[i] = Bucket(o.x, i)
        /\ Body(o)[NumBounds + 2] = Sum(o.x) /\ Body(o)[NumBounds + 3] = Total(o.x)
    BY <2>1, <2>3, <2>4, <2>5 DEF Buckets, c
  <2>7. \A i \in 1 .. NumBounds + 3 : i \in Buckets \/ i = NumBounds + 2 \/ i = NumBounds + 3
    BY MetricsAssumption DEF Buckets
  <2>8. \A i, j \in 1 .. NumBounds + 3 : Body(o)[i] = Body(o)[j] => i = j
    BY <2>6, <2>7, WordsApart
  <2>9. \A j \in 1 .. NumBounds + 3 : Body(o)[j] \in W
    BY <2>6, <2>7, WordsKnown DEF W
  <2>10. NumBounds + 3 \in Nat \ {0}
    BY MetricsAssumption
  <2>11. QED
    BY <1>3, <2>1, <2>6, <2>8, <2>9, <2>10 DEF W
<1>4. CASE o.op = "mean"
  <2>1. Body(o) = <<Sum(o.x), Total(o.x)>> /\ Locks(o)
    BY <1>4 DEF Body, Locks
  <2>2. /\ Len(Body(o)) = 2 /\ DOMAIN Body(o) = 1 .. 2
        /\ Body(o)[1] = Sum(o.x) /\ Body(o)[2] = Total(o.x)
    BY <2>1
  <2>3. \A i, j \in 1 .. 2 : Body(o)[i] = Body(o)[j] => i = j
    BY <2>2, WordsApart
  <2>4. \A j \in 1 .. 2 : Body(o)[j] \in HistogramWords(o.x)
    BY <2>2, WordsKnown
  <2>5. QED
    BY <1>4, <2>1, <2>2, <2>3, <2>4
<1>5. QED
  BY <1>1, <1>2, <1>3, <1>4, OperationFacts

\* The scripts of run, one operation after the other.
LEMMA ScriptForms ==
  /\ \A n \in Nat \ {0} : Len(StepWritten(n)) = 2 /\ StepWritten(n) \in Seq(Operations)
  /\ \A n \in Nat \ {0} : StepWritten(n)[1] = Count("steps", 1) /\ StepWritten(n)[2] = Observe("batch", n)
  /\ \A last \in BOOLEAN :
       /\ TokenWritten(TRUE, last) \in Seq(Operations)
       /\ Len(TokenWritten(TRUE, last)) = IF last THEN 4 ELSE 3
       /\ TokenWritten(TRUE, last)[1] = Count("tokens", 1)
       /\ TokenWritten(TRUE, last)[2] = Count("prefill", PromptLen)
       /\ TokenWritten(TRUE, last)[3] = Observe("ttft", Time)
       /\ last => TokenWritten(TRUE, last)[4] = Count("done", 1)
  /\ \A last \in BOOLEAN :
       /\ TokenWritten(FALSE, last) \in Seq(Operations)
       /\ Len(TokenWritten(FALSE, last)) = IF last THEN 3 ELSE 2
       /\ TokenWritten(FALSE, last)[1] = Count("tokens", 1)
       /\ TokenWritten(FALSE, last)[2] = Observe("itl", Time)
       /\ last => TokenWritten(FALSE, last)[3] = Count("done", 1)
  /\ <<Count("done", 1)>> \in Seq(Operations)
  /\ <<Count("total", 1)>> \in Seq(Operations)
  /\ WriteProm \in Seq(Operations) /\ Len(WriteProm) = 8
  /\ Snapshot \in Seq(Operations) /\ Len(Snapshot) = 8
<1>1. \A c \in Counters, n \in Nat : Count(c, n) \in Operations /\ Load(c) \in Operations
  BY DEF Count, Load, Operation, Operations
<1>2. \A h \in Histograms, n \in Nat \ {0} : Observe(h, n) \in Operations
  BY DEF Observe, Operation, Operations
<1>3. \A h \in Histograms : Render(h) \in Operations /\ Mean(h) \in Operations
  BY DEF Render, Mean, Operation, Operations
<1>4. Time \in Nat \ {0} /\ PromptLen \in Nat
  BY MetricsAssumption DEF Time
<1>5. \A n \in Nat \ {0} : Len(StepWritten(n)) = 2 /\ StepWritten(n) \in Seq(Operations)
  BY <1>1, <1>2 DEF StepWritten, Counters, Histograms
<1>6. \A n \in Nat \ {0} : StepWritten(n)[1] = Count("steps", 1) /\ StepWritten(n)[2] = Observe("batch", n)
  BY DEF StepWritten
<1>7. /\ Count("tokens", 1) \in Operations /\ Count("prefill", PromptLen) \in Operations
      /\ Count("done", 1) \in Operations /\ Count("total", 1) \in Operations
      /\ Observe("ttft", Time) \in Operations /\ Observe("itl", Time) \in Operations
  BY <1>1, <1>2, <1>4 DEF Counters, Histograms
<1>. DEFINE done == Count("done", 1)
            one == <<Count("tokens", 1), Count("prefill", PromptLen), Observe("ttft", Time)>>
            two == <<Count("tokens", 1), Observe("itl", Time)>>
<1>8. \A last \in BOOLEAN : /\ TokenWritten(TRUE, last) = IF last THEN Append(one, done) ELSE one
                            /\ TokenWritten(FALSE, last) = IF last THEN Append(two, done) ELSE two
  BY DEF TokenWritten
<1>9. /\ one \in Seq(Operations) /\ Len(one) = 3
      /\ one[1] = Count("tokens", 1) /\ one[2] = Count("prefill", PromptLen) /\ one[3] = Observe("ttft", Time)
      /\ two \in Seq(Operations) /\ Len(two) = 2
      /\ two[1] = Count("tokens", 1) /\ two[2] = Observe("itl", Time)
  BY <1>7
<1>10. /\ Append(one, done) \in Seq(Operations) /\ Len(Append(one, done)) = 4
       /\ \A i \in 1 .. 3 : Append(one, done)[i] = one[i]
       /\ Append(one, done)[4] = done
       /\ Append(two, done) \in Seq(Operations) /\ Len(Append(two, done)) = 3
       /\ \A i \in 1 .. 2 : Append(two, done)[i] = two[i]
       /\ Append(two, done)[3] = done
  <2>1. done \in Operations /\ one \in Seq(Operations) /\ two \in Seq(Operations)
    BY <1>7, <1>9
  <2>. HIDE DEF one, two, done
  <2>2. /\ Append(one, done) \in Seq(Operations) /\ Len(Append(one, done)) = Len(one) + 1
        /\ \A i \in 1 .. Len(one) : Append(one, done)[i] = one[i]
        /\ Append(one, done)[Len(one) + 1] = done
    BY <2>1, AppendProperties
  <2>3. /\ Append(two, done) \in Seq(Operations) /\ Len(Append(two, done)) = Len(two) + 1
        /\ \A i \in 1 .. Len(two) : Append(two, done)[i] = two[i]
        /\ Append(two, done)[Len(two) + 1] = done
    BY <2>1, AppendProperties
  <2>4. QED
    BY <1>9, <2>2, <2>3
<1>11. <<Count("done", 1)>> \in Seq(Operations) /\ <<Count("total", 1)>> \in Seq(Operations)
  BY <1>7
<1>12. /\ Load("total") \in Operations /\ Load("done") \in Operations /\ Load("tokens") \in Operations
       /\ Load("prefill") \in Operations /\ Load("steps") \in Operations
  BY <1>1 DEF Counters
<1>13. /\ Render("ttft") \in Operations /\ Render("itl") \in Operations /\ Render("batch") \in Operations
       /\ Mean("ttft") \in Operations /\ Mean("itl") \in Operations /\ Mean("batch") \in Operations
  BY <1>3 DEF Histograms
<1>14. WriteProm \in Seq(Operations) /\ Len(WriteProm) = 8
  BY <1>12, <1>13 DEF WriteProm
<1>15. Snapshot \in Seq(Operations) /\ Len(Snapshot) = 8
  BY <1>12, <1>13 DEF Snapshot
<1>16. QED
  <2>2. done = Count("done", 1)
    OBVIOUS
  <2>. HIDE DEF one, two, done
  <2>3. /\ Append(one, done)[1] = one[1] /\ Append(one, done)[2] = one[2] /\ Append(one, done)[3] = one[3]
        /\ Append(two, done)[1] = two[1] /\ Append(two, done)[2] = two[2]
    BY <1>10
  <2>4. QED
    BY <1>5, <1>6, <1>9, <1>10, <1>11, <1>14, <1>15, <1>8, <2>2, <2>3

\* The operations of the scripts of readers.
LEMMA ReaderForms ==
  \A i \in 1 .. 8 :
    /\ WriteProm[i].op = IF i <= 5 THEN "load" ELSE "render"
    /\ Snapshot[i].op = IF i <= 3 THEN "mean" ELSE "load"
    /\ \A j \in 1 .. 8 : WriteProm[i].x = WriteProm[j].x \/ Snapshot[i].x = Snapshot[j].x => i = j
<1>. SUFFICES ASSUME NEW i \in 1 .. 8
              PROVE  /\ WriteProm[i].op = IF i <= 5 THEN "load" ELSE "render"
                     /\ Snapshot[i].op = IF i <= 3 THEN "mean" ELSE "load"
                     /\ \A j \in 1 .. 8 : WriteProm[i].x = WriteProm[j].x \/ Snapshot[i].x = Snapshot[j].x => i = j
  OBVIOUS
<1>1. \A k \in 1 .. 8 : k \in {1, 2, 3, 4, 5, 6, 7, 8}
  OBVIOUS
<1>2. /\ WriteProm[1] = Load("total") /\ WriteProm[2] = Load("done") /\ WriteProm[3] = Load("tokens")
      /\ WriteProm[4] = Load("prefill") /\ WriteProm[5] = Load("steps")
      /\ WriteProm[6] = Render("ttft") /\ WriteProm[7] = Render("itl") /\ WriteProm[8] = Render("batch")
  BY DEF WriteProm
<1>3. /\ Snapshot[1] = Mean("ttft") /\ Snapshot[2] = Mean("itl") /\ Snapshot[3] = Mean("batch")
      /\ Snapshot[4] = Load("total") /\ Snapshot[5] = Load("done") /\ Snapshot[6] = Load("tokens")
      /\ Snapshot[7] = Load("prefill") /\ Snapshot[8] = Load("steps")
  BY DEF Snapshot
<1>4. /\ \A c : Load(c).op = "load" /\ Load(c).x = c
      /\ \A h : Render(h).op = "render" /\ Render(h).x = h
      /\ \A h : Mean(h).op = "mean" /\ Mean(h).x = h
  BY DEF Load, Render, Mean, Operation
<1>5. WriteProm[i].op = IF i <= 5 THEN "load" ELSE "render"
  BY <1>1, <1>2, <1>4
<1>6. Snapshot[i].op = IF i <= 3 THEN "mean" ELSE "load"
  BY <1>1, <1>3, <1>4
<1>7. \A j \in 1 .. 8 : WriteProm[i].x = WriteProm[j].x => i = j
  BY <1>1, <1>2, <1>4
<1>8. \A j \in 1 .. 8 : Snapshot[i].x = Snapshot[j].x => i = j
  BY <1>1, <1>3, <1>4
<1>9. QED
  BY <1>5, <1>6, <1>7, <1>8

\* The operations of the scripts of run.
LEMMA WriterForms ==
  ASSUME NEW u \in LoopScripts
  PROVE  /\ u \in Seq(Operations) /\ Len(u) \in 0 .. 4
         /\ \A i \in 1 .. Len(u) : u[i].op \in {"count", "observe"} /\ u[i].x # "total"
         /\ \A i, j \in 1 .. Len(u) : u[i].x = u[j].x => i = j
         /\ \A i \in 1 .. Len(u) : u[i].op = "observe" /\ u[i].x # "batch" => u[i].n = Time
<1>1. \A c, n : /\ Count(c, n).op = "count" /\ Count(c, n).x = c
                /\ Observe(c, n).op = "observe" /\ Observe(c, n).x = c /\ Observe(c, n).n = n
  BY DEF Count, Observe, Operation
<1>2. CASE u = <<>>
  BY <1>2
<1>3. CASE u = <<Count("done", 1)>>
  <2>1. u \in Seq(Operations)
    BY <1>3, ScriptForms
  <2>2. Len(u) = 1 /\ u[1] = Count("done", 1)
    BY <1>3
  <2>3. QED
    BY <1>1, <2>1, <2>2
<1>4. CASE \E n \in Nat \ {0} : u = StepWritten(n)
  <2>1. PICK n \in Nat \ {0} : u = StepWritten(n)
    BY <1>4
  <2>2. u \in Seq(Operations) /\ Len(u) = 2 /\ u[1] = Count("steps", 1) /\ u[2] = Observe("batch", n)
    BY <2>1, ScriptForms
  <2>3. \A i \in 1 .. 2 : i = 1 \/ i = 2
    OBVIOUS
  <2>4. QED
    BY <1>1, <2>2, <2>3
<1>5. CASE \E last \in BOOLEAN : u = TokenWritten(TRUE, last)
  <2>1. PICK last \in BOOLEAN : u = TokenWritten(TRUE, last)
    BY <1>5
  <2>2. /\ u \in Seq(Operations) /\ Len(u) = IF last THEN 4 ELSE 3
        /\ u[1] = Count("tokens", 1) /\ u[2] = Count("prefill", PromptLen)
        /\ u[3] = Observe("ttft", Time) /\ (last => u[4] = Count("done", 1))
    BY <2>1, ScriptForms
  <2>3. \A i \in 1 .. Len(u) : i = 1 \/ i = 2 \/ i = 3 \/ (last /\ i = 4)
    BY <2>2
  <2>4. QED
    BY <1>1, <2>2, <2>3
<1>6. CASE \E last \in BOOLEAN : u = TokenWritten(FALSE, last)
  <2>1. PICK last \in BOOLEAN : u = TokenWritten(FALSE, last)
    BY <1>6
  <2>2. /\ u \in Seq(Operations) /\ Len(u) = IF last THEN 3 ELSE 2
        /\ u[1] = Count("tokens", 1) /\ u[2] = Observe("itl", Time)
        /\ (last => u[3] = Count("done", 1))
    BY <2>1, ScriptForms
  <2>3. \A i \in 1 .. Len(u) : i = 1 \/ i = 2 \/ (last /\ i = 3)
    BY <2>2
  <2>4. QED
    BY <1>1, <2>2, <2>3
<1>7. QED
  BY <1>2, <1>3, <1>4, <1>5, <1>6 DEF LoopScripts

-----------------------------------------------------------------------------
(* Types, scripts, places and mutexes. *)

\* What a goroutine is at, and what it may do there.
LEMMA NowFacts ==
  ASSUME MTypeOK, ScriptsRight, NEW t \in Threads, ~ Idle(t)
  PROVE  /\ Now(t) \in Operations /\ line[t] \in 1 .. Len(script[t])
         /\ t \in Requests => Now(t) = Count("total", 1) /\ line[t] = 1 /\ Len(script[t]) = 1
         /\ t \in Scrapers => Now(t).op \in {"load", "render", "mean"}
         /\ t = Loop => Now(t).op \in {"count", "observe"} /\ Now(t).x # "total"
<1>1. script[t] \in Seq(Operations) /\ line[t] \in Nat \ {0} /\ Len(script[t]) \in Nat
  BY LenProperties DEF MTypeOK
<1>2. line[t] \in 1 .. Len(script[t])
  BY <1>1 DEF Idle
<1>3. Now(t) \in Operations
  BY <1>1, <1>2, ElementOfSeq DEF Now
<1>4. ASSUME t \in Requests PROVE Now(t) = Count("total", 1) /\ line[t] = 1 /\ Len(script[t]) = 1
  <2>1. script[t] = <<>> \/ script[t] = <<Count("total", 1)>>
    BY <1>4 DEF ScriptsRight
  <2>2. CASE script[t] = <<>>
    BY <1>2, <2>2
  <2>3. CASE script[t] = <<Count("total", 1)>>
    <3>1. Len(script[t]) = 1 /\ script[t][1] = Count("total", 1)
      BY <2>3
    <3>2. QED
      BY <1>2, <3>1 DEF Now
  <2>4. QED
    BY <2>1, <2>2, <2>3
<1>5. ASSUME t \in Scrapers PROVE Now(t).op \in {"load", "render", "mean"}
  <2>1. script[t] = WriteProm \/ script[t] = Snapshot \/ script[t] = <<>>
    BY <1>5 DEF ScriptsRight
  <2>2. script[t] # <<>>
    BY <1>2
  <2>3. line[t] \in 1 .. 8
    BY <1>2, <2>1, <2>2, ScriptForms
  <2>4. QED
    BY <2>1, <2>2, <2>3, ReaderForms DEF Now
<1>6. ASSUME t = Loop PROVE Now(t).op \in {"count", "observe"} /\ Now(t).x # "total"
  BY <1>2, <1>6, WriterForms DEF ScriptsRight, Now
<1>7. QED
  BY <1>2, <1>3, <1>4, <1>5, <1>6

\* One access of t: where t is afterwards, and that nobody else moves.
LEMMA GoesFacts ==
  ASSUME PlacesInv, NEW t \in Threads, ~ Idle(t), Goes(t)
  PROVE  /\ script' = script /\ kind' = kind /\ stage' = stage /\ given' = given /\ rest' = rest
         /\ line' \in [Threads -> Nat \ {0}] /\ at' \in [Threads -> Nat]
         /\ \A u \in Threads \ {t} : line'[u] = line[u] /\ at'[u] = at[u]
         /\ Locks(Now(t)) /\ at[t] <= Len(Body(Now(t))) => line'[t] = line[t] /\ at'[t] = at[t] + 1
         /\ ~ Locks(Now(t)) \/ at[t] > Len(Body(Now(t))) => line'[t] = line[t] + 1 /\ at'[t] = 0
<1>1. line \in [Threads -> Nat \ {0}] /\ at \in [Threads -> Nat]
  BY DEF PlacesInv, MTypeOK
<1>2. Len(Body(Now(t))) \in Nat
  BY NowFacts, BodyFacts DEF PlacesInv
<1>3. QED
  BY <1>1, <1>2 DEF Goes

\* An access keeps everybody's place.
LEMMA GoesKeepsPlaces ==
  ASSUME PlacesInv, NEW t \in Threads, ~ Idle(t), Goes(t)
  PROVE  /\ \A u \in Threads : PlaceRight(u)'
         /\ \A u \in Threads \ {t}, h \in Histograms : Inside(u, h)' <=> Inside(u, h)
         /\ Locks(Now(t)) /\ at[t] <= Len(Body(Now(t))) =>
              \A h \in Histograms : Inside(t, h)' <=> Now(t).x = h
         /\ ~ Locks(Now(t)) \/ at[t] > Len(Body(Now(t))) => \A h \in Histograms : ~ Inside(t, h)'
<1>. DEFINE o == Now(t)
<1>1. o \in Operations /\ line[t] \in 1 .. Len(script[t]) /\ Len(script[t]) \in Nat
  BY NowFacts, LenProperties DEF PlacesInv, MTypeOK
<1>2. Len(Body(o)) \in Nat \ {0}
  BY <1>1, BodyFacts
<1>3. PlaceRight(t) /\ at[t] \in Nat
  BY DEF PlacesInv, MTypeOK
<1>4. ASSUME NEW u \in Threads \ {t}
      PROVE  /\ PlaceRight(u)'
             /\ \A h \in Histograms : Inside(u, h)' <=> Inside(u, h)
  <2>1. line'[u] = line[u] /\ at'[u] = at[u] /\ script' = script
    BY GoesFacts
  <2>2. PlaceRight(u)
    BY DEF PlacesInv
  <2>3. QED
    BY <2>1, <2>2 DEF PlaceRight, Inside, Idle, Now
<1>5. CASE Locks(o) /\ at[t] <= Len(Body(o))
  <2>1. line'[t] = line[t] /\ at'[t] = at[t] + 1 /\ script' = script
    BY <1>5, GoesFacts
  <2>2. Now(t)' = o /\ ~ Idle(t)'
    BY <2>1 DEF Now, Idle
  <2>3. at[t] + 1 <= Len(Body(o)) + 1 /\ at[t] + 1 > 0
    BY <1>2, <1>3, <1>5
  <2>4. PlaceRight(t)'
    BY <1>1, <1>5, <2>1, <2>2, <2>3 DEF PlaceRight
  <2>5. \A h \in Histograms : Inside(t, h)' <=> o.x = h
    BY <2>1, <2>2, <2>3 DEF Inside
  <2>6. QED
    BY <1>2, <1>3, <1>4, <1>5, <2>4, <2>5
<1>6. CASE ~ Locks(o) \/ at[t] > Len(Body(o))
  <2>1. line'[t] = line[t] + 1 /\ at'[t] = 0 /\ script' = script
    BY <1>6, GoesFacts
  <2>2. ~ Idle(t)' => Now(t)' \in Operations
    <3>1. ASSUME ~ Idle(t)' PROVE Now(t)' \in Operations
      <4>1. script[t] \in Seq(Operations) /\ line[t] + 1 \in 1 .. Len(script[t])
        BY <1>1, <2>1, <3>1 DEF PlacesInv, MTypeOK, Idle
      <4>2. script[t][line[t] + 1] \in Operations
        BY <4>1, ElementOfSeq
      <4>3. QED
        BY <2>1, <4>2 DEF Now
    <3>2. QED
      BY <3>1
  <2>3. ~ Idle(t)' => Len(Body(Now(t)')) \in Nat
    BY <2>2, BodyFacts
  <2>4. PlaceRight(t)'
    BY <1>1, <2>1, <2>3 DEF PlaceRight
  <2>5. \A h \in Histograms : ~ Inside(t, h)'
    BY <2>1 DEF Inside
  <2>6. QED
    BY <1>2, <1>3, <1>4, <1>6, <2>4, <2>5
<1>7. QED
  BY <1>2, <1>3, <1>5, <1>6

\* The start of a script leaves everybody where they are.
LEMMA BeginsKeepsPlaces ==
  ASSUME PlacesInv, NEW t \in Threads, NEW what \in Seq(Operations), Begins(t, what)
  PROVE  /\ script' \in [Threads -> Seq(Operations)] /\ line' \in [Threads -> Nat \ {0}]
         /\ script'[t] = what /\ line'[t] = 1 /\ at'[t] = 0
         /\ \A u \in Threads \ {t} : script'[u] = script[u] /\ line'[u] = line[u]
         /\ word' = word /\ mu' = mu /\ at' = at /\ seen' = seen
         /\ \A u \in Threads : PlaceRight(u)'
         /\ \A u \in Threads, h \in Histograms : Inside(u, h)' <=> Inside(u, h)
         /\ \A h \in Histograms : mu[h] # t
<1>1. /\ script' \in [Threads -> Seq(Operations)] /\ line' \in [Threads -> Nat \ {0}]
      /\ script'[t] = what /\ line'[t] = 1
      /\ \A u \in Threads \ {t} : script'[u] = script[u] /\ line'[u] = line[u]
      /\ word' = word /\ mu' = mu /\ at' = at /\ seen' = seen
  BY DEF PlacesInv, MTypeOK, Begins
<1>2. Idle(t) /\ PlaceRight(t)
  BY DEF PlacesInv, Begins
<1>3. at[t] = 0 /\ at'[t] = 0
  BY <1>1, <1>2 DEF PlaceRight
<1>4. Len(what) \in Nat
  BY LenProperties
<1>5. PlaceRight(t)'
  <2>1. ~ Idle(t)' => Now(t)' \in Operations
    <3>1. ASSUME ~ Idle(t)' PROVE Now(t)' \in Operations
      <4>1. 1 \in 1 .. Len(what)
        BY <1>1, <1>4, <3>1 DEF Idle
      <4>2. what[1] \in Operations
        BY <4>1, ElementOfSeq
      <4>3. QED
        BY <1>1, <4>2 DEF Now
    <3>2. QED
      BY <3>1
  <2>2. ~ Idle(t)' => Len(Body(Now(t)')) \in Nat
    BY <2>1, BodyFacts
  <2>3. QED
    BY <1>1, <1>3, <1>4, <2>2 DEF PlaceRight
<1>6. ASSUME NEW u \in Threads \ {t}
      PROVE  PlaceRight(u)' /\ \A h \in Histograms : Inside(u, h)' <=> Inside(u, h)
  <2>1. PlaceRight(u)
    BY DEF PlacesInv
  <2>2. QED
    BY <1>1, <2>1 DEF PlaceRight, Inside, Idle, Now
<1>7. \A h \in Histograms : ~ Inside(t, h) /\ ~ Inside(t, h)'
  BY <1>3 DEF Inside
<1>8. \A h \in Histograms : mu[h] # t
  BY <1>7 DEF PlacesInv, MutexRight
<1>9. QED
  BY <1>1, <1>3, <1>5, <1>6, <1>7, <1>8

\* The word an access goes to: a counter, or one of the histogram t is inside of.
LEMMA AtWordFacts ==
  ASSUME PlacesInv, NEW t \in Threads, AtWord(t)
  PROVE  /\ ~ Idle(t) /\ Now(t) \in Operations /\ NextWord(t) \in Words
         /\ ~ Locks(Now(t)) => NextWord(t) = Value(Now(t).x) /\ Now(t).x \in Counters /\ at[t] = 0
         /\ Locks(Now(t)) =>
              /\ Now(t).x \in Histograms /\ NextWord(t) \in HistogramWords(Now(t).x)
              /\ at[t] \in 1 .. Len(Body(Now(t))) /\ NextWord(t) = Body(Now(t))[at[t]]
              /\ Inside(t, Now(t).x) /\ mu[Now(t).x] = t
<1>1. ~ Idle(t) /\ Now(t) \in Operations /\ PlaceRight(t)
  BY NowFacts DEF PlacesInv, AtWord
<1>2. CASE ~ Locks(Now(t))
  <2>1. NextWord(t) = Value(Now(t).x) /\ NextWord(t) \in Words
    BY <1>1, <1>2, BodyFacts DEF NextWord
  <2>2. Now(t).x \in Counters
    BY <1>1, <1>2, OperationFacts DEF Locks
  <2>3. QED
    BY <1>1, <1>2, <2>1, <2>2 DEF PlaceRight
<1>3. CASE Locks(Now(t))
  <2>1. at[t] \in 1 .. Len(Body(Now(t))) /\ NextWord(t) = Body(Now(t))[at[t]]
    BY <1>1, <1>3, BodyFacts DEF AtWord, NextWord
  <2>2. Now(t).x \in Histograms
    BY <1>1, <1>3, OperationFacts
  <2>3. NextWord(t) \in HistogramWords(Now(t).x)
    BY <1>1, <1>3, <2>1, BodyFacts
  <2>4. NextWord(t) \in Words
    BY <2>2, <2>3, WordsKnown
  <2>5. Inside(t, Now(t).x)
    BY <1>1, <2>1 DEF Inside
  <2>6. mu[Now(t).x] = t
    BY <2>2, <2>5 DEF PlacesInv, MutexRight
  <2>7. QED
    BY <1>1, <1>3, <2>1, <2>2, <2>3, <2>4, <2>5, <2>6
<1>4. QED
  BY <1>2, <1>3

LEMMA AmountNat == \A o \in Operations : \A w : Amount(o, w) \in Nat
BY OperationFacts DEF Amount

LEMMA PlacesInit == MInit => PlacesInv
<1>. SUFFICES ASSUME MInit PROVE PlacesInv
  OBVIOUS
<1>1. MTypeOK
  <2>1. <<>> \in Seq(Operations)
    OBVIOUS
  <2>2. QED
    BY <2>1 DEF MInit, MTypeOK, Unread
<1>2. ScriptsRight
  BY DEF MInit, ScriptsRight, LoopScripts, Threads
<1>3. \A t \in Threads : Idle(t)
  BY DEF MInit, Idle
<1>4. \A t \in Threads : PlaceRight(t)
  BY <1>3 DEF MInit, PlaceRight
<1>5. MutexRight
  BY <1>3, MetricsAssumption DEF MInit, MutexRight, Inside
<1>6. QED
  BY <1>1, <1>2, <1>4, <1>5 DEF PlacesInv

\* An access to a word.
LEMMA PlacesAtWord ==
  ASSUME PlacesInv, NEW t \in Threads, AtWord(t), Goes(t), UNCHANGED mu,
         word' \in [Words -> Nat], seen' \in [Scrapers -> [Words -> Nat \cup {Unread}]]
  PROVE  PlacesInv' /\ \A u \in Threads, h \in Histograms : Inside(u, h)' <=> Inside(u, h)
<1>1. ~ Idle(t) /\ Now(t) \in Operations
  BY AtWordFacts
<1>2. \A h \in Histograms : Inside(t, h)' <=> Inside(t, h)
  <2>1. CASE Locks(Now(t))
    <3>1. at[t] \in 1 .. Len(Body(Now(t)))
      BY <2>1, AtWordFacts
    <3>2. \A h \in Histograms : Inside(t, h)' <=> Now(t).x = h
      BY <1>1, <2>1, <3>1, GoesKeepsPlaces
    <3>3. QED
      BY <1>1, <3>1, <3>2 DEF Inside
  <2>2. CASE ~ Locks(Now(t))
    <3>1. at[t] = 0
      BY <2>2, AtWordFacts
    <3>2. \A h \in Histograms : ~ Inside(t, h)'
      BY <1>1, <2>2, GoesKeepsPlaces
    <3>3. QED
      BY <3>1, <3>2 DEF Inside
  <2>3. QED
    BY <2>1, <2>2
<1>3. \A u \in Threads, h \in Histograms : Inside(u, h)' <=> Inside(u, h)
  BY <1>1, <1>2, GoesKeepsPlaces
<1>4. MutexRight'
  BY <1>3 DEF PlacesInv, MutexRight
<1>5. MTypeOK'
  BY <1>1, GoesFacts DEF PlacesInv, MTypeOK
<1>6. ScriptsRight'
  BY <1>1, GoesFacts DEF PlacesInv, ScriptsRight
<1>7. \A u \in Threads : PlaceRight(u)'
  BY <1>1, GoesKeepsPlaces
<1>8. QED
  BY <1>3, <1>4, <1>5, <1>6, <1>7 DEF PlacesInv

LEMMA PlacesLock ==
  ASSUME PlacesInv, NEW t \in Threads, DoLock(t)
  PROVE  PlacesInv'
<1>. DEFINE x == Now(t).x
<1>1. /\ ~ Idle(t) /\ Locks(Now(t)) /\ at[t] = 0 /\ mu[x] = "nobody"
      /\ mu' = [mu EXCEPT ![x] = t] /\ Goes(t) /\ word' = word /\ seen' = seen
  BY DEF DoLock
<1>2. Now(t) \in Operations /\ x \in Histograms
  BY <1>1, NowFacts, OperationFacts DEF PlacesInv
<1>3. at[t] <= Len(Body(Now(t)))
  BY <1>1, <1>2, BodyFacts
<1>4. /\ \A h \in Histograms : Inside(t, h)' <=> x = h
      /\ \A u \in Threads \ {t}, h \in Histograms : Inside(u, h)' <=> Inside(u, h)
      /\ \A h \in Histograms : ~ Inside(t, h)
  BY <1>1, <1>3, GoesKeepsPlaces DEF Inside
<1>. HIDE DEF x
<1>5. \A u \in Threads : u # "nobody"
  BY MetricsAssumption
<1>6. mu \in [Histograms -> Threads \cup {"nobody"}] /\ mu' \in [Histograms -> Threads \cup {"nobody"}]
  BY <1>1, <1>2 DEF PlacesInv, MTypeOK
<1>7. MutexRight'
  <2>1. \A h \in Histograms, u \in Threads : mu[h] = u <=> Inside(u, h)
    BY DEF PlacesInv, MutexRight
  <2>2. mu'[x] = t /\ \A h \in Histograms \ {x} : mu'[h] = mu[h]
    BY <1>1, <1>2, <1>6
  <2>3. ASSUME NEW h \in Histograms, NEW u \in Threads PROVE mu'[h] = u <=> Inside(u, h)'
    BY <1>1, <1>2, <1>4, <1>5, <2>1, <2>2
  <2>4. QED
    BY <2>3 DEF MutexRight
<1>8. MTypeOK'
  BY <1>1, <1>6, GoesFacts DEF PlacesInv, MTypeOK
<1>9. ScriptsRight'
  BY <1>1, GoesFacts DEF PlacesInv, ScriptsRight
<1>10. \A u \in Threads : PlaceRight(u)'
  BY <1>1, GoesKeepsPlaces
<1>11. QED
  BY <1>7, <1>8, <1>9, <1>10 DEF PlacesInv

LEMMA PlacesUnlock ==
  ASSUME PlacesInv, NEW t \in Threads, DoUnlock(t)
  PROVE  PlacesInv'
<1>. DEFINE x == Now(t).x
<1>1. /\ ~ Idle(t) /\ Locks(Now(t)) /\ at[t] = Len(Body(Now(t))) + 1
      /\ mu' = [mu EXCEPT ![x] = "nobody"] /\ Goes(t) /\ word' = word /\ seen' = seen
  BY DEF DoUnlock
<1>2. Now(t) \in Operations /\ x \in Histograms
  BY <1>1, NowFacts, OperationFacts DEF PlacesInv
<1>3. at[t] > Len(Body(Now(t))) /\ at[t] > 0
  BY <1>1, <1>2, BodyFacts
<1>4. /\ \A h \in Histograms : ~ Inside(t, h)'
      /\ \A u \in Threads \ {t}, h \in Histograms : Inside(u, h)' <=> Inside(u, h)
      /\ \A h \in Histograms : Inside(t, h) <=> x = h
  BY <1>1, <1>3, GoesKeepsPlaces DEF Inside
<1>. HIDE DEF x
<1>5. \A u \in Threads : u # "nobody"
  BY MetricsAssumption
<1>6. mu \in [Histograms -> Threads \cup {"nobody"}] /\ mu' \in [Histograms -> Threads \cup {"nobody"}]
  BY <1>1, <1>2 DEF PlacesInv, MTypeOK
<1>7. MutexRight'
  <2>1. \A h \in Histograms, u \in Threads : mu[h] = u <=> Inside(u, h)
    BY DEF PlacesInv, MutexRight
  <2>2. mu'[x] = "nobody" /\ \A h \in Histograms \ {x} : mu'[h] = mu[h]
    BY <1>1, <1>2, <1>6
  <2>3. ASSUME NEW h \in Histograms, NEW u \in Threads PROVE mu'[h] = u <=> Inside(u, h)'
    <3>1. mu[x] = t
      BY <1>2, <1>4, <2>1
    <3>2. QED
      BY <1>1, <1>2, <1>4, <1>5, <2>1, <2>2, <3>1
  <2>4. QED
    BY <2>3 DEF MutexRight
<1>8. MTypeOK'
  BY <1>1, <1>6, GoesFacts DEF PlacesInv, MTypeOK
<1>9. ScriptsRight'
  BY <1>1, GoesFacts DEF PlacesInv, ScriptsRight
<1>10. \A u \in Threads : PlaceRight(u)'
  BY <1>1, GoesKeepsPlaces
<1>11. QED
  BY <1>7, <1>8, <1>9, <1>10 DEF PlacesInv

\* How many requests there are of a kind.
LEMMA SomeRequests ==
  ASSUME NEW S \in SUBSET Requests
  PROVE  IsFiniteSet(S) /\ Cardinality(S) \in Nat /\ (S # {} => Cardinality(S) \in Nat \ {0})
<1>1. IsFiniteSet(S)
  BY FS_Subset, MetricsAssumption
<1>2. QED
  BY <1>1, FS_CardinalityType, FS_EmptySet

LEMMA ThreadKinds ==
  /\ Requests \subseteq Threads /\ Scrapers \subseteq Threads /\ Loop \in Threads
  /\ \A r \in Requests : r # Loop /\ r \notin Scrapers
  /\ \A s \in Scrapers : s # Loop /\ s \notin Requests
BY MetricsAssumption DEF Threads

\* What run and the others begin with is a script of theirs.
LEMMA BegunScripts ==
  /\ \A n \in Nat \ {0} : StepWritten(n) \in LoopScripts /\ StepWritten(n) \in Seq(Operations)
  /\ \A first, last \in BOOLEAN :
       TokenWritten(first, last) \in LoopScripts /\ TokenWritten(first, last) \in Seq(Operations)
  /\ <<Count("done", 1)>> \in LoopScripts
<1>1. \A n \in Nat \ {0} : StepWritten(n) \in LoopScripts /\ StepWritten(n) \in Seq(Operations)
  BY ScriptForms DEF LoopScripts
<1>2. <<Count("done", 1)>> \in LoopScripts
  BY DEF LoopScripts
<1>3. ASSUME NEW first \in BOOLEAN, NEW last \in BOOLEAN
      PROVE  TokenWritten(first, last) \in LoopScripts /\ TokenWritten(first, last) \in Seq(Operations)
  <2>1. CASE first = TRUE
    <3>1. TokenWritten(TRUE, last) \in LoopScripts /\ TokenWritten(TRUE, last) \in Seq(Operations)
      BY ScriptForms DEF LoopScripts
    <3>2. QED
      BY <2>1, <3>1
  <2>2. CASE first = FALSE
    <3>1. TokenWritten(FALSE, last) \in LoopScripts /\ TokenWritten(FALSE, last) \in Seq(Operations)
      BY ScriptForms DEF LoopScripts
    <3>2. QED
      BY <2>2, <3>1
  <2>3. QED
    BY <2>1, <2>2
<1>4. QED
  BY <1>1, <1>2, <1>3

\* The start of a script of run.
LEMMA PlacesLoop ==
  ASSUME PlacesInv, NEW what \in LoopScripts, Begins(Loop, what),
         stage' \in [Requests -> {"new", "taken", "live", "over"}], given' \in [Requests -> Nat],
         rest' \in SUBSET Requests, UNCHANGED kind,
         \A r \in Requests : stage'[r] = "new" <=> stage[r] = "new"
  PROVE  PlacesInv'
<1>1. what \in Seq(Operations) /\ Loop \in Threads
  BY WriterForms, ThreadKinds
<1>2. /\ script' \in [Threads -> Seq(Operations)] /\ line' \in [Threads -> Nat \ {0}]
      /\ script'[Loop] = what /\ \A u \in Threads \ {Loop} : script'[u] = script[u]
      /\ word' = word /\ mu' = mu /\ at' = at /\ seen' = seen
      /\ \A u \in Threads : PlaceRight(u)'
      /\ \A u \in Threads, h \in Histograms : Inside(u, h)' <=> Inside(u, h)
  BY <1>1, BeginsKeepsPlaces
<1>3. MTypeOK'
  BY <1>2 DEF PlacesInv, MTypeOK
<1>4. ScriptsRight'
  BY <1>2, ThreadKinds DEF PlacesInv, ScriptsRight
<1>5. MutexRight'
  BY <1>2 DEF PlacesInv, MutexRight
<1>6. QED
  BY <1>2, <1>3, <1>4, <1>5 DEF PlacesInv

LEMMA PlacesSubmit ==
  ASSUME PlacesInv, NEW r \in Requests, Submit(r)
  PROVE  PlacesInv'
<1>. DEFINE what == <<Count("total", 1)>>
<1>1. what \in Seq(Operations) /\ r \in Threads
  BY ScriptForms, ThreadKinds
<1>2. /\ stage[r] = "new" /\ Begins(r, what)
      /\ stage' = [stage EXCEPT ![r] = "taken"] /\ given' = given /\ rest' = rest /\ kind' = kind
  BY DEF Submit
<1>. HIDE DEF what
<1>3. /\ script' \in [Threads -> Seq(Operations)] /\ line' \in [Threads -> Nat \ {0}]
      /\ script'[r] = what /\ \A u \in Threads \ {r} : script'[u] = script[u]
      /\ word' = word /\ mu' = mu /\ at' = at /\ seen' = seen
      /\ \A u \in Threads : PlaceRight(u)'
      /\ \A u \in Threads, h \in Histograms : Inside(u, h)' <=> Inside(u, h)
  BY <1>1, <1>2, BeginsKeepsPlaces
<1>4. stage' \in [Requests -> {"new", "taken", "live", "over"}] /\ stage'[r] = "taken"
      /\ \A q \in Requests \ {r} : stage'[q] = stage[q]
  BY <1>2 DEF PlacesInv, MTypeOK
<1>5. MTypeOK'
  BY <1>2, <1>3, <1>4 DEF PlacesInv, MTypeOK
<1>6. ScriptsRight'
  <2>1. \A q \in Requests : script'[q] = IF stage'[q] = "new" THEN <<>> ELSE <<Count("total", 1)>>
    BY <1>3, <1>4, ThreadKinds DEF PlacesInv, ScriptsRight, what
  <2>2. script'[Loop] = script[Loop] /\ \A s \in Scrapers : script'[s] = script[s]
    BY <1>3, ThreadKinds
  <2>3. QED
    BY <1>2, <2>1, <2>2 DEF PlacesInv, ScriptsRight
<1>7. MutexRight'
  BY <1>3 DEF PlacesInv, MutexRight
<1>8. QED
  BY <1>3, <1>5, <1>6, <1>7 DEF PlacesInv

LEMMA PlacesScrape ==
  ASSUME PlacesInv, NEW s \in Scrapers, Scrape(s)
  PROVE  PlacesInv'
<1>1. PICK k \in {"prom", "json"} :
        kind' = [kind EXCEPT ![s] = k] /\ Begins(s, IF k = "prom" THEN WriteProm ELSE Snapshot)
  BY DEF Scrape
<1>2. stage' = stage /\ given' = given /\ rest' = rest /\ kind[s] = "none"
  BY DEF Scrape
<1>. DEFINE what == IF k = "prom" THEN WriteProm ELSE Snapshot
<1>3. what \in Seq(Operations) /\ s \in Threads /\ Begins(s, what)
  BY <1>1, ScriptForms, ThreadKinds
<1>. HIDE DEF what
<1>4. /\ script' \in [Threads -> Seq(Operations)] /\ line' \in [Threads -> Nat \ {0}]
      /\ script'[s] = what /\ \A u \in Threads \ {s} : script'[u] = script[u]
      /\ word' = word /\ mu' = mu /\ at' = at /\ seen' = seen
      /\ \A u \in Threads : PlaceRight(u)'
      /\ \A u \in Threads, h \in Histograms : Inside(u, h)' <=> Inside(u, h)
  BY <1>3, BeginsKeepsPlaces
<1>5. kind' \in [Scrapers -> {"none", "prom", "json"}] /\ kind'[s] = k
      /\ \A q \in Scrapers \ {s} : kind'[q] = kind[q]
  BY <1>1 DEF PlacesInv, MTypeOK
<1>6. MTypeOK'
  BY <1>2, <1>4, <1>5 DEF PlacesInv, MTypeOK
<1>7. ScriptsRight'
  <2>1. what = IF k = "none" THEN <<>> ELSE IF k = "prom" THEN WriteProm ELSE Snapshot
    BY DEF what
  <2>2. \A q \in Scrapers : script'[q] = IF kind'[q] = "none" THEN <<>>
                                         ELSE IF kind'[q] = "prom" THEN WriteProm ELSE Snapshot
    BY <1>4, <1>5, <2>1, ThreadKinds DEF PlacesInv, ScriptsRight
  <2>3. script'[Loop] = script[Loop] /\ \A r \in Requests : script'[r] = script[r]
    BY <1>4, ThreadKinds
  <2>4. QED
    BY <1>2, <2>2, <2>3 DEF PlacesInv, ScriptsRight
<1>8. MutexRight'
  BY <1>4 DEF PlacesInv, MutexRight
<1>9. QED
  BY <1>4, <1>6, <1>7, <1>8 DEF PlacesInv

\* What the steps of run begin.
LEMMA StepFacts ==
  ASSUME PlacesInv, Step
  PROVE  /\ rest = {} /\ rest' \in SUBSET Requests /\ rest' \subseteq In("taken") \cup In("live")
         /\ Cardinality(rest') \in Nat \ {0}
         /\ Begins(Loop, StepWritten(Cardinality(rest')))
         /\ stage' = stage /\ given' = given /\ kind' = kind
<1>1. PICK prompts \in SUBSET In("taken") :
        /\ rest' = In("live") \cup prompts /\ rest' # {}
        /\ Begins(Loop, StepWritten(Cardinality(rest')))
  BY DEF Step
<1>2. rest' \subseteq In("taken") \cup In("live") /\ rest' \in SUBSET Requests
  BY <1>1 DEF In
<1>3. Cardinality(rest') \in Nat \ {0}
  BY <1>1, <1>2, SomeRequests
<1>4. QED
  BY <1>1, <1>2, <1>3 DEF Step

LEMMA NextTokenFacts ==
  ASSUME PlacesInv, NEW r \in Requests, NextToken(r)
  PROVE  /\ r \in rest /\ rest' = rest \ {r} /\ kind' = kind
         /\ given' \in [Requests -> Nat] /\ given'[r] = given[r] + 1
         /\ \A q \in Requests \ {r} : given'[q] = given[q] /\ stage'[q] = stage[q]
         /\ stage' \in [Requests -> {"new", "taken", "live", "over"}]
         /\ \E last \in BOOLEAN :
              /\ Begins(Loop, TokenWritten(stage[r] = "taken", last))
              /\ stage'[r] = IF last THEN "over" ELSE "live"
<1>1. PICK last \in BOOLEAN :
        /\ Begins(Loop, TokenWritten(stage[r] = "taken", last))
        /\ stage' = [stage EXCEPT ![r] = IF last THEN "over" ELSE "live"]
  BY DEF NextToken
<1>2. /\ stage \in [Requests -> {"new", "taken", "live", "over"}] /\ given \in [Requests -> Nat]
      /\ given' = [given EXCEPT ![r] = @ + 1] /\ rest' = rest \ {r} /\ r \in rest /\ kind' = kind
  BY DEF PlacesInv, MTypeOK, NextToken
<1>3. /\ stage' \in [Requests -> {"new", "taken", "live", "over"}]
      /\ stage'[r] = IF last THEN "over" ELSE "live"
      /\ \A q \in Requests \ {r} : stage'[q] = stage[q]
  BY <1>1, <1>2
<1>4. /\ given' \in [Requests -> Nat] /\ given'[r] = given[r] + 1
      /\ \A q \in Requests \ {r} : given'[q] = given[q]
  BY <1>2
<1>5. QED
  BY <1>1, <1>2, <1>3, <1>4

LEMMA FailFacts ==
  ASSUME PlacesInv, NEW r \in Requests, FailRequest(r)
  PROVE  /\ rest = {} /\ rest' = {} /\ given' = given /\ kind' = kind
         /\ stage[r] \in {"taken", "live"} /\ stage'[r] = "over"
         /\ \A q \in Requests \ {r} : stage'[q] = stage[q]
         /\ stage' \in [Requests -> {"new", "taken", "live", "over"}]
         /\ Begins(Loop, <<Count("done", 1)>>)
BY DEF PlacesInv, MTypeOK, FailRequest, In

LEMMA PlacesNext == PlacesInv /\ StagesRight /\ [MNext]_mVars => PlacesInv'
<1>. SUFFICES ASSUME PlacesInv, StagesRight, [MNext]_mVars PROVE PlacesInv'
  OBVIOUS
<1>1. CASE \E r \in Requests : Submit(r)
  BY <1>1, PlacesSubmit
<1>2. ASSUME NEW r \in Requests, NextToken(r) PROVE PlacesInv'
  <2>1. PICK last \in BOOLEAN : /\ Begins(Loop, TokenWritten(stage[r] = "taken", last))
                                /\ stage'[r] = IF last THEN "over" ELSE "live"
    BY <1>2, NextTokenFacts
  <2>2. PICK what : what = TokenWritten(stage[r] = "taken", last)
    OBVIOUS
  <2>3. what \in LoopScripts
    <3>1. (stage[r] = "taken") \in BOOLEAN
      OBVIOUS
    <3>2. QED
      BY <2>2, <3>1, BegunScripts
  <2>4. Begins(Loop, what)
    BY <2>1, <2>2
  <2>5. stage[r] # "new" /\ rest \in SUBSET Requests
    BY <1>2, NextTokenFacts DEF StagesRight, In, PlacesInv, MTypeOK
  <2>6. \A q \in Requests : stage'[q] = "new" <=> stage[q] = "new"
    BY <1>2, <2>1, <2>5, NextTokenFacts
  <2>7. rest' \in SUBSET Requests
    BY <1>2, <2>5, NextTokenFacts
  <2>8. QED
    BY <1>2, <2>3, <2>4, <2>6, <2>7, NextTokenFacts, PlacesLoop
<1>3. ASSUME NEW r \in Requests, FailRequest(r) PROVE PlacesInv'
  <2>1. \A q \in Requests : stage'[q] = "new" <=> stage[q] = "new"
    BY <1>3, FailFacts
  <2>2. given' \in [Requests -> Nat] /\ rest' \in SUBSET Requests
    BY <1>3, FailFacts DEF PlacesInv, MTypeOK
  <2>3. QED
    BY <1>3, <2>1, <2>2, FailFacts, BegunScripts, PlacesLoop
<1>4. CASE Step
  <2>1. PICK what : what = StepWritten(Cardinality(rest'))
    OBVIOUS
  <2>2. what \in LoopScripts /\ Begins(Loop, what)
    BY <1>4, <2>1, StepFacts, BegunScripts
  <2>3. /\ stage' \in [Requests -> {"new", "taken", "live", "over"}] /\ given' \in [Requests -> Nat]
        /\ rest' \in SUBSET Requests /\ \A q \in Requests : stage'[q] = stage[q]
    BY <1>4, StepFacts DEF PlacesInv, MTypeOK
  <2>4. QED
    BY <1>4, <2>2, <2>3, StepFacts, PlacesLoop
<1>5. CASE \E s \in Scrapers : Scrape(s)
  BY <1>5, PlacesScrape
<1>6. ASSUME NEW s \in Scrapers, DoRead(s) PROVE PlacesInv'
  <2>1. s \in Threads /\ AtWord(s) /\ Goes(s) /\ mu' = mu /\ word' = word
    BY <1>6, ThreadKinds DEF DoRead
  <2>2. NextWord(s) \in Words
    BY <2>1, AtWordFacts
  <2>3. word' \in [Words -> Nat] /\ seen' \in [Scrapers -> [Words -> Nat \cup {Unread}]]
    BY <1>6, <2>1, <2>2 DEF DoRead, PlacesInv, MTypeOK
  <2>4. QED
    BY <2>1, <2>3, PlacesAtWord
<1>7. ASSUME NEW t \in Threads, DoAdd(t) PROVE PlacesInv'
  <2>1. AtWord(t) /\ Goes(t) /\ mu' = mu /\ seen' = seen
    BY <1>7 DEF DoAdd
  <2>2. NextWord(t) \in Words /\ Now(t) \in Operations
    BY <2>1, AtWordFacts
  <2>3. Amount(Now(t), NextWord(t)) \in Nat
    BY <2>2, AmountNat
  <2>4. word' \in [Words -> Nat] /\ seen' \in [Scrapers -> [Words -> Nat \cup {Unread}]]
    BY <1>7, <2>1, <2>2, <2>3 DEF DoAdd, PlacesInv, MTypeOK
  <2>5. QED
    BY <2>1, <2>4, PlacesAtWord
<1>8. CASE \E t \in Threads : DoLock(t)
  BY <1>8, PlacesLock
<1>9. CASE \E t \in Threads : DoUnlock(t)
  BY <1>9, PlacesUnlock
<1>10. CASE UNCHANGED mVars
  BY <1>10 DEF mVars, PlacesInv, MTypeOK, ScriptsRight, PlaceRight, MutexRight, Inside, Idle, Now
<1>11. QED
  BY <1>1, <1>2, <1>3, <1>4, <1>5, <1>6, <1>7, <1>8, <1>9, <1>10 DEF MNext, Rests

-----------------------------------------------------------------------------
(* What run has yet to add. *)

LEMMA LeftNat == \A o \in Operations : \A k, w : Left(o, k, w) \in Nat
BY AmountNat DEF Left

\* An access takes off what it adds.
LEMMA LeftStep ==
  ASSUME NEW o \in Operations, NEW w
  PROVE  /\ \A k \in DOMAIN Body(o) :
              Left(o, k, w) = Left(o, k + 1, w) + IF w = Body(o)[k] THEN Amount(o, w) ELSE 0
         /\ \A k \in Nat : k > Len(Body(o)) => Left(o, k, w) = 0
         /\ Left(o, 0, w) = Left(o, 1, w)
<1>1. /\ DOMAIN Body(o) = 1 .. Len(Body(o)) /\ Len(Body(o)) \in Nat
      /\ \A i, j \in DOMAIN Body(o) : Body(o)[i] = Body(o)[j] => i = j
  BY BodyFacts
<1>2. Amount(o, w) \in Nat
  BY AmountNat
<1>3. ASSUME NEW k \in DOMAIN Body(o)
      PROVE  Left(o, k, w) = Left(o, k + 1, w) + IF w = Body(o)[k] THEN Amount(o, w) ELSE 0
  <2>1. CASE w = Body(o)[k]
    <3>1. \E i \in DOMAIN Body(o) : i >= k /\ Body(o)[i] = w
      BY <1>1, <1>3, <2>1
    <3>2. ~ \E i \in DOMAIN Body(o) : i >= k + 1 /\ Body(o)[i] = w
      BY <1>1, <1>3, <2>1
    <3>3. QED
      BY <1>2, <2>1, <3>1, <3>2 DEF Left
  <2>2. CASE w # Body(o)[k]
    <3>1. (\E i \in DOMAIN Body(o) : i >= k /\ Body(o)[i] = w)
            <=> (\E i \in DOMAIN Body(o) : i >= k + 1 /\ Body(o)[i] = w)
      BY <1>1, <1>3, <2>2
    <3>2. QED
      BY <1>2, <2>2, <3>1 DEF Left
  <2>3. QED
    BY <2>1, <2>2
<1>4. \A k \in Nat : k > Len(Body(o)) => Left(o, k, w) = 0
  BY <1>1 DEF Left
<1>5. (\E i \in DOMAIN Body(o) : i >= 0 /\ Body(o)[i] = w)
        <=> (\E i \in DOMAIN Body(o) : i >= 1 /\ Body(o)[i] = w)
  BY <1>1
<1>6. Left(o, 0, w) = Left(o, 1, w)
  BY <1>5 DEF Left
<1>7. QED
  BY <1>3, <1>4, <1>6

\* An operation leaves the words of another counter or histogram alone.
LEMMA LeavesOthers ==
  ASSUME NEW o \in Operations, NEW h \in Histograms, o.x # h, NEW w \in HistogramWords(h), NEW k
  PROVE  Left(o, k, w) = 0
<1>1. ASSUME NEW i \in DOMAIN Body(o), Body(o)[i] = w PROVE FALSE
  <2>1. w \in HistogramWords(o.x) \/ w = Value(o.x)
    <3>1. CASE Locks(o)
      BY <1>1, <3>1, BodyFacts
    <3>2. CASE ~ Locks(o)
      <4>1. DOMAIN Body(o) = 1 .. 1 /\ Body(o) = <<Value(o.x)>>
        BY <3>2, BodyFacts
      <4>2. QED
        BY <1>1, <4>1
    <3>3. QED
      BY <3>1, <3>2
  <2>2. QED
    BY <2>1, WordsApart DEF HistogramWords
<1>2. QED
  BY <1>1 DEF Left

\* What a counter and an observation add in full.
LEMMA LeftOfCount ==
  ASSUME NEW c \in Counters, NEW n \in Nat, NEW w
  PROVE  Left(Count(c, n), 0, w) = IF w = Value(c) THEN n ELSE 0
<1>. DEFINE o == Count(c, n)
<1>1. o \in Operations /\ o.op = "count" /\ o.x = c /\ o.n = n
  BY DEF Count, Operation, Operations
<1>2. ~ Locks(o)
  BY <1>1 DEF Locks
<1>. HIDE DEF o
<1>3. DOMAIN Body(o) = 1 .. 1 /\ Body(o)[1] = Value(c)
  BY <1>1, <1>2, BodyFacts
<1>4. w = Value(c) => Amount(o, w) = n
  BY <1>1, WordsApart DEF Amount
<1>5. Left(o, 0, w) = IF w = Value(c) THEN n ELSE 0
  BY <1>3, <1>4 DEF Left
<1>6. QED
  BY <1>5 DEF o

LEMMA LeftOfObserve ==
  ASSUME NEW h \in Histograms, NEW v \in Nat \ {0}, NEW w
  PROVE  Left(Observe(h, v), 0, w) =
           IF w = Bucket(h, BucketOf(v)) \/ w = Total(h) THEN 1 ELSE IF w = Sum(h) THEN v ELSE 0
<1>. DEFINE o == Observe(h, v)
<1>1. o \in Operations /\ o.op = "observe" /\ o.x = h /\ o.n = v
  BY DEF Observe, Operation, Operations
<1>. HIDE DEF o
<1>2. /\ DOMAIN Body(o) = 1 .. 3 /\ Body(o)[1] = Bucket(h, BucketOf(v))
      /\ Body(o)[2] = Sum(h) /\ Body(o)[3] = Total(h)
  BY <1>1, BodyFacts
<1>3. \A i \in 1 .. 3 : i >= 0 /\ (i = 1 \/ i = 2 \/ i = 3)
  OBVIOUS
<1>4. (\E i \in DOMAIN Body(o) : i >= 0 /\ Body(o)[i] = w)
        <=> w = Bucket(h, BucketOf(v)) \/ w = Sum(h) \/ w = Total(h)
  BY <1>2, <1>3
<1>5. /\ w = Bucket(h, BucketOf(v)) \/ w = Total(h) => Amount(o, w) = 1
      /\ w = Sum(h) => Amount(o, w) = v
  BY <1>1, WordsApart DEF Amount
<1>6. w = Sum(h) => ~ (w = Bucket(h, BucketOf(v)) \/ w = Total(h))
  BY WordsApart
<1>7. Left(o, 0, w) =
           IF w = Bucket(h, BucketOf(v)) \/ w = Total(h) THEN 1 ELSE IF w = Sum(h) THEN v ELSE 0
  BY <1>4, <1>5, <1>6 DEF Left
<1>8. QED
  BY <1>7 DEF o

LEMMA OwedNat ==
  ASSUME PlacesInv, NEW w
  PROVE  /\ \A i \in 1 .. 4 : LeftAt(i, w) \in Nat
         /\ Owed(w) \in Nat
<1>1. script[Loop] \in Seq(Operations) /\ line[Loop] \in Nat \ {0}
  BY ThreadKinds DEF PlacesInv, MTypeOK
<1>2. ASSUME NEW i \in 1 .. 4 PROVE LeftAt(i, w) \in Nat
  <2>1. CASE i \in line[Loop] .. Len(script[Loop])
    <3>1. i \in 1 .. Len(script[Loop])
      BY <1>1, <2>1
    <3>2. script[Loop][i] \in Operations
      BY <1>1, <3>1, ElementOfSeq
    <3>3. QED
      BY <2>1, <3>2, LeftNat DEF LeftAt
  <2>2. CASE i \notin line[Loop] .. Len(script[Loop])
    BY <2>2 DEF LeftAt
  <2>3. QED
    BY <2>1, <2>2
<1>3. QED
  BY <1>2 DEF Owed

\* An access of run changes what the operation it is at has left, and no other.
LEMMA OwedMoves ==
  ASSUME PlacesInv, ~ Idle(Loop), Goes(Loop), NEW w
  PROVE  /\ Owed(w)' + Left(Now(Loop), at[Loop], w)
              = Owed(w) + IF Locks(Now(Loop)) /\ at[Loop] <= Len(Body(Now(Loop)))
                          THEN Left(Now(Loop), at[Loop] + 1, w) ELSE 0
         /\ Owed(w)' \in Nat
<1>. DEFINE o == Now(Loop)
            l == line[Loop]
            stays == Locks(o) /\ at[Loop] <= Len(Body(o))
<1>1. script[Loop] \in LoopScripts /\ Loop \in Threads
  BY ThreadKinds DEF PlacesInv, ScriptsRight
<1>2. Len(script[Loop]) \in 0 .. 4
  BY <1>1, WriterForms
<1>3. o \in Operations /\ l \in 1 .. Len(script[Loop]) /\ l \in 1 .. 4
  <2>1. o \in Operations /\ l \in 1 .. Len(script[Loop])
    BY <1>1, NowFacts DEF PlacesInv
  <2>. DEFINE n == Len(script[Loop])
  <2>2. n \in 0 .. 4 /\ l \in 1 .. n
    BY <1>2, <2>1
  <2>. HIDE DEF n, l
  <2>3. l \in 1 .. 4
    BY <2>2
  <2>4. QED
    BY <2>1, <2>3
<1>4. /\ script' = script
      /\ stays => line'[Loop] = l /\ at'[Loop] = at[Loop] + 1
      /\ ~ stays => line'[Loop] = l + 1 /\ at'[Loop] = 0
  <2>1. at[Loop] \in Nat /\ Len(Body(o)) \in Nat
    BY <1>1, <1>3, BodyFacts DEF PlacesInv, MTypeOK
  <2>2. QED
    BY <1>1, <2>1, GoesFacts
<1>5. LeftAt(l, w) = Left(o, at[Loop], w)
  BY <1>2, <1>3 DEF LeftAt, Now
<1>6. ASSUME NEW i \in 1 .. 4, i # l PROVE LeftAt(i, w)' = LeftAt(i, w)
  <2>1. CASE i < l
    BY <1>2, <1>3, <1>4, <1>6, <2>1 DEF LeftAt
  <2>2. CASE i > l
    BY <1>2, <1>3, <1>4, <1>6, <2>2 DEF LeftAt
  <2>3. QED
    BY <1>3, <1>6, <2>1, <2>2
<1>7. ASSUME NEW i \in 1 .. 4, i = l
      PROVE  LeftAt(i, w)' = IF stays THEN Left(o, at[Loop] + 1, w) ELSE 0
  <2>1. CASE stays
    <3>1. LeftAt(i, w)' = Left(script[Loop][i], at[Loop] + 1, w)
      BY <1>2, <1>3, <1>4, <1>7, <2>1 DEF LeftAt
    <3>2. QED
      BY <1>7, <2>1, <3>1 DEF Now
  <2>2. CASE ~ stays
    BY <1>2, <1>3, <1>4, <1>7, <2>2 DEF LeftAt
  <2>3. QED
    BY <2>1, <2>2
<1>8. \A i \in 1 .. 4 : LeftAt(i, w) \in Nat
  BY OwedNat
<1>9. Left(o, at[Loop], w) \in Nat /\ Left(o, at[Loop] + 1, w) \in Nat
  BY <1>3, LeftNat
<1>. DEFINE after == IF stays THEN Left(o, at[Loop] + 1, w) ELSE 0
<1>10. /\ l = 1 => LeftAt(1, w)' = after /\ LeftAt(1, w) = Left(o, at[Loop], w)
       /\ l = 2 => LeftAt(2, w)' = after /\ LeftAt(2, w) = Left(o, at[Loop], w)
       /\ l = 3 => LeftAt(3, w)' = after /\ LeftAt(3, w) = Left(o, at[Loop], w)
       /\ l = 4 => LeftAt(4, w)' = after /\ LeftAt(4, w) = Left(o, at[Loop], w)
       /\ l # 1 => LeftAt(1, w)' = LeftAt(1, w)
       /\ l # 2 => LeftAt(2, w)' = LeftAt(2, w)
       /\ l # 3 => LeftAt(3, w)' = LeftAt(3, w)
       /\ l # 4 => LeftAt(4, w)' = LeftAt(4, w)
  <2>. HIDE DEF o, l, stays
  <2>1. QED
    BY <1>5, <1>6, <1>7
<1>11. Owed(w)' + Left(o, at[Loop], w) = Owed(w) + after /\ Owed(w)' \in Nat
  <2>1. l = 1 \/ l = 2 \/ l = 3 \/ l = 4
    BY <1>3
  <2>2. /\ Owed(w) = LeftAt(1, w) + LeftAt(2, w) + LeftAt(3, w) + LeftAt(4, w)
        /\ Owed(w)' = LeftAt(1, w)' + LeftAt(2, w)' + LeftAt(3, w)' + LeftAt(4, w)'
    BY DEF Owed
  <2>3. /\ LeftAt(1, w) \in Nat /\ LeftAt(2, w) \in Nat /\ LeftAt(3, w) \in Nat /\ LeftAt(4, w) \in Nat
        /\ after \in Nat
    BY <1>8, <1>9
  <2>. HIDE DEF o, l, stays, after
  <2>4. QED
    BY <1>9, <1>10, <2>1, <2>2, <2>3
<1>12. QED
  BY <1>11 DEF o, stays

LEMMA OwedFrame ==
  ASSUME script'[Loop] = script[Loop], line'[Loop] = line[Loop], at'[Loop] = at[Loop], NEW w
  PROVE  Owed(w)' = Owed(w)
BY DEF Owed, LeftAt

LEMMA DueIs ==
  ASSUME NEW w \in Words
  PROVE  Due[w] = word[w] + Owed(w) /\ Due'[w] = word'[w] + Owed(w)'
BY DEF Due

\* An addition of run is what is no longer owed.
LEMMA DueAdd ==
  ASSUME PlacesInv, DoAdd(Loop), NEW w \in Words
  PROVE  Due'[w] = Due[w]
<1>. DEFINE o == Now(Loop)
            x == NextWord(Loop)
            n == Amount(o, x)
<1>1. Loop \in Threads /\ AtWord(Loop) /\ Goes(Loop) /\ word' = [word EXCEPT ![x] = @ + n]
  BY ThreadKinds DEF DoAdd
<1>2. o \in Operations /\ x \in Words /\ ~ Idle(Loop)
  BY <1>1, AtWordFacts
<1>3. word \in [Words -> Nat] /\ n \in Nat
  BY <1>2, AmountNat DEF PlacesInv, MTypeOK
<1>4. word'[w] = word[w] + IF w = x THEN Amount(o, w) ELSE 0
  BY <1>1, <1>2, <1>3
<1>5. Owed(w) \in Nat /\ Amount(o, w) \in Nat
  BY <1>2, OwedNat, AmountNat
<1>6. \A k \in Nat : Left(o, k, w) \in Nat
  BY <1>2, LeftNat
<1>7. CASE Locks(o)
  <2>1. at[Loop] \in 1 .. Len(Body(o)) /\ x = Body(o)[at[Loop]]
    BY <1>1, <1>7, AtWordFacts
  <2>2. at[Loop] \in DOMAIN Body(o) /\ at[Loop] <= Len(Body(o)) /\ at[Loop] \in Nat /\ at[Loop] + 1 \in Nat
    BY <1>2, <2>1, BodyFacts
  <2>3. Left(o, at[Loop], w) = Left(o, at[Loop] + 1, w) + IF w = x THEN Amount(o, w) ELSE 0
    <3>1. \A k \in DOMAIN Body(o) :
            Left(o, k, w) = Left(o, k + 1, w) + IF w = Body(o)[k] THEN Amount(o, w) ELSE 0
      BY <1>2, LeftStep
    <3>. HIDE DEF o, x
    <3>2. QED
      BY <2>1, <2>2, <3>1
  <2>4. Owed(w)' + Left(o, at[Loop], w) = Owed(w) + Left(o, at[Loop] + 1, w)
    BY <1>1, <1>2, <1>7, <2>2, OwedMoves
  <2>. DEFINE a == Left(o, at[Loop], w)
              b == Left(o, at[Loop] + 1, w)
              d == IF w = x THEN Amount(o, w) ELSE 0
  <2>5. a \in Nat /\ b \in Nat /\ d \in Nat /\ a = b + d /\ Owed(w)' + a = Owed(w) + b
    BY <1>5, <1>6, <2>2, <2>3, <2>4
  <2>6. word'[w] = word[w] + d /\ word[w] \in Nat
    BY <1>3, <1>4
  <2>. HIDE DEF a, b, d, o, x, n
  <2>7. Owed(w)' \in Nat
    BY <1>1, <1>2, OwedMoves
  <2>8. word'[w] + Owed(w)' = word[w] + Owed(w)
    BY <1>5, <2>5, <2>6, <2>7
  <2>9. QED
    BY <2>8, DueIs
<1>8. CASE ~ Locks(o)
  <2>1. at[Loop] = 0 /\ x = Value(o.x)
    BY <1>1, <1>8, AtWordFacts
  <2>2. x = Body(o)[1] /\ 1 \in DOMAIN Body(o) /\ Len(Body(o)) = 1
    BY <1>2, <1>8, <2>1, BodyFacts
  <2>3. Left(o, 1, w) = Left(o, 2, w) + IF w = x THEN Amount(o, w) ELSE 0
    <3>1. Left(o, 1, w) = Left(o, 1 + 1, w) + IF w = Body(o)[1] THEN Amount(o, w) ELSE 0
      BY <1>2, <2>2, LeftStep
    <3>2. QED
      BY <2>2, <3>1
  <2>4. Left(o, 0, w) = Left(o, 1, w) /\ Left(o, 2, w) = 0
    <3>1. /\ Left(o, 0, w) = Left(o, 1, w)
          /\ \A k \in Nat : k > Len(Body(o)) => Left(o, k, w) = 0
      BY <1>2, LeftStep
    <3>. HIDE DEF o
    <3>2. QED
      BY <2>2, <3>1
  <2>5. Owed(w)' + Left(o, 0, w) = Owed(w) + 0 /\ Owed(w)' \in Nat
    BY <1>1, <1>2, <1>8, <2>1, OwedMoves
  <2>6. Left(o, 0, w) = IF w = x THEN Amount(o, w) ELSE 0
    BY <1>5, <2>3, <2>4
  <2>7. word[w] \in Nat
    BY <1>3
  <2>. HIDE DEF o, x, n
  <2>8. word'[w] + Owed(w)' = word[w] + Owed(w)
    BY <1>4, <1>5, <2>5, <2>6, <2>7
  <2>9. QED
    BY <2>8, DueIs
<1>9. QED
  BY <1>7, <1>8

\* The accesses that do not write leave what is owed alone.
LEMMA OwedOther ==
  ASSUME PlacesInv, NEW t \in Threads,
         DoLock(t) \/ DoUnlock(t) \/ (t # Loop /\ (DoRead(t) \/ DoAdd(t))), NEW w
  PROVE  Owed(w)' = Owed(w)
<1>1. ~ Idle(t) /\ Goes(t)
  BY DEF DoLock, DoUnlock, DoRead, DoAdd, AtWord
<1>2. CASE t # Loop
  <2>1. script'[Loop] = script[Loop] /\ line'[Loop] = line[Loop] /\ at'[Loop] = at[Loop]
    BY <1>1, <1>2, GoesFacts, ThreadKinds
  <2>2. QED
    BY <2>1, OwedFrame
<1>3. CASE t = Loop /\ DoLock(t)
  <2>. DEFINE o == Now(Loop)
  <2>1. Locks(o) /\ at[Loop] = 0 /\ o \in Operations
    BY <1>1, <1>3, NowFacts DEF DoLock, PlacesInv
  <2>2. at[Loop] <= Len(Body(o))
    BY <2>1, BodyFacts
  <2>3. Owed(w)' + Left(o, 0, w) = Owed(w) + Left(o, 0 + 1, w) /\ Owed(w)' \in Nat
    BY <1>1, <1>3, <2>1, <2>2, OwedMoves
  <2>4. Left(o, 0, w) = Left(o, 1, w) /\ Left(o, 0, w) \in Nat /\ Left(o, 0 + 1, w) \in Nat
    BY <2>1, LeftStep, LeftNat
  <2>5. Owed(w) \in Nat
    BY OwedNat
  <2>. HIDE DEF o
  <2>6. QED
    BY <2>3, <2>4, <2>5
<1>4. CASE t = Loop /\ DoUnlock(t)
  <2>. DEFINE o == Now(Loop)
  <2>1. Locks(o) /\ at[Loop] = Len(Body(o)) + 1 /\ o \in Operations
    BY <1>1, <1>4, NowFacts DEF DoUnlock, PlacesInv
  <2>2. ~ at[Loop] <= Len(Body(o)) /\ at[Loop] \in Nat /\ at[Loop] > Len(Body(o))
    BY <2>1, BodyFacts
  <2>3. Owed(w)' + Left(o, at[Loop], w) = Owed(w) + 0 /\ Owed(w)' \in Nat
    BY <1>1, <1>4, <2>1, <2>2, OwedMoves
  <2>4. Left(o, at[Loop], w) = 0
    BY <2>1, <2>2, LeftStep
  <2>5. Owed(w) \in Nat
    BY OwedNat
  <2>. HIDE DEF o
  <2>6. QED
    BY <2>3, <2>4, <2>5
<1>5. QED
  BY <1>2, <1>3, <1>4

\* What a script of run adds to w in all.
Share(u, i, w) == IF i \in 1 .. Len(u) THEN Left(u[i], 0, w) ELSE 0
Comes(u, w) == Share(u, 1, w) + Share(u, 2, w) + Share(u, 3, w) + Share(u, 4, w)

LEMMA ComesNat == \A u \in LoopScripts : \A w : Comes(u, w) \in Nat /\ \A i : Share(u, i, w) \in Nat
<1>. SUFFICES ASSUME NEW u \in LoopScripts, NEW w
              PROVE  Comes(u, w) \in Nat /\ \A i : Share(u, i, w) \in Nat
  OBVIOUS
<1>1. u \in Seq(Operations)
  BY WriterForms
<1>2. ASSUME NEW i \in 1 .. Len(u) PROVE Left(u[i], 0, w) \in Nat
  BY <1>1, <1>2, ElementOfSeq, LeftNat
<1>3. \A i : Share(u, i, w) \in Nat
  BY <1>2 DEF Share
<1>4. QED
  BY <1>3 DEF Comes

LEMMA DueBegins ==
  ASSUME PlacesInv, NEW what \in LoopScripts, Begins(Loop, what), NEW w \in Words
  PROVE  /\ Owed(w) = 0 /\ Due[w] = word[w]
         /\ Owed(w)' = Comes(what, w) /\ Due'[w] = word[w] + Comes(what, w)
<1>1. Loop \in Threads /\ what \in Seq(Operations) /\ Len(what) \in 0 .. 4
  BY ThreadKinds, WriterForms
<1>2. /\ script'[Loop] = what /\ line'[Loop] = 1 /\ at'[Loop] = 0 /\ word' = word
  BY <1>1, BeginsKeepsPlaces
<1>3. Idle(Loop) /\ line[Loop] \in Nat
  BY <1>1 DEF Begins, PlacesInv, MTypeOK
<1>4. script[Loop] \in LoopScripts
  BY DEF PlacesInv, ScriptsRight
<1>5. Len(script[Loop]) \in 0 .. 4
  BY <1>4, WriterForms
<1>6. \A i \in 1 .. 4 : LeftAt(i, w) = 0
  BY <1>3, <1>5 DEF Idle, LeftAt
<1>7. Owed(w) = 0
  BY <1>6 DEF Owed
<1>8. ASSUME NEW i \in 1 .. 4 PROVE LeftAt(i, w)' = Share(what, i, w)
  <2>1. LeftAt(i, w)' = IF i \in 1 .. Len(what) THEN Left(what[i], IF i = 1 THEN 0 ELSE 0, w) ELSE 0
    BY <1>2 DEF LeftAt
  <2>2. QED
    BY <2>1 DEF Share
<1>9. Owed(w)' = Comes(what, w)
  BY <1>8 DEF Owed, Comes
<1>10. word[w] \in Nat
  BY DEF PlacesInv, MTypeOK
<1>11. QED
  BY <1>2, <1>7, <1>9, <1>10, DueIs

\* The words of the books.
LEMMA BookWords ==
  /\ Value("total") \in Words /\ Value("done") \in Words /\ Value("tokens") \in Words
  /\ Value("prefill") \in Words /\ Value("steps") \in Words
  /\ Total("ttft") \in Words /\ Total("itl") \in Words /\ Total("batch") \in Words /\ Sum("batch") \in Words
BY WordsKnown DEF Counters, Histograms

\* What the books get from each script.
LEMMA ComesOfFail ==
  ASSUME NEW w
  PROVE  Comes(<<Count("done", 1)>>, w) = IF w = Value("done") THEN 1 ELSE 0
<1>. DEFINE u == <<Count("done", 1)>>
<1>1. Len(u) = 1 /\ u[1] = Count("done", 1)
  OBVIOUS
<1>2. Left(Count("done", 1), 0, w) = IF w = Value("done") THEN 1 ELSE 0
  BY LeftOfCount DEF Counters
<1>. HIDE DEF u
<1>3. /\ Share(u, 1, w) = IF w = Value("done") THEN 1 ELSE 0
      /\ Share(u, 2, w) = 0 /\ Share(u, 3, w) = 0 /\ Share(u, 4, w) = 0
  BY <1>1, <1>2 DEF Share
<1>4. Comes(u, w) = IF w = Value("done") THEN 1 ELSE 0
  BY <1>3 DEF Comes
<1>5. QED
  BY <1>4 DEF u

LEMMA ComesOfStep ==
  ASSUME NEW n \in Nat \ {0}, NEW w
  PROVE  Comes(StepWritten(n), w)
           = IF w = Value("steps") \/ w = Total("batch") \/ w = Bucket("batch", BucketOf(n)) THEN 1
             ELSE IF w = Sum("batch") THEN n ELSE 0
<1>. DEFINE u == StepWritten(n)
<1>1. Len(u) = 2 /\ u[1] = Count("steps", 1) /\ u[2] = Observe("batch", n)
  BY ScriptForms
<1>2. Left(Count("steps", 1), 0, w) = IF w = Value("steps") THEN 1 ELSE 0
  BY LeftOfCount DEF Counters
<1>3. Left(Observe("batch", n), 0, w) =
        IF w = Bucket("batch", BucketOf(n)) \/ w = Total("batch") THEN 1
        ELSE IF w = Sum("batch") THEN n ELSE 0
  BY LeftOfObserve DEF Histograms
<1>. HIDE DEF u
<1>4. /\ Share(u, 1, w) = IF w = Value("steps") THEN 1 ELSE 0
      /\ Share(u, 2, w) = IF w = Bucket("batch", BucketOf(n)) \/ w = Total("batch") THEN 1
                          ELSE IF w = Sum("batch") THEN n ELSE 0
      /\ Share(u, 3, w) = 0 /\ Share(u, 4, w) = 0
  BY <1>1, <1>2, <1>3 DEF Share
<1>5. w = Value("steps") => ~ (w = Total("batch") \/ w = Bucket("batch", BucketOf(n)) \/ w = Sum("batch"))
  BY WordsApart
<1>6. Comes(u, w) = IF w = Value("steps") \/ w = Total("batch") \/ w = Bucket("batch", BucketOf(n)) THEN 1
                    ELSE IF w = Sum("batch") THEN n ELSE 0
  BY <1>4, <1>5 DEF Comes
<1>7. QED
  BY <1>6 DEF u

LEMMA ComesOfFirst ==
  ASSUME NEW last \in BOOLEAN, NEW w
  PROVE  Comes(TokenWritten(TRUE, last), w)
           = IF w = Value("tokens") \/ w \in {Bucket("ttft", BucketOf(Time)), Sum("ttft"), Total("ttft")} THEN 1
             ELSE IF w = Value("prefill") THEN PromptLen
             ELSE IF w = Value("done") /\ last THEN 1 ELSE 0
<1>. DEFINE u == TokenWritten(TRUE, last)
            h == {Bucket("ttft", BucketOf(Time)), Sum("ttft"), Total("ttft")}
<1>1. /\ Len(u) = IF last THEN 4 ELSE 3
      /\ u[1] = Count("tokens", 1) /\ u[2] = Count("prefill", PromptLen) /\ u[3] = Observe("ttft", Time)
      /\ (last => u[4] = Count("done", 1))
  BY ScriptForms
<1>2. /\ Left(Count("tokens", 1), 0, w) = IF w = Value("tokens") THEN 1 ELSE 0
      /\ Left(Count("done", 1), 0, w) = IF w = Value("done") THEN 1 ELSE 0
      /\ Left(Count("prefill", PromptLen), 0, w) = IF w = Value("prefill") THEN PromptLen ELSE 0
  BY LeftOfCount, MetricsAssumption DEF Counters
<1>3. Left(Observe("ttft", Time), 0, w) = IF w \in h THEN 1 ELSE 0
  BY LeftOfObserve DEF Histograms, Time
<1>. HIDE DEF u, h
<1>4. /\ Share(u, 1, w) = IF w = Value("tokens") THEN 1 ELSE 0
      /\ Share(u, 2, w) = IF w = Value("prefill") THEN PromptLen ELSE 0
      /\ Share(u, 3, w) = IF w \in h THEN 1 ELSE 0
      /\ Share(u, 4, w) = IF w = Value("done") /\ last THEN 1 ELSE 0
  BY <1>1, <1>2, <1>3 DEF Share
<1>5. /\ w = Value("tokens") => ~ (w = Value("prefill") \/ w = Value("done") \/ w \in h)
      /\ w = Value("prefill") => ~ (w = Value("done") \/ w \in h)
      /\ w = Value("done") => w \notin h
  BY WordsApart DEF h
<1>6. PromptLen \in Nat
  BY MetricsAssumption
<1>7. Comes(u, w) = IF w = Value("tokens") \/ w \in h THEN 1
                    ELSE IF w = Value("prefill") THEN PromptLen
                    ELSE IF w = Value("done") /\ last THEN 1 ELSE 0
  BY <1>4, <1>5, <1>6 DEF Comes
<1>8. QED
  BY <1>7 DEF u, h

LEMMA ComesOfNext ==
  ASSUME NEW last \in BOOLEAN, NEW w
  PROVE  Comes(TokenWritten(FALSE, last), w)
           = IF w = Value("tokens") \/ w \in {Bucket("itl", BucketOf(Time)), Sum("itl"), Total("itl")} THEN 1
             ELSE IF w = Value("done") /\ last THEN 1 ELSE 0
<1>. DEFINE u == TokenWritten(FALSE, last)
            h == {Bucket("itl", BucketOf(Time)), Sum("itl"), Total("itl")}
<1>1. /\ Len(u) = IF last THEN 3 ELSE 2
      /\ u[1] = Count("tokens", 1) /\ u[2] = Observe("itl", Time)
      /\ (last => u[3] = Count("done", 1))
  BY ScriptForms
<1>2. /\ Left(Count("tokens", 1), 0, w) = IF w = Value("tokens") THEN 1 ELSE 0
      /\ Left(Count("done", 1), 0, w) = IF w = Value("done") THEN 1 ELSE 0
  BY LeftOfCount DEF Counters
<1>3. Left(Observe("itl", Time), 0, w) = IF w \in h THEN 1 ELSE 0
  BY LeftOfObserve DEF Histograms, Time
<1>. HIDE DEF u, h
<1>4. /\ Share(u, 1, w) = IF w = Value("tokens") THEN 1 ELSE 0
      /\ Share(u, 2, w) = IF w \in h THEN 1 ELSE 0
      /\ Share(u, 3, w) = IF w = Value("done") /\ last THEN 1 ELSE 0
      /\ Share(u, 4, w) = 0
  BY <1>1, <1>2, <1>3 DEF Share
<1>5. /\ w = Value("tokens") => ~ (w = Value("done") \/ w \in h)
      /\ w = Value("done") => w \notin h
  BY WordsApart DEF h
<1>6. Comes(u, w) = IF w = Value("tokens") \/ w \in h THEN 1
                    ELSE IF w = Value("done") /\ last THEN 1 ELSE 0
  BY <1>4, <1>5 DEF Comes
<1>7. QED
  BY <1>6 DEF u, h

\* No access changes what a word comes to, but for the count of Submit.
LEMMA DueAccess ==
  ASSUME PlacesInv, NEW t \in Threads,
         (t \in Scrapers /\ DoRead(t)) \/ DoAdd(t) \/ DoLock(t) \/ DoUnlock(t),
         NEW w \in Words, w # Value("total")
  PROVE  Due'[w] = Due[w]
<1>1. CASE t = Loop /\ DoAdd(t)
  BY <1>1, DueAdd
<1>2. CASE (t \in Scrapers /\ DoRead(t)) \/ DoLock(t) \/ DoUnlock(t)
  <2>1. word' = word
    BY <1>2 DEF DoRead, DoLock, DoUnlock
  <2>2. Owed(w)' = Owed(w)
    BY <1>2, OwedOther, ThreadKinds
  <2>3. QED
    BY <2>1, <2>2, DueIs
<1>3. CASE t # Loop /\ DoAdd(t)
  <2>1. AtWord(t) /\ Now(t).op \in {"count", "observe"}
    BY <1>3 DEF DoAdd
  <2>2. t \in Requests
    BY <1>3, <2>1, NowFacts DEF AtWord, PlacesInv, Threads
  <2>3. Now(t) = Count("total", 1)
    BY <2>1, <2>2, NowFacts DEF AtWord, PlacesInv
  <2>4. NextWord(t) = Value("total")
    <3>1. ~ Locks(Now(t)) /\ Now(t).x = "total"
      BY <2>3 DEF Count, Operation, Locks
    <3>2. QED
      BY <2>1, <3>1, AtWordFacts
  <2>5. word'[w] = word[w]
    BY <1>3, <2>4 DEF DoAdd, PlacesInv, MTypeOK
  <2>6. Owed(w)' = Owed(w)
    BY <1>3, OwedOther
  <2>7. QED
    BY <2>5, <2>6, DueIs
<1>4. QED
  BY <1>1, <1>2, <1>3

LEMMA DueOthersBegin ==
  ASSUME PlacesInv, NEW t \in Threads, t # Loop, NEW what \in Seq(Operations), Begins(t, what), NEW w \in Words
  PROVE  Due'[w] = Due[w]
<1>1. script'[Loop] = script[Loop] /\ line'[Loop] = line[Loop] /\ at' = at /\ word' = word
  BY BeginsKeepsPlaces, ThreadKinds
<1>2. Owed(w)' = Owed(w)
  BY <1>1, OwedFrame
<1>3. QED
  BY <1>1, <1>2, DueIs

-----------------------------------------------------------------------------
(* The books. *)

\* One more, and one less.
LEMMA OneMore ==
  ASSUME NEW S, NEW x, IsFiniteSet(S), x \notin S
  PROVE  /\ IsFiniteSet(S \cup {x}) /\ Cardinality(S) \in Nat
         /\ Cardinality(S \cup {x}) = Cardinality(S) + 1
BY FS_AddElement, FS_CardinalityType

LEMMA OneLess ==
  ASSUME NEW S, NEW x \in S, IsFiniteSet(S)
  PROVE  /\ IsFiniteSet(S \ {x}) /\ Cardinality(S) \in Nat /\ Cardinality(S \ {x}) \in Nat
         /\ Cardinality(S) = Cardinality(S \ {x}) + 1
<1>1. IsFiniteSet(S \ {x}) /\ Cardinality(S \ {x}) = Cardinality(S) - 1
  BY FS_RemoveElement
<1>2. Cardinality(S) \in Nat /\ Cardinality(S \ {x}) \in Nat
  BY <1>1, FS_CardinalityType
<1>3. QED
  BY <1>1, <1>2

LEMMA DueNat == ASSUME PlacesInv, NEW w \in Words PROVE Due[w] \in Nat
<1>1. word[w] \in Nat
  BY DEF PlacesInv, MTypeOK
<1>2. QED
  BY <1>1, DueIs, OwedNat

\* Nothing happens to the books when nothing begins, but that Submit counts.
LEMMA BooksKept ==
  ASSUME PlacesInv, BooksRight, stage' = stage, given' = given, rest' = rest,
         \A w \in Words \ {Value("total")} : Due'[w] = Due[w],
         word'[Value("total")] + Cardinality(Uncounted') = word[Value("total")] + Cardinality(Uncounted)
  PROVE  BooksRight'
<1>1. /\ Due'[Value("done")] = Due[Value("done")] /\ Due'[Value("tokens")] = Due[Value("tokens")]
      /\ Due'[Value("prefill")] = Due[Value("prefill")] /\ Due'[Value("steps")] = Due[Value("steps")]
      /\ Due'[Total("ttft")] = Due[Total("ttft")] /\ Due'[Total("itl")] = Due[Total("itl")]
      /\ Due'[Total("batch")] = Due[Total("batch")] /\ Due'[Sum("batch")] = Due[Sum("batch")]
  BY BookWords, WordsApart
<1>2. In("new")' = In("new") /\ In("over")' = In("over") /\ Sent' = Sent /\ WithToken' = WithToken
  BY DEF In, Sent, WithToken
<1>3. QED
  BY <1>1, <1>2 DEF BooksRight

LEMMA BooksAccess ==
  ASSUME PlacesInv, BooksInv, NEW t \in Threads,
         (t \in Scrapers /\ DoRead(t)) \/ DoAdd(t) \/ DoLock(t) \/ DoUnlock(t)
  PROVE  BooksRight'
<1>1. ~ Idle(t) /\ Goes(t)
  BY DEF DoLock, DoUnlock, DoRead, DoAdd, AtWord
<1>2. stage' = stage /\ given' = given /\ rest' = rest /\ script' = script
  BY <1>1, GoesFacts
<1>3. \A w \in Words \ {Value("total")} : Due'[w] = Due[w]
  BY DueAccess
<1>4. word[Value("total")] \in Nat
  BY BookWords DEF PlacesInv, MTypeOK
<1>5. Uncounted \in SUBSET Requests
  BY DEF Uncounted
<1>6. word'[Value("total")] + Cardinality(Uncounted') = word[Value("total")] + Cardinality(Uncounted)
  <2>1. CASE t \notin Requests
    <3>1. Uncounted' = Uncounted
      <4>1. \A r \in Requests : line'[r] = line[r] /\ script'[r] = script[r]
        BY <1>1, <2>1, GoesFacts, ThreadKinds
      <4>2. QED
        BY <1>2, <4>1 DEF Uncounted, Idle
    <3>2. word'[Value("total")] = word[Value("total")]
      <4>1. CASE DoAdd(t)
        <5>1. AtWord(t) /\ word' = [word EXCEPT ![NextWord(t)] = @ + Amount(Now(t), NextWord(t))]
          BY <4>1 DEF DoAdd
        <5>2. t = Loop
          BY <2>1, <4>1, <5>1, NowFacts DEF DoAdd, AtWord, PlacesInv, Threads
        <5>3. NextWord(t) # Value("total")
          <6>1. Now(t).x # "total" /\ ~ Idle(t) /\ Now(t) \in Operations
            BY <5>1, <5>2, NowFacts DEF AtWord, PlacesInv
          <6>2. CASE Locks(Now(t))
            BY <5>1, <6>2, AtWordFacts, WordsKnown DEF Counters
          <6>3. CASE ~ Locks(Now(t))
            BY <5>1, <6>1, <6>3, AtWordFacts, WordsApart
          <6>4. QED
            BY <6>2, <6>3
        <5>4. QED
          BY <5>1, <5>3, BookWords DEF PlacesInv, MTypeOK
      <4>2. CASE ~ DoAdd(t)
        BY <4>2 DEF DoRead, DoLock, DoUnlock
      <4>3. QED
        BY <4>1, <4>2
    <3>3. QED
      BY <3>1, <3>2
  <2>2. CASE t \in Requests
    <3>1. Now(t) = Count("total", 1) /\ line[t] = 1 /\ Len(script[t]) = 1
      BY <1>1, <2>2, NowFacts DEF PlacesInv
    <3>2. Now(t).op = "count" /\ Now(t).x = "total" /\ ~ Locks(Now(t)) /\ Now(t).n = 1
      BY <3>1 DEF Count, Operation, Locks
    <3>3. DoAdd(t)
      BY <2>2, <3>2, ThreadKinds DEF DoLock, DoUnlock
    <3>4. NextWord(t) = Value("total")
      BY <3>2, <3>3, AtWordFacts DEF DoAdd
    <3>5. Amount(Now(t), NextWord(t)) = 1
      BY <3>2, <3>4, WordsApart DEF Amount
    <3>6. word'[Value("total")] = word[Value("total")] + 1
      BY <3>3, <3>4, <3>5, BookWords DEF DoAdd, PlacesInv, MTypeOK
    <3>7. line'[t] = 2 /\ \A r \in Requests \ {t} : line'[r] = line[r]
      BY <1>1, <3>1, <3>2, GoesFacts, ThreadKinds
    <3>8. Idle(t)' /\ \A r \in Requests \ {t} : Idle(r)' <=> Idle(r)
      BY <1>2, <3>1, <3>7 DEF Idle
    <3>9. Uncounted' = Uncounted \ {t}
      BY <1>2, <3>8 DEF Uncounted
    <3>10. t \in Uncounted
      <4>1. stage[t] # "new"
        <5>1. script[t] = IF stage[t] = "new" THEN <<>> ELSE <<Count("total", 1)>>
          BY <2>2 DEF PlacesInv, ScriptsRight
        <5>2. QED
          BY <3>1, <5>1
      <4>2. QED
        BY <1>1, <2>2, <4>1 DEF Uncounted
    <3>11. /\ Cardinality(Uncounted) = Cardinality(Uncounted \ {t}) + 1
           /\ Cardinality(Uncounted) \in Nat /\ Cardinality(Uncounted \ {t}) \in Nat
      BY <1>5, <3>10, SomeRequests, OneLess
    <3>12. QED
      BY <1>4, <3>6, <3>9, <3>11
  <2>3. QED
    BY <2>1, <2>2
<1>7. QED
  BY <1>2, <1>3, <1>6, BooksKept DEF BooksInv

LEMMA BooksScrape ==
  ASSUME PlacesInv, BooksInv, NEW s \in Scrapers, Scrape(s)
  PROVE  BooksRight'
<1>1. PICK k \in {"prom", "json"} : Begins(s, IF k = "prom" THEN WriteProm ELSE Snapshot)
  BY DEF Scrape
<1>. DEFINE what == IF k = "prom" THEN WriteProm ELSE Snapshot
<1>2. what \in Seq(Operations) /\ Begins(s, what) /\ s \in Threads /\ s # Loop
  BY <1>1, ScriptForms, ThreadKinds
<1>. HIDE DEF what
<1>3. \A w \in Words \ {Value("total")} : Due'[w] = Due[w]
  BY <1>2, DueOthersBegin
<1>4. /\ \A r \in Requests : script'[r] = script[r] /\ line'[r] = line[r]
      /\ word' = word
  BY <1>2, BeginsKeepsPlaces, ThreadKinds
<1>5. stage' = stage /\ given' = given /\ rest' = rest
  BY DEF Scrape
<1>6. Uncounted' = Uncounted
  BY <1>4, <1>5 DEF Uncounted, Idle
<1>7. QED
  BY <1>3, <1>4, <1>5, <1>6, BooksKept DEF BooksInv

LEMMA BooksSubmit ==
  ASSUME PlacesInv, BooksInv, NEW r \in Requests, Submit(r)
  PROVE  BooksRight'
<1>. DEFINE what == <<Count("total", 1)>>
<1>1. what \in Seq(Operations) /\ r \in Threads /\ r # Loop /\ Len(what) = 1
  BY ScriptForms, ThreadKinds
<1>2. /\ stage[r] = "new" /\ Begins(r, what)
      /\ stage' = [stage EXCEPT ![r] = "taken"] /\ given' = given /\ rest' = rest
  BY DEF Submit
<1>. HIDE DEF what
<1>3. \A w \in Words : Due'[w] = Due[w]
  BY <1>1, <1>2, DueOthersBegin
<1>4. /\ \A q \in Requests \ {r} : script'[q] = script[q] /\ line'[q] = line[q]
      /\ script'[r] = what /\ line'[r] = 1 /\ word' = word
  BY <1>1, <1>2, BeginsKeepsPlaces, ThreadKinds
<1>5. stage'[r] = "taken" /\ \A q \in Requests \ {r} : stage'[q] = stage[q]
  BY <1>2 DEF PlacesInv, MTypeOK
<1>6. Uncounted' = Uncounted \cup {r} /\ r \notin Uncounted
  BY <1>1, <1>2, <1>4, <1>5 DEF Uncounted, Idle
<1>7. (Requests \ In("new"))' = (Requests \ In("new")) \cup {r} /\ r \notin Requests \ In("new")
  BY <1>2, <1>5 DEF In
<1>8. In("over")' = In("over")
  BY <1>2, <1>5 DEF In
<1>9. Sent' = Sent /\ WithToken' = WithToken
  BY <1>2 DEF Sent, WithToken
<1>10. IsFiniteSet(Uncounted) /\ IsFiniteSet(Requests \ In("new"))
  BY SomeRequests DEF Uncounted, In
<1>11. /\ Cardinality(Uncounted') = Cardinality(Uncounted) + 1
       /\ Cardinality((Requests \ In("new"))') = Cardinality(Requests \ In("new")) + 1
       /\ Cardinality(Uncounted) \in Nat
  BY <1>6, <1>7, <1>10, OneMore
<1>12. word[Value("total")] \in Nat
  BY BookWords DEF PlacesInv, MTypeOK
<1>13. word'[Value("total")] + Cardinality(Uncounted') = Cardinality((Requests \ In("new"))')
  BY <1>4, <1>11, <1>12 DEF BooksInv, BooksRight
<1>14. QED
  BY <1>2, <1>3, <1>8, <1>9, <1>13, BookWords DEF BooksInv, BooksRight

\* What run begins counts no request in.
LEMMA BooksLoop ==
  ASSUME PlacesInv, BooksRight, NEW what \in LoopScripts, Begins(Loop, what),
         \A r \in Requests : stage'[r] = "new" <=> stage[r] = "new"
  PROVE  /\ word'[Value("total")] + Cardinality(Uncounted') = Cardinality((Requests \ In("new"))')
         /\ \A w \in Words : Due'[w] = Due[w] + Comes(what, w) /\ Due[w] \in Nat
<1>1. what \in Seq(Operations) /\ Loop \in Threads
  BY WriterForms, ThreadKinds
<1>2. word' = word /\ \A r \in Requests : script'[r] = script[r] /\ line'[r] = line[r]
  BY <1>1, BeginsKeepsPlaces, ThreadKinds
<1>3. Uncounted' = Uncounted /\ (Requests \ In("new"))' = Requests \ In("new")
  BY <1>2 DEF Uncounted, Idle, In
<1>4. \A w \in Words : Due'[w] = Due[w] + Comes(what, w) /\ Due[w] \in Nat
  BY DueBegins, DueNat
<1>5. QED
  BY <1>2, <1>3, <1>4 DEF BooksRight

LEMMA BooksStep ==
  ASSUME PlacesInv, BooksInv, Step
  PROVE  BooksRight'
<1>. DEFINE n == Cardinality(rest')
            what == StepWritten(n)
<1>1. /\ rest = {} /\ n \in Nat \ {0} /\ Begins(Loop, what)
      /\ stage' = stage /\ given' = given
  BY StepFacts
<1>2. what \in LoopScripts
  BY <1>1, BegunScripts
<1>3. \A w : Comes(what, w) = IF w = Value("steps") \/ w = Total("batch") \/ w = Bucket("batch", BucketOf(n)) THEN 1
                              ELSE IF w = Sum("batch") THEN n ELSE 0
  BY <1>1, ComesOfStep
<1>. HIDE DEF what
<1>4. /\ word'[Value("total")] + Cardinality(Uncounted') = Cardinality((Requests \ In("new"))')
      /\ \A w \in Words : Due'[w] = Due[w] + Comes(what, w) /\ Due[w] \in Nat
  BY <1>1, <1>2, BooksLoop DEF BooksInv
<1>5. /\ Comes(what, Value("done")) = 0 /\ Comes(what, Value("tokens")) = 0 /\ Comes(what, Value("prefill")) = 0
      /\ Comes(what, Value("steps")) = 1 /\ Comes(what, Total("batch")) = 1 /\ Comes(what, Sum("batch")) = n
      /\ Comes(what, Total("ttft")) = 0 /\ Comes(what, Total("itl")) = 0
  BY <1>3, WordsApart
<1>6. In("over")' = In("over") /\ Sent' = Sent /\ WithToken' = WithToken
  BY <1>1 DEF In, Sent, WithToken
<1>7. /\ Due'[Value("done")] = Due[Value("done")] /\ Due'[Value("tokens")] = Due[Value("tokens")]
      /\ Due'[Value("prefill")] = Due[Value("prefill")] /\ Due'[Value("steps")] = Due[Value("steps")] + 1
      /\ Due'[Total("ttft")] = Due[Total("ttft")] /\ Due'[Total("itl")] = Due[Total("itl")]
      /\ Due'[Total("batch")] = Due[Total("batch")] + 1 /\ Due'[Sum("batch")] = Due[Sum("batch")] + n
  BY <1>4, <1>5, BookWords
<1>8. Cardinality(rest) = 0
  BY <1>1, FS_EmptySet
<1>9. Due[Value("tokens")] \in Nat
  BY DueNat, BookWords
<1>10. Due'[Value("tokens")] + n = Due'[Sum("batch")]
  BY <1>1, <1>7, <1>8, <1>9 DEF BooksInv, BooksRight
<1>11. QED
  BY <1>4, <1>6, <1>7, <1>10 DEF BooksInv, BooksRight

LEMMA BooksFail ==
  ASSUME PlacesInv, BooksInv, NEW r \in Requests, FailRequest(r)
  PROVE  BooksRight'
<1>. DEFINE what == <<Count("done", 1)>>
<1>1. /\ rest' = rest /\ given' = given /\ Begins(Loop, what)
      /\ stage[r] \in {"taken", "live"} /\ stage'[r] = "over"
      /\ \A q \in Requests \ {r} : stage'[q] = stage[q]
  BY FailFacts
<1>2. what \in LoopScripts
  BY BegunScripts
<1>3. \A w : Comes(what, w) = IF w = Value("done") THEN 1 ELSE 0
  BY ComesOfFail
<1>. HIDE DEF what
<1>4. \A q \in Requests : stage'[q] = "new" <=> stage[q] = "new"
  BY <1>1
<1>5. /\ word'[Value("total")] + Cardinality(Uncounted') = Cardinality((Requests \ In("new"))')
      /\ \A w \in Words : Due'[w] = Due[w] + Comes(what, w) /\ Due[w] \in Nat
  BY <1>1, <1>2, <1>4, BooksLoop DEF BooksInv
<1>6. Due'[Value("done")] = Due[Value("done")] + 1 /\ \A w \in Words \ {Value("done")} : Due'[w] = Due[w]
  BY <1>3, <1>5, BookWords
<1>7. /\ Due'[Value("tokens")] = Due[Value("tokens")]
      /\ Due'[Value("prefill")] = Due[Value("prefill")] /\ Due'[Value("steps")] = Due[Value("steps")]
      /\ Due'[Total("ttft")] = Due[Total("ttft")] /\ Due'[Total("itl")] = Due[Total("itl")]
      /\ Due'[Total("batch")] = Due[Total("batch")] /\ Due'[Sum("batch")] = Due[Sum("batch")]
  BY <1>6, BookWords, WordsApart
<1>8. In("over")' = In("over") \cup {r} /\ r \notin In("over")
  BY <1>1 DEF In
<1>9. IsFiniteSet(In("over"))
  BY SomeRequests DEF In
<1>10. Cardinality(In("over")') = Cardinality(In("over")) + 1
  BY <1>8, <1>9, OneMore
<1>11. Sent' = Sent /\ WithToken' = WithToken
  BY <1>1 DEF Sent, WithToken
<1>12. QED
  BY <1>1, <1>5, <1>6, <1>7, <1>10, <1>11 DEF BooksInv, BooksRight

\* A token more is sent.
LEMMA SentMore ==
  ASSUME given \in [Requests -> Nat], NEW r \in Requests, given'[r] = given[r] + 1,
         \A q \in Requests \ {r} : given'[q] = given[q], IsFiniteSet(Sent)
  PROVE  IsFiniteSet(Sent') /\ Cardinality(Sent') = Cardinality(Sent) + 1
<1>. DEFINE x == <<r, given[r] + 1>>
<1>1. Sent' = Sent \cup {x}
  <2>1. 1 .. given[r] + 1 = (1 .. given[r]) \cup {given[r] + 1}
    OBVIOUS
  <2>2. {r} \X (1 .. given[r] + 1) = ({r} \X (1 .. given[r])) \cup {x}
    BY <2>1
  <2>3. QED
    BY <2>2 DEF Sent
<1>2. x \notin Sent
  BY DEF Sent
<1>3. QED
  BY <1>1, <1>2, OneMore

LEMMA BooksToken ==
  ASSUME PlacesInv, BooksInv, NEW r \in Requests, NextToken(r)
  PROVE  BooksRight'
<1>1. /\ r \in rest /\ rest' = rest \ {r}
      /\ given' \in [Requests -> Nat] /\ given'[r] = given[r] + 1
      /\ \A q \in Requests \ {r} : given'[q] = given[q] /\ stage'[q] = stage[q]
  BY NextTokenFacts
<1>2. PICK last \in BOOLEAN : /\ Begins(Loop, TokenWritten(stage[r] = "taken", last))
                              /\ stage'[r] = IF last THEN "over" ELSE "live"
  BY NextTokenFacts
<1>3. PICK first \in BOOLEAN : first = (stage[r] = "taken")
  OBVIOUS
<1>. DEFINE what == TokenWritten(first, last)
<1>4. what \in LoopScripts /\ Begins(Loop, what)
  BY <1>2, <1>3, BegunScripts
<1>5. stage[r] \in {"taken", "live"} /\ given \in [Requests -> Nat] /\ rest \in SUBSET Requests
  BY <1>1 DEF BooksInv, StagesRight, In, PlacesInv, MTypeOK
<1>6. \A q \in Requests : stage'[q] = "new" <=> stage[q] = "new"
  BY <1>1, <1>2, <1>5
<1>7. /\ first => \A w : Comes(what, w) =
             IF w = Value("tokens") \/ w \in {Bucket("ttft", BucketOf(Time)), Sum("ttft"), Total("ttft")} THEN 1
             ELSE IF w = Value("prefill") THEN PromptLen
             ELSE IF w = Value("done") /\ last THEN 1 ELSE 0
      /\ ~ first => \A w : Comes(what, w) =
             IF w = Value("tokens") \/ w \in {Bucket("itl", BucketOf(Time)), Sum("itl"), Total("itl")} THEN 1
             ELSE IF w = Value("done") /\ last THEN 1 ELSE 0
  <2>1. CASE first = TRUE
    BY <2>1, ComesOfFirst
  <2>2. CASE first = FALSE
    BY <2>2, ComesOfNext
  <2>3. QED
    BY <2>1, <2>2
<1>. HIDE DEF what
<1>8. /\ word'[Value("total")] + Cardinality(Uncounted') = Cardinality((Requests \ In("new"))')
      /\ \A w \in Words : Due'[w] = Due[w] + Comes(what, w) /\ Due[w] \in Nat
  BY <1>4, <1>6, BooksLoop DEF BooksInv
<1>9. /\ Comes(what, Value("tokens")) = 1 /\ Comes(what, Value("steps")) = 0
      /\ Comes(what, Total("batch")) = 0 /\ Comes(what, Sum("batch")) = 0
      /\ Comes(what, Value("done")) = IF last THEN 1 ELSE 0
      /\ Comes(what, Value("prefill")) = IF first THEN PromptLen ELSE 0
      /\ Comes(what, Total("ttft")) = IF first THEN 1 ELSE 0
      /\ Comes(what, Total("itl")) = IF first THEN 0 ELSE 1
  <2>1. CASE first
    BY <1>7, <2>1, WordsApart
  <2>2. CASE ~ first
    BY <1>7, <2>2, WordsApart
  <2>3. QED
    BY <2>1, <2>2
<1>10. IsFiniteSet(Sent') /\ Cardinality(Sent') = Cardinality(Sent) + 1
  BY <1>1, <1>5, SentMore DEF BooksInv, BooksRight
<1>11. Cardinality(In("over")') = Cardinality(In("over")) + IF last THEN 1 ELSE 0
  <2>1. IsFiniteSet(In("over")) /\ Cardinality(In("over")) \in Nat
    BY SomeRequests DEF In
  <2>2. CASE last
    <3>1. In("over")' = In("over") \cup {r} /\ r \notin In("over")
      BY <1>1, <1>2, <1>5, <2>2 DEF In
    <3>2. QED
      BY <2>1, <2>2, <3>1, OneMore
  <2>3. CASE ~ last
    <3>1. In("over")' = In("over")
      BY <1>1, <1>2, <1>5, <2>3 DEF In
    <3>2. QED
      BY <2>1, <2>3, <3>1
  <2>4. QED
    BY <2>2, <2>3
<1>12. Cardinality(WithToken') = Cardinality(WithToken) + IF first THEN 1 ELSE 0
  <2>1. IsFiniteSet(WithToken) /\ Cardinality(WithToken) \in Nat
    BY SomeRequests DEF WithToken
  <2>2. CASE first
    <3>1. given[r] = 0
      BY <1>3, <2>2 DEF BooksInv, StagesRight
    <3>2. WithToken' = WithToken \cup {r} /\ r \notin WithToken
      BY <1>1, <3>1 DEF WithToken
    <3>3. QED
      BY <2>1, <2>2, <3>2, OneMore
  <2>3. CASE ~ first
    <3>1. given[r] > 0
      BY <1>3, <1>5, <2>3 DEF BooksInv, StagesRight
    <3>2. WithToken' = WithToken
      BY <1>1, <1>5, <3>1 DEF WithToken
    <3>3. QED
      BY <2>1, <2>3, <3>2
  <2>4. QED
    BY <2>2, <2>3
<1>13. Cardinality(rest) = Cardinality(rest') + 1 /\ Cardinality(rest') \in Nat
  BY <1>1, <1>5, SomeRequests, OneLess
<1>14. /\ Due'[Value("tokens")] = Due[Value("tokens")] + 1
       /\ Due'[Value("steps")] = Due[Value("steps")] /\ Due'[Total("batch")] = Due[Total("batch")]
       /\ Due'[Sum("batch")] = Due[Sum("batch")]
       /\ Due'[Value("done")] = Due[Value("done")] + IF last THEN 1 ELSE 0
       /\ Due'[Value("prefill")] = Due[Value("prefill")] + IF first THEN PromptLen ELSE 0
       /\ Due'[Total("ttft")] = Due[Total("ttft")] + IF first THEN 1 ELSE 0
       /\ Due'[Total("itl")] = Due[Total("itl")] + IF first THEN 0 ELSE 1
  BY <1>8, <1>9, BookWords
<1>15. /\ Due[Value("tokens")] \in Nat /\ Due[Total("ttft")] \in Nat /\ Due[Total("itl")] \in Nat
       /\ Due[Value("prefill")] \in Nat /\ Due[Sum("batch")] \in Nat
  BY DueNat, BookWords
<1>16. Due'[Value("prefill")] = PromptLen * Due'[Total("ttft")]
  <2>1. Due[Value("prefill")] = PromptLen * Due[Total("ttft")]
    BY DEF BooksInv, BooksRight
  <2>2. PromptLen * (Due[Total("ttft")] + 1) = PromptLen * Due[Total("ttft")] + PromptLen
    BY <1>15, MetricsAssumption
  <2>3. CASE first
    BY <1>14, <2>1, <2>2, <2>3
  <2>4. CASE ~ first
    BY <1>14, <1>15, <2>1, <2>4
  <2>5. QED
    BY <2>3, <2>4
<1>17. Due'[Total("ttft")] + Due'[Total("itl")] = Due'[Value("tokens")]
  BY <1>14, <1>15 DEF BooksInv, BooksRight
<1>18. Due'[Value("tokens")] + Cardinality(rest') = Due'[Sum("batch")]
  BY <1>13, <1>14, <1>15 DEF BooksInv, BooksRight
<1>19. /\ Due'[Value("done")] = Cardinality(In("over")') /\ Due'[Value("tokens")] = Cardinality(Sent')
       /\ Due'[Total("ttft")] = Cardinality(WithToken') /\ Due'[Value("steps")] = Due'[Total("batch")]
  BY <1>10, <1>11, <1>12, <1>14 DEF BooksInv, BooksRight
<1>20. QED
  BY <1>8, <1>10, <1>16, <1>17, <1>18, <1>19 DEF BooksRight
\* The scripts of a step are told apart, and from the others.
LEMMA StepScripts ==
  /\ \A m, n \in Nat : StepWritten(m) = StepWritten(n) => m = n
  /\ \A first, last \in BOOLEAN, n \in Nat : TokenWritten(first, last) # StepWritten(n)
  /\ \A n \in Nat : <<Count("done", 1)>> # StepWritten(n)
<1>1. \A n : StepWritten(n)[1] = Count("steps", 1) /\ StepWritten(n)[2] = Observe("batch", n)
  BY DEF StepWritten
<1>2. \A c, n : Count(c, n).x = c /\ Observe(c, n).n = n
  BY DEF Count, Observe, Operation
<1>3. \A m, n \in Nat : StepWritten(m) = StepWritten(n) => m = n
  <2>1. ASSUME NEW m \in Nat, NEW n \in Nat, StepWritten(m) = StepWritten(n) PROVE m = n
    <3>1. Observe("batch", m) = Observe("batch", n)
      BY <1>1, <2>1
    <3>2. QED
      BY <1>2, <3>1
  <2>2. QED
    BY <2>1
<1>4. ASSUME NEW first \in BOOLEAN, NEW last \in BOOLEAN, NEW n \in Nat
      PROVE  TokenWritten(first, last) # StepWritten(n)
  <2>1. TokenWritten(TRUE, last)[1] = Count("tokens", 1) /\ TokenWritten(FALSE, last)[1] = Count("tokens", 1)
    BY ScriptForms
  <2>2. Count("tokens", 1) # Count("steps", 1)
    BY <1>2
  <2>3. TokenWritten(TRUE, last) # StepWritten(n) /\ TokenWritten(FALSE, last) # StepWritten(n)
    BY <1>1, <2>1, <2>2
  <2>4. CASE first = TRUE
    BY <2>3, <2>4
  <2>5. CASE first = FALSE
    BY <2>3, <2>5
  <2>6. QED
    BY <2>4, <2>5
<1>5. ASSUME NEW n \in Nat PROVE <<Count("done", 1)>> # StepWritten(n)
  <2>1. Count("done", 1) # Count("steps", 1)
    BY <1>2
  <2>2. <<Count("done", 1)>>[1] = Count("done", 1)
    OBVIOUS
  <2>3. QED
    BY <1>1, <2>1, <2>2
<1>6. QED
  BY <1>3, <1>4, <1>5

\* An access changes no stage, and a script that is over stays so.
LEMMA StagesAccess ==
  ASSUME PlacesInv, StagesRight, NEW t \in Threads,
         (t \in Scrapers /\ DoRead(t)) \/ DoAdd(t) \/ DoLock(t) \/ DoUnlock(t)
  PROVE  StagesRight'
<1>1. ~ Idle(t) /\ Goes(t)
  BY DEF DoLock, DoUnlock, DoRead, DoAdd, AtWord
<1>2. stage' = stage /\ given' = given /\ rest' = rest /\ script' = script
  BY <1>1, GoesFacts
<1>3. line \in [Threads -> Nat \ {0}] /\ Loop \in Threads
  BY ThreadKinds DEF PlacesInv, MTypeOK
<1>4. line'[Loop] = line[Loop] \/ line'[Loop] = line[Loop] + 1
  BY <1>1, GoesFacts, ThreadKinds DEF Goes, PlacesInv, MTypeOK
<1>5. script[Loop] \in Seq(Operations)
  BY <1>3 DEF PlacesInv, MTypeOK
<1>6. ~ Idle(Loop)' => ~ Idle(Loop)
  <2>. DEFINE k == Len(script[Loop])
              l == line[Loop]
  <2>1. k \in Nat /\ l \in Nat
    BY <1>3, <1>5, LenProperties
  <2>2. Idle(Loop) <=> l > k
    BY DEF Idle
  <2>3. Idle(Loop)' <=> line'[Loop] > k
    BY <1>2 DEF Idle
  <2>4. line'[Loop] = l \/ line'[Loop] = l + 1
    BY <1>4
  <2>. HIDE DEF k, l
  <2>5. QED
    BY <2>1, <2>2, <2>3, <2>4
<1>7. In("taken")' = In("taken") /\ In("live")' = In("live")
  BY <1>2 DEF In
<1>8. QED
  BY <1>2, <1>6, <1>7 DEF StagesRight

\* Nor does the start of a script that is not one of run.
LEMMA StagesOthersBegin ==
  ASSUME PlacesInv, StagesRight, NEW t \in Threads, t # Loop, NEW what \in Seq(Operations), Begins(t, what)
  PROVE  \A n \in Nat : script'[Loop] = StepWritten(n) /\ ~ Idle(Loop)' => script[Loop] = StepWritten(n) /\ ~ Idle(Loop)
<1>1. script'[Loop] = script[Loop] /\ line'[Loop] = line[Loop]
  BY BeginsKeepsPlaces, ThreadKinds
<1>2. QED
  BY <1>1 DEF Idle

LEMMA StagesSubmit ==
  ASSUME PlacesInv, StagesRight, NEW r \in Requests, Submit(r)
  PROVE  StagesRight'
<1>. DEFINE what == <<Count("total", 1)>>
<1>1. what \in Seq(Operations) /\ r \in Threads /\ r # Loop
  BY ScriptForms, ThreadKinds
<1>2. /\ stage[r] = "new" /\ Begins(r, what)
      /\ stage' = [stage EXCEPT ![r] = "taken"] /\ given' = given /\ rest' = rest
  BY DEF Submit
<1>. HIDE DEF what
<1>3. stage'[r] = "taken" /\ \A q \in Requests \ {r} : stage'[q] = stage[q]
  BY <1>2 DEF PlacesInv, MTypeOK
<1>4. \A n \in Nat : script'[Loop] = StepWritten(n) /\ ~ Idle(Loop)' => n = Cardinality(rest')
  BY <1>1, <1>2, StagesOthersBegin DEF StagesRight
<1>5. \A q \in Requests : stage'[q] \in {"new", "taken"} => given'[q] = 0
  BY <1>2, <1>3 DEF StagesRight
<1>6. \A q \in Requests : stage'[q] = "live" => given'[q] > 0
  BY <1>2, <1>3 DEF StagesRight
<1>7. rest' \subseteq In("taken")' \cup In("live")'
  BY <1>2, <1>3 DEF StagesRight, In
<1>8. QED
  BY <1>4, <1>5, <1>6, <1>7 DEF StagesRight

LEMMA StagesScrape ==
  ASSUME PlacesInv, StagesRight, NEW s \in Scrapers, Scrape(s)
  PROVE  StagesRight'
<1>1. PICK k \in {"prom", "json"} : Begins(s, IF k = "prom" THEN WriteProm ELSE Snapshot)
  BY DEF Scrape
<1>. DEFINE what == IF k = "prom" THEN WriteProm ELSE Snapshot
<1>2. what \in Seq(Operations) /\ Begins(s, what) /\ s \in Threads /\ s # Loop
  BY <1>1, ScriptForms, ThreadKinds
<1>. HIDE DEF what
<1>3. stage' = stage /\ given' = given /\ rest' = rest
  BY DEF Scrape
<1>4. \A n \in Nat : script'[Loop] = StepWritten(n) /\ ~ Idle(Loop)' => n = Cardinality(rest')
  BY <1>2, <1>3, StagesOthersBegin DEF StagesRight
<1>5. In("taken")' = In("taken") /\ In("live")' = In("live")
  BY <1>3 DEF In
<1>6. QED
  BY <1>3, <1>4, <1>5 DEF StagesRight

\* What run begins, by what it changes of the requests.
LEMMA StagesLoop ==
  ASSUME PlacesInv, StagesRight, NEW what \in LoopScripts, Begins(Loop, what),
         \A n \in Nat : what = StepWritten(n) => n = Cardinality(rest')
  PROVE  \A n \in Nat : script'[Loop] = StepWritten(n) /\ ~ Idle(Loop)' => n = Cardinality(rest')
<1>1. script'[Loop] = what
  BY WriterForms, BeginsKeepsPlaces, ThreadKinds
<1>2. QED
  BY <1>1

LEMMA StagesStep ==
  ASSUME PlacesInv, StagesRight, Step
  PROVE  StagesRight'
<1>. DEFINE c == Cardinality(rest')
<1>1. /\ rest' \subseteq In("taken") \cup In("live") /\ c \in Nat \ {0}
      /\ Begins(Loop, StepWritten(c)) /\ stage' = stage /\ given' = given
  BY StepFacts
<1>2. PICK what : what = StepWritten(c)
  OBVIOUS
<1>3. what \in LoopScripts /\ Begins(Loop, what)
  BY <1>1, <1>2, BegunScripts
<1>4. \A n \in Nat : what = StepWritten(n) => n = c
  BY <1>1, <1>2, StepScripts
<1>5. \A n \in Nat : script'[Loop] = StepWritten(n) /\ ~ Idle(Loop)' => n = Cardinality(rest')
  BY <1>3, <1>4, StagesLoop
<1>6. In("taken")' = In("taken") /\ In("live")' = In("live")
  BY <1>1 DEF In
<1>7. QED
  BY <1>1, <1>5, <1>6 DEF StagesRight

LEMMA StagesToken ==
  ASSUME PlacesInv, StagesRight, NEW r \in Requests, NextToken(r)
  PROVE  StagesRight'
<1>1. /\ r \in rest /\ rest' = rest \ {r}
      /\ given'[r] = given[r] + 1 /\ given \in [Requests -> Nat]
      /\ \A q \in Requests \ {r} : given'[q] = given[q] /\ stage'[q] = stage[q]
  BY NextTokenFacts DEF PlacesInv, MTypeOK
<1>2. PICK last \in BOOLEAN : /\ Begins(Loop, TokenWritten(stage[r] = "taken", last))
                              /\ stage'[r] = IF last THEN "over" ELSE "live"
  BY NextTokenFacts
<1>3. PICK first \in BOOLEAN : first = (stage[r] = "taken")
  OBVIOUS
<1>4. PICK what : what = TokenWritten(first, last)
  OBVIOUS
<1>5. what \in LoopScripts /\ Begins(Loop, what)
  BY <1>2, <1>3, <1>4, BegunScripts
<1>6. \A n \in Nat : what # StepWritten(n)
  BY <1>4, StepScripts
<1>7. \A n \in Nat : script'[Loop] = StepWritten(n) /\ ~ Idle(Loop)' => n = Cardinality(rest')
  BY <1>5, <1>6, StagesLoop
<1>8. \A q \in Requests : stage'[q] \in {"new", "taken"} => given'[q] = 0
  BY <1>1, <1>2 DEF StagesRight
<1>9. \A q \in Requests : stage'[q] = "live" => given'[q] > 0
  BY <1>1, <1>2 DEF StagesRight
<1>10. rest' \subseteq In("taken")' \cup In("live")'
  BY <1>1 DEF StagesRight, In
<1>11. QED
  BY <1>7, <1>8, <1>9, <1>10 DEF StagesRight

LEMMA StagesFail ==
  ASSUME PlacesInv, StagesRight, NEW r \in Requests, FailRequest(r)
  PROVE  StagesRight'
<1>1. /\ rest = {} /\ rest' = {} /\ given' = given /\ stage'[r] = "over" /\ Begins(Loop, <<Count("done", 1)>>)
      /\ \A q \in Requests \ {r} : stage'[q] = stage[q]
  BY FailFacts
<1>2. PICK what : what = <<Count("done", 1)>>
  OBVIOUS
<1>3. what \in LoopScripts /\ Begins(Loop, what) /\ \A n \in Nat : what # StepWritten(n)
  BY <1>1, <1>2, BegunScripts, StepScripts
<1>4. \A n \in Nat : script'[Loop] = StepWritten(n) /\ ~ Idle(Loop)' => n = Cardinality(rest')
  BY <1>3, StagesLoop
<1>5. \A q \in Requests : stage'[q] \in {"new", "taken"} => given'[q] = 0
  BY <1>1 DEF StagesRight
<1>6. \A q \in Requests : stage'[q] = "live" => given'[q] > 0
  BY <1>1 DEF StagesRight
<1>7. QED
  BY <1>1, <1>4, <1>5, <1>6 DEF StagesRight

LEMMA BooksNext == PlacesInv /\ BooksInv /\ [MNext]_mVars => BooksInv'
<1>. SUFFICES ASSUME PlacesInv, BooksInv, [MNext]_mVars PROVE BooksInv'
  OBVIOUS
<1>1. StagesRight
  BY DEF BooksInv
<1>2. CASE \E r \in Requests : Submit(r)
  BY <1>1, <1>2, StagesSubmit, BooksSubmit DEF BooksInv
<1>3. CASE \E r \in Requests : NextToken(r)
  BY <1>1, <1>3, StagesToken, BooksToken DEF BooksInv
<1>4. CASE \E r \in Requests : FailRequest(r)
  BY <1>1, <1>4, StagesFail, BooksFail DEF BooksInv
<1>5. CASE Step
  BY <1>1, <1>5, StagesStep, BooksStep DEF BooksInv
<1>6. CASE \E s \in Scrapers : Scrape(s)
  BY <1>1, <1>6, StagesScrape, BooksScrape DEF BooksInv
<1>7. CASE \E t \in Threads : (t \in Scrapers /\ DoRead(t)) \/ DoAdd(t) \/ DoLock(t) \/ DoUnlock(t)
  BY <1>1, <1>7, StagesAccess, BooksAccess DEF BooksInv
<1>8. CASE UNCHANGED mVars
  <2>1. StagesRight'
    BY <1>1, <1>8 DEF mVars, StagesRight, In, Idle
  <2>2. BooksRight'
    <3>1. \A w : Owed(w)' = Owed(w)
      BY <1>8, OwedFrame DEF mVars
    <3>2. Due' = Due
      BY <1>8, <3>1 DEF Due, mVars
    <3>3. Uncounted' = Uncounted /\ WithToken' = WithToken /\ Sent' = Sent
          /\ In("new")' = In("new") /\ In("over")' = In("over")
      BY <1>8 DEF Uncounted, WithToken, Sent, In, Idle, mVars
    <3>4. QED
      BY <1>8, <3>2, <3>3 DEF BooksInv, BooksRight, mVars
  <2>3. QED
    BY <2>1, <2>2 DEF BooksInv
<1>9. QED
  BY <1>2, <1>3, <1>4, <1>5, <1>6, <1>7, <1>8, ThreadKinds DEF MNext, Rests

LEMMA OwedInit == ASSUME MInit, NEW w PROVE Owed(w) = 0
<1>1. script[Loop] = <<>> /\ line[Loop] = 1
  BY ThreadKinds DEF MInit
<1>2. Len(script[Loop]) = 0
  BY <1>1
<1>3. \A i \in 1 .. 4 : LeftAt(i, w) = 0
  BY <1>1, <1>2 DEF LeftAt
<1>4. QED
  BY <1>3 DEF Owed

LEMMA BooksInit == MInit => BooksInv
<1>. SUFFICES ASSUME MInit PROVE BooksInv
  OBVIOUS
<1>1. \A w \in Words : Due[w] = 0 /\ word[w] = 0
  BY OwedInit, DueIs DEF MInit
<1>2. /\ In("new") = Requests /\ In("over") = {} /\ Uncounted = {} /\ WithToken = {} /\ rest = {}
  BY DEF MInit, In, Uncounted, WithToken
<1>3. Requests \ In("new") = {}
  BY <1>2
<1>4. Sent = {}
  BY DEF MInit, Sent
<1>5. Cardinality({}) = 0 /\ IsFiniteSet({})
  BY FS_EmptySet
<1>6. PromptLen * 0 = 0
  BY MetricsAssumption
<1>7. BooksRight
  BY <1>1, <1>2, <1>3, <1>4, <1>5, <1>6, BookWords DEF BooksRight
<1>8. Idle(Loop)
  BY ThreadKinds DEF MInit, Idle
<1>9. StagesRight
  BY <1>2, <1>8 DEF MInit, StagesRight
<1>10. QED
  BY <1>7, <1>9 DEF BooksInv
-----------------------------------------------------------------------------
(* The histograms. *)

\* A histogram is as its words are.
LEMMA HistogramSame ==
  ASSUME NEW u, NEW v, NEW h \in Histograms, HistogramOK(v, h),
         \A w \in HistogramWords(h) : u[w] = v[w]
  PROVE  HistogramOK(u, h)
<1>1. u[Total(h)] = v[Total(h)] /\ u[Sum(h)] = v[Sum(h)]
  BY WordsKnown
<1>2. \A i \in Buckets : u[Bucket(h, i)] = v[Bucket(h, i)]
  BY WordsKnown
<1>3. Observed(u, h) = Observed(v, h) /\ Worth(u, h) = Worth(v, h)
  BY <1>2 DEF Observed, Worth
<1>4. NumBounds + 1 \in Buckets
  BY MetricsAssumption DEF Buckets
<1>5. QED
  BY <1>1, <1>2, <1>3, <1>4 DEF HistogramOK, Whole, Together

\* The bucket of an observation is not more than it is worth, and as much but
\* in the last one.
LEMMA BucketWorth ==
  ASSUME NEW n \in Nat \ {0}
  PROVE  /\ BucketOf(n) \in Buckets /\ BucketOf(n) \in Nat /\ BucketOf(n) <= n
         /\ BucketOf(n) # NumBounds + 1 => BucketOf(n) = n
BY MetricsAssumption DEF BucketOf, Buckets

\* One observation more keeps a histogram whole.
LEMMA HistogramGrows ==
  ASSUME NEW u, NEW v, NEW h \in Histograms, HistogramOK(v, h), NEW n \in Nat \ {0},
         h # "batch" => n = Time,
         \A w \in HistogramWords(h) : v[w] \in Nat,
         \A i \in Buckets : u[Bucket(h, i)] = IF i = BucketOf(n) THEN v[Bucket(h, i)] + 1 ELSE v[Bucket(h, i)],
         u[Sum(h)] = v[Sum(h)] + n, u[Total(h)] = v[Total(h)] + 1
  PROVE  HistogramOK(u, h)
<1>. DEFINE b == BucketOf(n)
            c == v[Bucket(h, b)]
            x == <<b, c + 1>>
            X == {b} \X ({c + 1} \X (1 .. b))
<1>1. b \in Buckets /\ b \in Nat /\ b <= n /\ (b # NumBounds + 1 => b = n)
  BY BucketWorth
<1>2. \A i \in Buckets : v[Bucket(h, i)] \in Nat
  BY WordsKnown
<1>3. c \in Nat /\ v[Sum(h)] \in Nat /\ v[Total(h)] \in Nat
  BY <1>1, <1>2, WordsKnown
<1>4. /\ \A i \in Buckets \ {b} : u[Bucket(h, i)] = v[Bucket(h, i)]
      /\ u[Bucket(h, b)] = c + 1
  BY <1>1
<1>. HIDE DEF b, c
<1>5. 1 .. c + 1 = (1 .. c) \cup {c + 1} /\ c + 1 \notin 1 .. c
  BY <1>3
<1>6. c = v[Bucket(h, b)]
  BY DEF c
<1>7. Observed(u, h) = Observed(v, h) \cup {x} /\ x \notin Observed(v, h)
  <2>1. {b} \X (1 .. c + 1) = ({b} \X (1 .. c)) \cup {x}
    BY <1>5
  <2>2. ASSUME NEW e PROVE e \in Observed(u, h) <=> e \in Observed(v, h) \cup {x}
    <3>1. e \in Observed(u, h) <=> \E i \in Buckets : e \in {i} \X (1 .. u[Bucket(h, i)])
      BY DEF Observed
    <3>2. e \in Observed(v, h) <=> \E i \in Buckets : e \in {i} \X (1 .. v[Bucket(h, i)])
      BY DEF Observed
    <3>3. QED
      BY <1>1, <1>4, <1>6, <2>1, <3>1, <3>2
  <2>3. x \notin Observed(v, h)
    BY <1>5, <1>6 DEF Observed
  <2>4. QED
    BY <2>2, <2>3
<1>8. Worth(u, h) = Worth(v, h) \cup X /\ Worth(v, h) \cap X = {}
  <2>1. {b} \X ((1 .. c + 1) \X (1 .. b)) = ({b} \X ((1 .. c) \X (1 .. b))) \cup X
    BY <1>5
  <2>2. ASSUME NEW e PROVE e \in Worth(u, h) <=> e \in Worth(v, h) \cup X
    <3>1. e \in Worth(u, h) <=> \E i \in Buckets : e \in {i} \X ((1 .. u[Bucket(h, i)]) \X (1 .. i))
      BY DEF Worth
    <3>2. e \in Worth(v, h) <=> \E i \in Buckets : e \in {i} \X ((1 .. v[Bucket(h, i)]) \X (1 .. i))
      BY DEF Worth
    <3>. HIDE DEF X
    <3>3. QED
      BY <1>1, <1>4, <1>6, <2>1, <3>1, <3>2
  <2>3. ASSUME NEW e \in Worth(v, h), e \in X PROVE FALSE
    <3>1. PICK i \in Buckets : e \in {i} \X ((1 .. v[Bucket(h, i)]) \X (1 .. i))
      BY <2>3 DEF Worth
    <3>2. e[1] = b /\ e[2][1] = c + 1
      BY <2>3
    <3>3. e[1] = i /\ e[2][1] \in 1 .. v[Bucket(h, i)]
      BY <3>1
    <3>4. QED
      BY <1>5, <1>6, <3>2, <3>3
  <2>4. QED
    BY <2>2, <2>3
<1>9. IsFiniteSet(Observed(u, h)) /\ Cardinality(Observed(u, h)) = Cardinality(Observed(v, h)) + 1
  BY <1>7, OneMore DEF HistogramOK
<1>10. IsFiniteSet(X) /\ Cardinality(X) = b
  <2>1. IsFiniteSet(1 .. b) /\ Cardinality(1 .. b) = b
    <3>1. Cardinality(1 .. b) = IF 1 > b THEN 0 ELSE b - 1 + 1
      BY <1>1, FS_Interval
    <3>2. QED
      BY <1>1, <3>1, FS_Interval
  <2>2. IsFiniteSet({c + 1}) /\ Cardinality({c + 1}) = 1 /\ IsFiniteSet({b}) /\ Cardinality({b}) = 1
    BY FS_Singleton
  <2>3. IsFiniteSet({c + 1} \X (1 .. b)) /\ Cardinality({c + 1} \X (1 .. b)) = 1 * b
    <3>1. PICK S, T : S = {c + 1} /\ T = 1 .. b
      OBVIOUS
    <3>2. IsFiniteSet(S \X T) /\ Cardinality(S \X T) = Cardinality(S) * Cardinality(T)
      BY <2>1, <2>2, <3>1, FS_Product
    <3>3. Cardinality(S) = 1 /\ Cardinality(T) = b
      BY <2>1, <2>2, <3>1
    <3>4. Cardinality(S \X T) = 1 * b
      BY <3>2, <3>3
    <3>5. QED
      BY <3>1, <3>2, <3>4
  <2>4. IsFiniteSet(X) /\ Cardinality(X) = 1 * (1 * b)
    BY <2>2, <2>3, FS_Product
  <2>5. QED
    BY <1>1, <2>4
<1>11. IsFiniteSet(Worth(u, h)) /\ Cardinality(Worth(u, h)) = Cardinality(Worth(v, h)) + b
       /\ Cardinality(Worth(v, h)) \in Nat
  <2>1. IsFiniteSet(Worth(v, h)) /\ Cardinality(Worth(v, h)) \in Nat
    BY FS_CardinalityType DEF HistogramOK
  <2>. HIDE DEF X
  <2>2. /\ IsFiniteSet(Worth(v, h) \cup X)
        /\ Cardinality(Worth(v, h) \cup X)
             = Cardinality(Worth(v, h)) + Cardinality(X) - Cardinality(Worth(v, h) \cap X)
    BY <1>10, <2>1, FS_Union
  <2>3. Cardinality(Worth(v, h) \cap X) = 0
    BY <1>8, FS_EmptySet
  <2>4. QED
    BY <1>1, <1>8, <1>10, <2>1, <2>2, <2>3
<1>. HIDE DEF x, X
<1>12. Cardinality(Observed(u, h)) = u[Total(h)]
  BY <1>9 DEF HistogramOK, Whole
<1>13. Cardinality(Worth(u, h)) <= u[Sum(h)]
  BY <1>1, <1>3, <1>11 DEF HistogramOK, Whole
<1>14. u[Bucket(h, NumBounds + 1)] = 0 => Cardinality(Worth(u, h)) = u[Sum(h)]
  <2>1. NumBounds + 1 \in Buckets
    BY MetricsAssumption DEF Buckets
  <2>2. CASE b = NumBounds + 1
    BY <1>3, <1>4, <2>2
  <2>3. CASE b # NumBounds + 1
    BY <1>1, <1>3, <1>4, <1>11, <2>1, <2>3 DEF HistogramOK, Whole
  <2>4. QED
    BY <2>2, <2>3
<1>15. Together(u, h)
  BY <1>3 DEF HistogramOK, Together, Time
<1>16. QED
  BY <1>9, <1>11, <1>12, <1>13, <1>14, <1>15 DEF HistogramOK, Whole

\* What a script of run adds to a histogram: nothing, or one observation.
LEMMA ComesToHistogram ==
  ASSUME NEW u \in LoopScripts, NEW h \in Histograms
  PROVE  \/ \A w \in HistogramWords(h) : Comes(u, w) = 0
         \/ \E n \in Nat \ {0} :
              /\ h # "batch" => n = Time
              /\ \A w \in HistogramWords(h) :
                   Comes(u, w) = IF w = Bucket(h, BucketOf(n)) \/ w = Total(h) THEN 1
                                 ELSE IF w = Sum(h) THEN n ELSE 0
<1>1. /\ u \in Seq(Operations) /\ Len(u) \in 0 .. 4
      /\ \A i \in 1 .. Len(u) : u[i] \in Operations /\ u[i].op \in {"count", "observe"}
      /\ \A i, j \in 1 .. Len(u) : u[i].x = u[j].x => i = j
      /\ \A i \in 1 .. Len(u) : u[i].op = "observe" /\ u[i].x # "batch" => u[i].n = Time
  BY WriterForms, ElementOfSeq
<1>2. ASSUME NEW i \in 1 .. 4, ~ (i \in 1 .. Len(u) /\ u[i].x = h), NEW w \in HistogramWords(h)
      PROVE  Share(u, i, w) = 0
  BY <1>1, <1>2, LeavesOthers DEF Share
<1>3. CASE \A i \in 1 .. Len(u) : u[i].x # h
  <2>1. \A w \in HistogramWords(h) : Share(u, 1, w) = 0 /\ Share(u, 2, w) = 0 /\ Share(u, 3, w) = 0 /\ Share(u, 4, w) = 0
    BY <1>2, <1>3
  <2>2. QED
    BY <2>1 DEF Comes
<1>4. CASE \E i \in 1 .. Len(u) : u[i].x = h
  <2>1. PICK i \in 1 .. Len(u) : u[i].x = h
    BY <1>4
  <2>2. i \in 1 .. 4
    <3>. DEFINE k == Len(u)
    <3>1. k \in 0 .. 4 /\ i \in 1 .. k
      BY <1>1
    <3>. HIDE DEF k
    <3>2. QED
      BY <3>1
  <2>3. u[i] \in Operations /\ h \notin Counters
    BY <1>1 DEF Counters, Histograms
  <2>4. u[i] \in [op : {"observe"}, x : Histograms, n : Nat \ {0}]
    <3>1. u[i].op \in {"count", "observe"}
      BY <1>1
    <3>2. QED
      BY <2>1, <2>3, <3>1 DEF Operations
  <2>5. PICK n \in Nat \ {0} : n = u[i].n
    BY <2>4
  <2>6. u[i] = Observe(h, n)
    BY <2>1, <2>4, <2>5 DEF Observe, Operation
  <2>7. ASSUME NEW w \in HistogramWords(h)
        PROVE  Comes(u, w) = IF w = Bucket(h, BucketOf(n)) \/ w = Total(h) THEN 1 ELSE IF w = Sum(h) THEN n ELSE 0
    <3>. DEFINE d == IF w = Bucket(h, BucketOf(n)) \/ w = Total(h) THEN 1 ELSE IF w = Sum(h) THEN n ELSE 0
    <3>1. Share(u, i, w) = d
      BY <2>6, LeftOfObserve DEF Share
    <3>2. \A j \in 1 .. 4 : j # i => Share(u, j, w) = 0
      <4>1. ASSUME NEW j \in 1 .. 4, j # i PROVE Share(u, j, w) = 0
        <5>1. ~ (j \in 1 .. Len(u) /\ u[j].x = h)
          BY <1>1, <2>1, <4>1
        <5>2. QED
          BY <1>2, <5>1
      <4>2. QED
        BY <4>1
    <3>3. d \in Nat
      OBVIOUS
    <3>. HIDE DEF d
    <3>4. Comes(u, w) = d
      <4>1. i = 1 \/ i = 2 \/ i = 3 \/ i = 4
        BY <2>2
      <4>2. QED
        BY <3>1, <3>2, <3>3, <4>1 DEF Comes
    <3>5. QED
      BY <3>4 DEF d
  <2>8. h # "batch" => n = Time
    BY <1>1, <2>1, <2>4, <2>5
  <2>9. QED
    BY <2>7, <2>8
<1>5. QED
  BY <1>3, <1>4

LEMMA DueOfHistogram ==
  ASSUME PlacesInv, NEW h \in Histograms
  PROVE  \A w \in HistogramWords(h) : w \in Words /\ Due[w] \in Nat /\ word[w] \in Nat /\ w # Value("total")
<1>1. \A w \in HistogramWords(h) : w \in Words /\ w # Value("total")
  BY WordsKnown DEF Counters
<1>2. QED
  BY <1>1, DueNat DEF PlacesInv, MTypeOK

\* What run begins keeps every histogram whole, as it will be.
LEMMA HistogramsLoop ==
  ASSUME PlacesInv, HistogramsInv, NEW what \in LoopScripts, Begins(Loop, what)
  PROVE  HistogramsInv'
<1>1. word' = word /\ mu' = mu
  BY DEF Begins
<1>2. ASSUME NEW h \in Histograms PROVE HistogramOK(Due', h)
  <2>1. HistogramOK(Due, h)
    BY DEF HistogramsInv
  <2>2. \A w \in HistogramWords(h) : Due'[w] = Due[w] + Comes(what, w) /\ Due[w] \in Nat
    BY DueBegins, DueOfHistogram
  <2>3. CASE \A w \in HistogramWords(h) : Comes(what, w) = 0
    <3>1. \A w \in HistogramWords(h) : Due'[w] = Due[w]
      BY <2>2, <2>3
    <3>2. QED
      BY <2>1, <3>1, HistogramSame
  <2>4. CASE \E n \in Nat \ {0} :
              /\ h # "batch" => n = Time
              /\ \A w \in HistogramWords(h) :
                   Comes(what, w) = IF w = Bucket(h, BucketOf(n)) \/ w = Total(h) THEN 1
                                    ELSE IF w = Sum(h) THEN n ELSE 0
    <3>1. PICK n \in Nat \ {0} :
            /\ h # "batch" => n = Time
            /\ \A w \in HistogramWords(h) :
                 Comes(what, w) = IF w = Bucket(h, BucketOf(n)) \/ w = Total(h) THEN 1
                                  ELSE IF w = Sum(h) THEN n ELSE 0
      BY <2>4
    <3>2. Due'[Sum(h)] = Due[Sum(h)] + n /\ Due'[Total(h)] = Due[Total(h)] + 1
      BY <2>2, <3>1, WordsKnown, WordsApart
    <3>3. \A i \in Buckets : Due'[Bucket(h, i)] = IF i = BucketOf(n) THEN Due[Bucket(h, i)] + 1 ELSE Due[Bucket(h, i)]
      BY <2>2, <3>1, WordsKnown, WordsApart
    <3>4. \A w \in HistogramWords(h) : Due[w] \in Nat
      BY <2>2
    <3>5. QED
      BY <2>1, <3>1, <3>2, <3>3, <3>4, HistogramGrows
  <2>5. QED
    BY <2>3, <2>4, ComesToHistogram
<1>3. \A h \in Histograms : mu'[h] # Loop => HistogramOK(word', h)
  BY <1>1 DEF HistogramsInv
<1>4. QED
  BY <1>2, <1>3 DEF HistogramsInv

LEMMA HistogramsOthersBegin ==
  ASSUME PlacesInv, HistogramsInv, NEW t \in Threads, t # Loop, NEW what \in Seq(Operations), Begins(t, what)
  PROVE  HistogramsInv'
<1>1. word' = word /\ mu' = mu
  BY DEF Begins
<1>2. ASSUME NEW h \in Histograms PROVE HistogramOK(Due', h)
  <2>1. \A w \in HistogramWords(h) : Due'[w] = Due[w]
    BY DueOthersBegin, DueOfHistogram
  <2>2. QED
    BY <2>1, HistogramSame DEF HistogramsInv
<1>3. QED
  BY <1>1, <1>2 DEF HistogramsInv

\* When run has made all of an operation on h, nothing is owed to h.
LEMMA NothingOwed ==
  ASSUME PlacesInv, ~ Idle(Loop), Locks(Now(Loop)), at[Loop] = Len(Body(Now(Loop))) + 1,
         NEW h \in Histograms, Now(Loop).x = h, NEW w \in HistogramWords(h)
  PROVE  Owed(w) = 0
<1>. DEFINE u == script[Loop]
            l == line[Loop]
<1>1. u \in LoopScripts /\ Loop \in Threads
  BY ThreadKinds DEF PlacesInv, ScriptsRight
<1>2. /\ u \in Seq(Operations) /\ \A i \in 1 .. Len(u) : u[i] \in Operations
      /\ \A i, j \in 1 .. Len(u) : u[i].x = u[j].x => i = j
  BY <1>1, WriterForms, ElementOfSeq
<1>3. l \in 1 .. Len(u) /\ Now(Loop) = u[l]
  BY <1>1, NowFacts DEF PlacesInv, Now
<1>4. ASSUME NEW i \in 1 .. 4 PROVE LeftAt(i, w) = 0
  <2>1. CASE i \notin l .. Len(u)
    BY <2>1 DEF LeftAt
  <2>2. CASE i = l
    <3>1. LeftAt(i, w) = Left(Now(Loop), Len(Body(Now(Loop))) + 1, w)
      BY <1>3, <2>2 DEF LeftAt
    <3>2. Now(Loop) \in Operations
      BY <1>2, <1>3
    <3>3. Len(Body(Now(Loop))) \in Nat
      BY <3>2, BodyFacts
    <3>4. \A k \in Nat : k > Len(Body(Now(Loop))) => Left(Now(Loop), k, w) = 0
      BY <3>2, LeftStep
    <3>5. /\ Len(Body(Now(Loop))) + 1 \in Nat
          /\ Len(Body(Now(Loop))) + 1 > Len(Body(Now(Loop)))
      BY <3>3
    <3>6. QED
      BY <3>1, <3>4, <3>5
  <2>3. CASE i # l /\ i \in l .. Len(u)
    <3>1. i \in 1 .. Len(u)
      <4>. DEFINE k == Len(u)
      <4>1. k \in Nat /\ l \in 1 .. k /\ i \in l .. k
        BY <1>2, <1>3, <2>3, LenProperties
      <4>. HIDE DEF k, l, u
      <4>2. i \in 1 .. k
        BY <4>1
      <4>3. QED
        BY <4>2 DEF k
    <3>2. u[i] \in Operations /\ u[i].x # h
      BY <1>2, <1>3, <2>3, <3>1
    <3>3. QED
      BY <2>3, <3>2, LeavesOthers DEF LeftAt
  <2>4. QED
    BY <2>1, <2>2, <2>3
<1>5. QED
  BY <1>4 DEF Owed

\* Who adds to a histogram is run, holding its mutex.
LEMMA AddsToHistogram ==
  ASSUME PlacesInv, NEW t \in Threads, DoAdd(t), NEW h \in Histograms, mu[h] # Loop
  PROVE  \A w \in HistogramWords(h) : word'[w] = word[w]
<1>1. AtWord(t) /\ Now(t).op \in {"count", "observe"} /\ ~ Idle(t)
  BY DEF DoAdd, AtWord
<1>2. NextWord(t) \notin HistogramWords(h)
  <2>1. CASE ~ Locks(Now(t))
    BY <1>1, <2>1, AtWordFacts, WordsKnown
  <2>2. CASE Locks(Now(t))
    <3>1. t = Loop
      <4>1. t \notin Scrapers
        BY <1>1, NowFacts DEF PlacesInv
      <4>2. t \notin Requests
        <5>1. ~ Locks(Count("total", 1))
          BY DEF Locks, Count, Operation
        <5>2. QED
          BY <1>1, <2>2, <5>1, NowFacts DEF PlacesInv
      <4>3. QED
        BY <4>1, <4>2 DEF Threads
    <3>2. Now(t).x # h /\ NextWord(t) \in HistogramWords(Now(t).x)
      BY <1>1, <2>2, <3>1, AtWordFacts
    <3>3. QED
      BY <3>2, WordsApart DEF HistogramWords
  <2>3. QED
    BY <2>1, <2>2
<1>3. QED
  BY <1>2, DueOfHistogram DEF DoAdd, PlacesInv, MTypeOK

LEMMA HistogramsAccess ==
  ASSUME PlacesInv, HistogramsInv, NEW t \in Threads,
         (t \in Scrapers /\ DoRead(t)) \/ DoAdd(t) \/ DoLock(t) \/ DoUnlock(t)
  PROVE  HistogramsInv'
<1>1. ASSUME NEW h \in Histograms PROVE HistogramOK(Due', h)
  <2>1. \A w \in HistogramWords(h) : Due'[w] = Due[w]
    BY DueAccess, DueOfHistogram
  <2>2. QED
    BY <2>1, HistogramSame DEF HistogramsInv
<1>2. ASSUME NEW h \in Histograms, mu'[h] # Loop PROVE HistogramOK(word', h)
  <2>1. CASE mu[h] # Loop
    <3>1. \A w \in HistogramWords(h) : word'[w] = word[w]
      <4>1. CASE DoAdd(t)
        BY <2>1, <4>1, AddsToHistogram
      <4>2. CASE ~ DoAdd(t)
        BY <4>2 DEF DoRead, DoLock, DoUnlock
      <4>3. QED
        BY <4>1, <4>2
    <3>2. HistogramOK(word, h)
      BY <2>1 DEF HistogramsInv
    <3>3. QED
      BY <3>1, <3>2, HistogramSame
  <2>2. CASE mu[h] = Loop
    <3>1. ~ DoLock(t)
      <4>1. ASSUME DoLock(t) PROVE FALSE
        <5>1. mu[Now(t).x] = "nobody" /\ mu' = [mu EXCEPT ![Now(t).x] = t]
          BY <4>1 DEF DoLock
        <5>2. Now(t).x # h
          BY <2>2, <5>1, ThreadKinds, MetricsAssumption
        <5>3. mu'[h] = mu[h]
          BY <5>1, <5>2 DEF PlacesInv, MTypeOK
        <5>4. QED
          BY <1>2, <2>2, <5>3
      <4>2. QED
        BY <4>1
    <3>2. DoUnlock(t)
      BY <1>2, <2>2, <3>1 DEF DoRead, DoAdd
    <3>3. /\ ~ Idle(t) /\ Locks(Now(t)) /\ at[t] = Len(Body(Now(t))) + 1
          /\ mu' = [mu EXCEPT ![Now(t).x] = "nobody"] /\ word' = word
      BY <3>2 DEF DoUnlock
    <3>4. Now(t).x = h
      BY <1>2, <2>2, <3>3 DEF PlacesInv, MTypeOK
    <3>5. Now(t) \in Operations
      BY <3>3, NowFacts DEF PlacesInv
    <3>6. at[t] > 0
      BY <3>3, <3>5, BodyFacts
    <3>7. mu[h] = t
      BY <3>3, <3>4, <3>6 DEF Inside, PlacesInv, MutexRight
    <3>8. t = Loop
      BY <2>2, <3>7
    <3>9. \A w \in HistogramWords(h) : Owed(w) = 0
      BY <3>3, <3>4, <3>8, NothingOwed
    <3>10. \A w \in HistogramWords(h) : word'[w] = Due[w]
      BY <3>3, <3>9, DueOfHistogram, DueIs
    <3>11. QED
      BY <3>10, HistogramSame DEF HistogramsInv
  <2>3. QED
    BY <2>1, <2>2
<1>3. QED
  BY <1>1, <1>2 DEF HistogramsInv

LEMMA HistogramsNext == PlacesInv /\ HistogramsInv /\ [MNext]_mVars => HistogramsInv'
<1>. SUFFICES ASSUME PlacesInv, HistogramsInv, [MNext]_mVars PROVE HistogramsInv'
  OBVIOUS
<1>1. ASSUME NEW r \in Requests, Submit(r) PROVE HistogramsInv'
  BY <1>1, ScriptForms, ThreadKinds, HistogramsOthersBegin DEF Submit
<1>2. ASSUME NEW r \in Requests, NextToken(r) PROVE HistogramsInv'
  <2>1. PICK last \in BOOLEAN : Begins(Loop, TokenWritten(stage[r] = "taken", last))
    BY <1>2, NextTokenFacts
  <2>2. PICK first \in BOOLEAN : first = (stage[r] = "taken")
    OBVIOUS
  <2>3. PICK what : what = TokenWritten(first, last)
    OBVIOUS
  <2>4. what \in LoopScripts /\ Begins(Loop, what)
    BY <2>1, <2>2, <2>3, BegunScripts
  <2>5. QED
    BY <2>4, HistogramsLoop
<1>3. ASSUME NEW r \in Requests, FailRequest(r) PROVE HistogramsInv'
  BY <1>3, FailFacts, BegunScripts, HistogramsLoop
<1>4. CASE Step
  <2>1. PICK what : what = StepWritten(Cardinality(rest'))
    OBVIOUS
  <2>2. what \in LoopScripts /\ Begins(Loop, what)
    BY <1>4, <2>1, StepFacts, BegunScripts
  <2>3. QED
    BY <2>2, HistogramsLoop
<1>5. ASSUME NEW s \in Scrapers, Scrape(s) PROVE HistogramsInv'
  <2>1. PICK k \in {"prom", "json"} : Begins(s, IF k = "prom" THEN WriteProm ELSE Snapshot)
    BY <1>5 DEF Scrape
  <2>2. PICK what : what = IF k = "prom" THEN WriteProm ELSE Snapshot
    OBVIOUS
  <2>3. what \in Seq(Operations) /\ Begins(s, what)
    BY <2>1, <2>2, ScriptForms
  <2>4. QED
    BY <2>3, ThreadKinds, HistogramsOthersBegin
<1>6. CASE \E t \in Threads : (t \in Scrapers /\ DoRead(t)) \/ DoAdd(t) \/ DoLock(t) \/ DoUnlock(t)
  BY <1>6, HistogramsAccess
<1>7. CASE UNCHANGED mVars
  <2>1. \A w : Owed(w)' = Owed(w)
    BY <1>7, OwedFrame DEF mVars
  <2>2. Due' = Due
    BY <1>7, <2>1 DEF Due, mVars
  <2>3. QED
    BY <1>7, <2>2 DEF HistogramsInv, mVars
<1>8. QED
  BY <1>1, <1>2, <1>3, <1>4, <1>5, <1>6, <1>7, ThreadKinds DEF MNext, Rests

LEMMA HistogramsInit == MInit => HistogramsInv
<1>. SUFFICES ASSUME MInit PROVE HistogramsInv
  OBVIOUS
<1>1. ASSUME NEW v, NEW h \in Histograms, \A w \in HistogramWords(h) : v[w] = 0 PROVE HistogramOK(v, h)
  <2>1. v[Sum(h)] = 0 /\ v[Total(h)] = 0 /\ \A i \in Buckets : v[Bucket(h, i)] = 0
    BY <1>1, WordsKnown
  <2>2. 1 .. 0 = {}
    OBVIOUS
  <2>3. Observed(v, h) = {} /\ Worth(v, h) = {}
    BY <2>1, <2>2 DEF Observed, Worth
  <2>4. QED
    BY <2>1, <2>3, FS_EmptySet DEF HistogramOK, Whole, Together, Time
<1>2. \A h \in Histograms : \A w \in HistogramWords(h) : word[w] = 0 /\ Due[w] = 0
  BY OwedInit, DueIs, WordsKnown DEF MInit
<1>3. QED
  BY <1>1, <1>2 DEF HistogramsInv
-----------------------------------------------------------------------------
(* The scrapes. *)

\* An operation goes to words of its counter or histogram, and under a mutex to
\* the sum and then the total at last.
LEMMA WordOf ==
  ASSUME NEW o \in Operations
  PROVE  /\ \A j \in DOMAIN Body(o) : Body(o)[j][1] = o.x
         /\ Locks(o) => /\ Len(Body(o)) >= 2
                        /\ Body(o)[Len(Body(o))] = Total(o.x)
                        /\ Body(o)[Len(Body(o)) - 1] = Sum(o.x)
<1>1. ASSUME NEW j \in DOMAIN Body(o) PROVE Body(o)[j][1] = o.x
  <2>1. CASE Locks(o)
    <3>1. Body(o)[j] \in HistogramWords(o.x)
      BY <2>1, BodyFacts
    <3>2. \A w \in HistogramWords(o.x) : w[1] = o.x
      BY DEF HistogramWords, Bucket, Sum, Total
    <3>3. QED
      BY <3>1, <3>2
  <2>2. CASE ~ Locks(o)
    <3>1. Body(o) = <<Value(o.x)>> /\ j \in 1 .. 1
      BY <2>2, BodyFacts
    <3>2. Body(o)[j] = Value(o.x)
      BY <3>1
    <3>3. QED
      BY <3>2 DEF Value
  <2>3. QED
    BY <2>1, <2>2
<1>2. ASSUME Locks(o)
      PROVE  /\ Len(Body(o)) >= 2 /\ Body(o)[Len(Body(o))] = Total(o.x)
             /\ Body(o)[Len(Body(o)) - 1] = Sum(o.x)
  <2>. DEFINE n == Len(Body(o))
  <2>1. CASE o.op = "observe"
    <3>1. n = 3 /\ Body(o)[3] = Total(o.x) /\ Body(o)[2] = Sum(o.x)
      BY <2>1, BodyFacts
    <3>. HIDE DEF n
    <3>2. n >= 2 /\ Body(o)[n] = Total(o.x) /\ Body(o)[n - 1] = Sum(o.x)
      BY <3>1
    <3>3. QED
      BY <3>2 DEF n
  <2>2. CASE o.op = "render"
    <3>1. n = NumBounds + 3 /\ Body(o)[NumBounds + 3] = Total(o.x) /\ Body(o)[NumBounds + 2] = Sum(o.x)
      BY <2>2, BodyFacts
    <3>. HIDE DEF n
    <3>2. n >= 2 /\ n - 1 = NumBounds + 2
      BY <3>1, MetricsAssumption
    <3>3. Body(o)[n] = Total(o.x) /\ Body(o)[n - 1] = Sum(o.x)
      BY <3>1, <3>2
    <3>4. QED
      BY <3>2, <3>3 DEF n
  <2>3. CASE o.op = "mean"
    <3>1. n = 2 /\ Body(o)[2] = Total(o.x) /\ Body(o)[1] = Sum(o.x)
      BY <2>3, BodyFacts
    <3>. HIDE DEF n
    <3>2. n >= 2 /\ Body(o)[n] = Total(o.x) /\ Body(o)[n - 1] = Sum(o.x)
      BY <3>1
    <3>3. QED
      BY <3>2 DEF n
  <2>4. QED
    BY <1>2, <2>1, <2>2, <2>3 DEF Locks
<1>3. QED
  BY <1>1, <1>2

\* The scripts of a scrape go to no word twice.
LEMMA ReaderScript ==
  ASSUME PlacesInv, NEW s \in Scrapers
  PROVE  /\ s \in Threads /\ script[s] \in Seq(Operations) /\ Len(script[s]) \in Nat
         /\ DOMAIN script[s] = 1 .. Len(script[s]) /\ \A i \in DOMAIN script[s] : script[s][i] \in Operations
         /\ \A i, k \in DOMAIN script[s] : script[s][i].x = script[s][k].x => i = k
<1>1. s \in Threads /\ script[s] \in Seq(Operations)
  BY ThreadKinds DEF PlacesInv, MTypeOK
<1>2. Len(script[s]) \in Nat /\ DOMAIN script[s] = 1 .. Len(script[s])
  BY <1>1, LenProperties
<1>3. \A i \in DOMAIN script[s] : script[s][i] \in Operations
  BY <1>1, <1>2, ElementOfSeq
<1>4. script[s] = <<>> \/ script[s] = WriteProm \/ script[s] = Snapshot
  BY DEF PlacesInv, ScriptsRight
<1>5. \A i, k \in DOMAIN script[s] : script[s][i].x = script[s][k].x => i = k
  <2>1. CASE script[s] = <<>>
    BY <2>1
  <2>2. CASE script[s] = WriteProm
    BY <1>2, <2>2, ScriptForms, ReaderForms
  <2>3. CASE script[s] = Snapshot
    BY <1>2, <2>3, ScriptForms, ReaderForms
  <2>4. QED
    BY <1>4, <2>1, <2>2, <2>3
<1>6. QED
  BY <1>1, <1>2, <1>3, <1>5

LEMMA PlacesApart ==
  ASSUME PlacesInv, NEW s \in Scrapers,
         NEW i \in DOMAIN script[s], NEW j \in DOMAIN Body(script[s][i]),
         NEW k \in DOMAIN script[s], NEW l \in DOMAIN Body(script[s][k]),
         Body(script[s][i])[j] = Body(script[s][k])[l]
  PROVE  i = k /\ j = l
<1>1. script[s][i] \in Operations /\ script[s][k] \in Operations
  BY ReaderScript
<1>2. script[s][i].x = script[s][k].x
  BY <1>1, WordOf
<1>3. i = k
  BY <1>2, ReaderScript
<1>4. QED
  BY <1>1, <1>3, BodyFacts

\* A read, and that its word was not read before.
LEMMA ReadFacts ==
  ASSUME PlacesInv, NEW s \in Scrapers, ReadSoFar(s), DoRead(s)
  PROVE  /\ AtWord(s) /\ NextWord(s) \in Words /\ ~ Has(s, NextWord(s))
         /\ word' = word /\ mu' = mu /\ kind' = kind /\ script' = script
         /\ \A w \in Words : seen'[s][w] = IF w = NextWord(s) THEN word[w] ELSE seen[s][w]
         /\ \A w \in Words : Has(s, w)' <=> Has(s, w) \/ w = NextWord(s)
         /\ \A w \in Words : Shown(s, w)' = Shown(s, w)
         /\ \A q \in Scrapers \ {s} : seen'[q] = seen[q]
<1>. DEFINE x == NextWord(s)
            o == Now(s)
            l == line[s]
<1>1. /\ AtWord(s) /\ s \in Threads /\ Goes(s) /\ word' = word /\ mu' = mu
      /\ seen' = [seen EXCEPT ![s][x] = word[x]]
  BY ThreadKinds DEF DoRead
<1>2. x \in Words /\ ~ Idle(s) /\ o \in Operations
  BY <1>1, AtWordFacts
<1>3. kind' = kind /\ script' = script
  BY <1>1, <1>2, GoesFacts
<1>4. l \in 1 .. Len(script[s]) /\ o = script[s][l]
  BY <1>1, <1>2, NowFacts DEF PlacesInv, Now
<1>5. l \in DOMAIN script[s] /\ l \in Nat
  BY <1>4, ReaderScript
<1>6. \A j \in DOMAIN Body(o) : Has(s, Body(o)[j]) <=> j < at[s]
  BY <1>4, <1>5 DEF ReadSoFar
<1>7. ~ Has(s, x)
  <2>1. CASE Locks(o)
    <3>1. at[s] \in 1 .. Len(Body(o)) /\ x = Body(o)[at[s]]
      BY <1>1, <2>1, AtWordFacts
    <3>2. at[s] \in DOMAIN Body(o) /\ ~ at[s] < at[s]
      BY <1>2, <3>1, BodyFacts
    <3>3. QED
      BY <1>6, <3>1, <3>2
  <2>2. CASE ~ Locks(o)
    <3>1. at[s] = 0 /\ x = Value(o.x)
      BY <1>1, <2>2, AtWordFacts
    <3>2. 1 \in DOMAIN Body(o) /\ Body(o)[1] = x /\ ~ 1 < at[s]
      BY <1>2, <2>2, <3>1, BodyFacts
    <3>3. QED
      BY <1>6, <3>2
  <2>3. QED
    BY <2>1, <2>2
<1>. HIDE DEF x, o, l
<1>8. seen \in [Scrapers -> [Words -> Nat \cup {Unread}]] /\ \A w \in Words : word[w] \in Nat
  BY DEF PlacesInv, MTypeOK
<1>9. /\ \A w \in Words : seen'[s][w] = IF w = x THEN word[w] ELSE seen[s][w]
      /\ \A q \in Scrapers \ {s} : seen'[q] = seen[q]
  BY <1>1, <1>2, <1>8
<1>10. \A n \in Nat : n # Unread
  BY DEF Unread
<1>11. \A w \in Words : Has(s, w)' <=> Has(s, w) \/ w = x
  BY <1>2, <1>8, <1>9, <1>10 DEF Has
<1>12. \A w \in Words : Shown(s, w)' = Shown(s, w)
  BY <1>1, <1>7, <1>9, <1>11 DEF Shown
<1>13. QED
  BY <1>1, <1>2, <1>3, <1>7, <1>9, <1>11, <1>12 DEF x

\* An access of a scrape keeps what it has read where it is in its script.
LEMMA ReadSoFarAccess ==
  ASSUME PlacesInv, NEW s \in Scrapers, ReadSoFar(s), DoRead(s) \/ DoLock(s) \/ DoUnlock(s)
  PROVE  ReadSoFar(s)'
<1>. DEFINE o == Now(s)
            l == line[s]
            n == Len(Body(o))
            a == at[s]
<1>1. ~ Idle(s) /\ Goes(s) /\ s \in Threads
  BY ThreadKinds DEF DoRead, DoLock, DoUnlock, AtWord
<1>2. o \in Operations /\ l \in DOMAIN script[s] /\ o = script[s][l] /\ l \in Nat
  <2>1. o \in Operations /\ l \in 1 .. Len(script[s]) /\ o = script[s][l]
    BY <1>1, NowFacts DEF PlacesInv, Now
  <2>2. QED
    BY <2>1, ReaderScript
<1>3. n \in Nat \ {0} /\ DOMAIN Body(o) = 1 .. n /\ a \in Nat
  BY <1>1, <1>2, BodyFacts DEF PlacesInv, MTypeOK
<1>4. /\ script' = script
      /\ Locks(o) /\ a <= n => line'[s] = l /\ at'[s] = a + 1
      /\ ~ Locks(o) \/ a > n => line'[s] = l + 1 /\ at'[s] = 0
  BY <1>1, GoesFacts
<1>. DEFINE Reads(j) == DoRead(s) /\ j = IF Locks(o) THEN a ELSE 1
<1>5. /\ DoRead(s) /\ Locks(o) => a \in 1 .. n
      /\ DoRead(s) /\ ~ Locks(o) => a = 0 /\ n = 1
      /\ DoRead(s) => NextWord(s) = Body(o)[IF Locks(o) THEN a ELSE 1]
  <2>1. DoRead(s) => AtWord(s)
    BY DEF DoRead
  <2>2. DoRead(s) /\ ~ Locks(o) => n = 1
    BY <1>2, BodyFacts
  <2>3. QED
    BY <1>1, <2>1, <2>2, AtWordFacts DEF NextWord
<1>6. ASSUME NEW i \in DOMAIN script[s], NEW j \in DOMAIN Body(script[s][i])
      PROVE  Has(s, Body(script[s][i])[j])' <=> i < line'[s] \/ (i = line'[s] /\ j < at'[s])
  <2>0. PICK w : w = Body(script[s][i])[j]
    OBVIOUS
  <2>1. w \in Words
    <3>1. script[s][i] \in Operations
      BY ReaderScript
    <3>2. CASE Locks(script[s][i])
      BY <2>0, <3>1, <3>2, BodyFacts, OperationFacts, WordsKnown
    <3>3. CASE ~ Locks(script[s][i])
      <4>1. DOMAIN Body(script[s][i]) = 1 .. 1 /\ Body(script[s][i])[1] \in Words
        BY <3>1, <3>3, BodyFacts
      <4>2. QED
        BY <2>0, <4>1
    <3>4. QED
      BY <3>2, <3>3
  <2>2. Has(s, w) <=> i < l \/ (i = l /\ j < a)
    BY <1>6, <2>0 DEF ReadSoFar
  <2>3. DoRead(s) => (w = NextWord(s) <=> i = l /\ Reads(j))
    <3>1. ASSUME DoRead(s) PROVE w = NextWord(s) <=> i = l /\ Reads(j)
      <4>. DEFINE b == IF Locks(o) THEN a ELSE 1
      <4>1. b \in DOMAIN Body(o) /\ NextWord(s) = Body(o)[b]
        BY <1>3, <1>5, <3>1
      <4>2. b \in DOMAIN Body(script[s][l]) /\ NextWord(s) = Body(script[s][l])[b]
        BY <1>2, <4>1
      <4>. HIDE DEF b, l, o
      <4>3. w = NextWord(s) => i = l /\ j = b
        BY <1>2, <2>0, <4>2, PlacesApart
      <4>4. i = l /\ j = b => w = NextWord(s)
        BY <2>0, <4>2
      <4>5. QED
        BY <3>1, <4>3, <4>4 DEF b
    <3>2. QED
      BY <3>1
  <2>4. Has(s, w)' <=> Has(s, w) \/ (i = l /\ Reads(j))
    <3>1. CASE DoRead(s)
      BY <2>1, <2>3, <3>1, ReadFacts
    <3>2. CASE ~ DoRead(s)
      <4>1. seen' = seen
        BY <3>2 DEF DoLock, DoUnlock
      <4>2. QED
        BY <3>2, <4>1 DEF Has
    <3>3. QED
      BY <3>1, <3>2
  <2>5. i \in Nat /\ j \in Nat \ {0} /\ (i = l => j \in 1 .. n)
    <3>1. script[s][i] \in Operations /\ i \in Nat
      BY ReaderScript
    <3>2. DOMAIN Body(script[s][i]) = 1 .. Len(Body(script[s][i]))
      BY <3>1, BodyFacts
    <3>3. QED
      BY <1>2, <1>3, <1>6, <3>1, <3>2
  <2>6. (DoLock(s) => Locks(o) /\ a = 0) /\ (DoUnlock(s) => Locks(o) /\ a = n + 1)
    BY DEF DoLock, DoUnlock
  <2>7. ~ DoRead(s) => ~ Reads(j)
    OBVIOUS
  <2>8. Has(s, Body(script[s][i])[j])' <=> Has(s, w)'
    BY <1>4, <2>0 DEF Has
  <2>. HIDE DEF l, n, a
  <2>9. CASE DoRead(s) /\ Locks(o)
    <3>1. line'[s] = l /\ at'[s] = a + 1 /\ (Reads(j) <=> j = a)
      BY <1>3, <1>4, <1>5, <2>9
    <3>. HIDE DEF o, Reads
    <3>2. QED
      BY <1>2, <1>3, <2>2, <2>4, <2>5, <2>8, <3>1
  <2>10. CASE DoRead(s) /\ ~ Locks(o)
    <3>1. line'[s] = l + 1 /\ at'[s] = 0 /\ n = 1 /\ a = 0 /\ (Reads(j) <=> j = 1)
      BY <1>3, <1>4, <1>5, <2>10
    <3>. HIDE DEF o, Reads
    <3>2. QED
      BY <1>2, <1>3, <2>2, <2>4, <2>5, <2>8, <3>1
  <2>11. CASE ~ DoRead(s) /\ DoLock(s)
    <3>1. line'[s] = l /\ at'[s] = 1 /\ a = 0 /\ ~ Reads(j)
      BY <1>3, <1>4, <2>6, <2>11
    <3>. HIDE DEF o, Reads
    <3>2. QED
      BY <1>2, <1>3, <2>2, <2>4, <2>5, <2>8, <3>1
  <2>12. CASE ~ DoRead(s) /\ DoUnlock(s)
    <3>1. line'[s] = l + 1 /\ at'[s] = 0 /\ a = n + 1 /\ ~ Reads(j)
      BY <1>3, <1>4, <2>6, <2>12
    <3>. HIDE DEF o, Reads
    <3>2. QED
      BY <1>2, <1>3, <2>2, <2>4, <2>5, <2>8, <3>1
  <2>13. QED
    BY <2>9, <2>10, <2>11, <2>12
<1>7. QED
  BY <1>4, <1>6 DEF ReadSoFar
\* No more is owed than the script of run adds in all, and nothing when it is over.
LEMMA OwedAtMost ==
  ASSUME PlacesInv, NEW w
  PROVE  Owed(w) <= Comes(script[Loop], w) /\ (Idle(Loop) => Owed(w) = 0)
<1>. DEFINE u == script[Loop]
            l == line[Loop]
<1>1. u \in LoopScripts /\ l \in Nat \ {0} /\ at[Loop] \in Nat
  BY ThreadKinds DEF PlacesInv, ScriptsRight, MTypeOK
<1>2. u \in Seq(Operations) /\ Len(u) \in 0 .. 4 /\ \A i \in 1 .. Len(u) : u[i] \in Operations
  BY <1>1, WriterForms, ElementOfSeq
<1>3. \A o \in Operations : \A k \in Nat : Left(o, k, w) <= Left(o, 0, w)
  <2>1. ASSUME NEW o \in Operations, NEW k \in Nat PROVE Left(o, k, w) <= Left(o, 0, w)
    <3>1. (\E i \in DOMAIN Body(o) : i >= k /\ Body(o)[i] = w) => (\E i \in DOMAIN Body(o) : i >= 0 /\ Body(o)[i] = w)
      BY BodyFacts
    <3>2. Amount(o, w) \in Nat
      BY AmountNat
    <3>3. QED
      BY <3>1, <3>2 DEF Left
  <2>2. QED
    BY <2>1
<1>4. ASSUME NEW i \in 1 .. 4 PROVE LeftAt(i, w) <= Share(u, i, w)
  <2>1. Share(u, i, w) \in Nat
    BY <1>1, ComesNat
  <2>2. CASE i \in l .. Len(u)
    <3>1. i \in 1 .. Len(u)
      BY <1>1, <1>2, <2>2
    <3>2. LeftAt(i, w) = Left(u[i], IF i = l THEN at[Loop] ELSE 0, w) /\ Share(u, i, w) = Left(u[i], 0, w)
      BY <2>2, <3>1 DEF LeftAt, Share
    <3>3. QED
      BY <1>1, <1>2, <1>3, <3>1, <3>2
  <2>3. CASE i \notin l .. Len(u)
    BY <2>1, <2>3 DEF LeftAt
  <2>4. QED
    BY <2>2, <2>3
<1>5. \A i \in 1 .. 4 : LeftAt(i, w) \in Nat /\ Share(u, i, w) \in Nat
  BY <1>1, OwedNat, ComesNat
<1>6. Owed(w) <= Comes(u, w)
  <2>. HIDE DEF u
  <2>1. QED
    BY <1>4, <1>5 DEF Owed, Comes
<1>7. Idle(Loop) => Owed(w) = 0
  <2>1. Idle(Loop) => \A i \in 1 .. 4 : LeftAt(i, w) = 0
    BY <1>1, <1>2 DEF Idle, LeftAt
  <2>2. QED
    BY <2>1 DEF Owed
<1>8. QED
  BY <1>6, <1>7

\* How far the totals can be behind.
LEMMA OwedBounds ==
  ASSUME PlacesInv, BooksInv
  PROVE  /\ Owed(Total("ttft")) + Owed(Total("itl")) <= 1
         /\ Owed(Total("batch")) <= 1
         /\ Owed(Sum("batch")) <= Cardinality(rest)
<1>. DEFINE u == script[Loop]
            f == Total("ttft")
            g == Total("itl")
            b == Total("batch")
            z == Sum("batch")
<1>1. u \in LoopScripts
  BY DEF PlacesInv, ScriptsRight
<1>2. \A w : Owed(w) \in Nat /\ Comes(u, w) \in Nat /\ Owed(w) <= Comes(u, w) /\ (Idle(Loop) => Owed(w) = 0)
  BY <1>1, OwedNat, ComesNat, OwedAtMost
<1>3. rest \in SUBSET Requests
  BY DEF PlacesInv, MTypeOK
<1>4. Cardinality(rest) \in Nat
  BY <1>3, SomeRequests
<1>5. CASE Idle(Loop)
  BY <1>2, <1>4, <1>5
<1>6. CASE ~ Idle(Loop)
  <2>1. Comes(u, f) + Comes(u, g) <= 1 /\ Comes(u, b) <= 1 /\ Comes(u, z) <= Cardinality(rest)
    <3>1. CASE u = <<>>
      <4>1. Len(u) = 0
        BY <3>1
      <4>2. \A w, i : Share(u, i, w) = 0
        BY <4>1 DEF Share
      <4>3. \A w : Comes(u, w) = 0
        BY <4>2 DEF Comes
      <4>4. QED
        BY <1>4, <4>3
    <3>2. CASE u = <<Count("done", 1)>>
      <4>1. PICK v : v = u
        OBVIOUS
      <4>2. Comes(v, f) = 0 /\ Comes(v, g) = 0 /\ Comes(v, b) = 0 /\ Comes(v, z) = 0
        BY <3>2, <4>1, ComesOfFail, WordsApart
      <4>3. QED
        BY <1>4, <4>1, <4>2
    <3>3. CASE \E n \in Nat \ {0} : u = StepWritten(n)
      <4>1. PICK n \in Nat \ {0} : u = StepWritten(n)
        BY <3>3
      <4>2. n = Cardinality(rest)
        BY <1>6, <4>1 DEF BooksInv, StagesRight
      <4>3. PICK v : v = StepWritten(n)
        OBVIOUS
      <4>4. Comes(v, f) = 0 /\ Comes(v, g) = 0 /\ Comes(v, b) = 1 /\ Comes(v, z) = n
        BY <4>3, ComesOfStep, WordsApart
      <4>5. QED
        BY <1>4, <4>1, <4>2, <4>3, <4>4
    <3>4. CASE \E last \in BOOLEAN : u = TokenWritten(TRUE, last)
      <4>1. PICK last \in BOOLEAN : u = TokenWritten(TRUE, last)
        BY <3>4
      <4>2. \A w : Comes(u, w) =
                  IF w = Value("tokens") \/ w \in {Bucket("ttft", BucketOf(Time)), Sum("ttft"), Total("ttft")} THEN 1
                  ELSE IF w = Value("prefill") THEN PromptLen
                  ELSE IF w = Value("done") /\ last THEN 1 ELSE 0
        BY <4>1, ComesOfFirst
      <4>. HIDE DEF u
      <4>3. Comes(u, f) = 1 /\ Comes(u, g) = 0 /\ Comes(u, b) = 0 /\ Comes(u, z) = 0
        BY <4>2, WordsApart
      <4>4. QED
        BY <1>4, <4>3
    <3>5. CASE \E last \in BOOLEAN : u = TokenWritten(FALSE, last)
      <4>1. PICK last \in BOOLEAN : u = TokenWritten(FALSE, last)
        BY <3>5
      <4>2. \A w : Comes(u, w) =
                  IF w = Value("tokens") \/ w \in {Bucket("itl", BucketOf(Time)), Sum("itl"), Total("itl")} THEN 1
                  ELSE IF w = Value("done") /\ last THEN 1 ELSE 0
        BY <4>1, ComesOfNext
      <4>. HIDE DEF u
      <4>3. Comes(u, f) = 0 /\ Comes(u, g) = 1 /\ Comes(u, b) = 0 /\ Comes(u, z) = 0
        BY <4>2, WordsApart
      <4>4. QED
        BY <1>4, <4>3
    <3>6. QED
      BY <1>1, <3>1, <3>2, <3>3, <3>4, <3>5 DEF LoopScripts
  <2>. HIDE DEF u, f, g, b, z
  <2>2. /\ Owed(f) + Owed(g) <= 1 /\ Owed(b) <= 1 /\ Owed(z) <= Cardinality(rest)
    BY <1>2, <1>4, <2>1
  <2>3. QED
    BY <2>2 DEF f, g, b, z
<1>7. QED
  BY <1>5, <1>6

LEMMA TimesMonotone ==
  ASSUME NEW x \in Nat, NEW y \in Nat, NEW k \in Nat, x <= y
  PROVE  k * x \in Nat /\ k * y \in Nat /\ k * x <= k * y
<1>1. PICK d \in Nat : y = x + d
  <2>1. y - x \in Nat /\ y = x + (y - x)
    OBVIOUS
  <2>2. QED
    BY <2>1
<1>2. k * y = k * x + k * d /\ k * d \in Nat /\ k * x \in Nat
  BY <1>1
<1>3. QED
  BY <1>2

\* What the counters say at any moment is explained by the histograms then.
LEMMA WordsExplained ==
  ASSUME PlacesInv, BooksInv
  PROVE  /\ word[Value("tokens")] <= word[Total("ttft")] + word[Total("itl")] + 1
         /\ word[Value("tokens")] <= word[Sum("batch")]
         /\ word[Value("prefill")] <= PromptLen * (word[Total("ttft")] + 1)
         /\ word[Value("steps")] <= word[Total("batch")] + 1
<1>. DEFINE tokens == Value("tokens")
            prefill == Value("prefill")
            steps == Value("steps")
            f == Total("ttft")
            g == Total("itl")
            b == Total("batch")
            z == Sum("batch")
<1>1. /\ tokens \in Words /\ prefill \in Words /\ steps \in Words
      /\ f \in Words /\ g \in Words /\ b \in Words /\ z \in Words
  BY BookWords
<1>2. \A w \in Words : word[w] \in Nat /\ Owed(w) \in Nat /\ Due[w] = word[w] + Owed(w)
  BY OwedNat, DueIs DEF PlacesInv, MTypeOK
<1>3. Owed(f) + Owed(g) <= 1 /\ Owed(b) <= 1 /\ Owed(z) <= Cardinality(rest)
  BY OwedBounds
<1>4. /\ Due[f] + Due[g] = Due[tokens] /\ Due[prefill] = PromptLen * Due[f]
      /\ Due[tokens] + Cardinality(rest) = Due[z] /\ Due[steps] = Due[b]
  BY DEF BooksInv, BooksRight
<1>5. Cardinality(rest) \in Nat /\ PromptLen \in Nat
  BY SomeRequests, MetricsAssumption DEF PlacesInv, MTypeOK
<1>. HIDE DEF tokens, prefill, steps, f, g, b, z
<1>6. word[tokens] <= word[f] + word[g] + 1
  BY <1>1, <1>2, <1>3, <1>4
<1>7. word[tokens] <= word[z]
  BY <1>1, <1>2, <1>3, <1>4, <1>5
<1>8. word[steps] <= word[b] + 1
  BY <1>1, <1>2, <1>3, <1>4
<1>9. word[prefill] <= PromptLen * (word[f] + 1)
  <2>1. Due[f] \in Nat /\ word[f] + 1 \in Nat /\ Due[f] <= word[f] + 1
    BY <1>1, <1>2, <1>3
  <2>2. PromptLen * Due[f] <= PromptLen * (word[f] + 1)
    BY <1>5, <2>1, TimesMonotone
  <2>3. word[prefill] <= Due[prefill]
    BY <1>1, <1>2
  <2>4. word[prefill] \in Nat /\ Due[prefill] \in Nat
    BY <1>1, <1>2
  <2>. DEFINE lhs == PromptLen * Due[f]
              rhs == PromptLen * (word[f] + 1)
  <2>5. lhs \in Nat /\ rhs \in Nat /\ Due[prefill] = lhs /\ lhs <= rhs
    BY <1>4, <1>5, <2>1, <2>2
  <2>. HIDE DEF lhs, rhs
  <2>6. word[prefill] <= rhs
    BY <2>3, <2>4, <2>5
  <2>7. QED
    BY <2>6 DEF rhs
<1>10. QED
  BY <1>6, <1>7, <1>8, <1>9 DEF tokens, prefill, steps, f, g, b, z
LEMMA BodyInWords == \A o \in Operations : \A j \in DOMAIN Body(o) : Body(o)[j] \in Words
<1>. SUFFICES ASSUME NEW o \in Operations, NEW j \in DOMAIN Body(o) PROVE Body(o)[j] \in Words
  OBVIOUS
<1>1. CASE Locks(o)
  BY <1>1, BodyFacts, OperationFacts, WordsKnown
<1>2. CASE ~ Locks(o)
  <2>1. DOMAIN Body(o) = 1 .. 1 /\ Body(o)[1] \in Words
    BY <1>2, BodyFacts
  <2>2. QED
    BY <2>1
<1>3. QED
  BY <1>1, <1>2

LEMMA ShownNat ==
  ASSUME PlacesInv, NEW s \in Scrapers, NEW w \in Words
  PROVE  Shown(s, w) \in Nat /\ word[w] \in Nat /\ (Has(s, w) => seen[s][w] \in Nat)
BY DEF PlacesInv, MTypeOK, Shown, Has

\* What a scrape shows is explained still when the words have grown.
LEMMA ExplainedGrows ==
  ASSUME PlacesInv, NEW s \in Scrapers, ExplainedSoFar(s),
         \A w \in Words : Has(s, w)' <=> Has(s, w),
         \A w \in Words : Has(s, w) => seen'[s][w] = seen[s][w],
         \A w \in Words : word'[w] \in Nat /\ word[w] <= word'[w]
  PROVE  ExplainedSoFar(s)'
<1>1. \A w \in Words : Shown(s, w) \in Nat /\ Shown(s, w)' \in Nat /\ Shown(s, w) <= Shown(s, w)'
  BY ShownNat DEF Shown
<1>2. /\ Has(s, Value("tokens")) => seen[s][Value("tokens")] \in Nat
      /\ Has(s, Value("prefill")) => seen[s][Value("prefill")] \in Nat
      /\ Has(s, Value("steps")) => seen[s][Value("steps")] \in Nat
  BY ShownNat, BookWords
<1>3. ASSUME Has(s, Value("tokens"))'
      PROVE  /\ seen'[s][Value("tokens")] <= Shown(s, Total("ttft"))' + Shown(s, Total("itl"))' + 1
             /\ seen'[s][Value("tokens")] <= Shown(s, Sum("batch"))'
  <2>1. Has(s, Value("tokens")) /\ seen'[s][Value("tokens")] = seen[s][Value("tokens")]
    BY <1>3, BookWords
  <2>2. /\ seen[s][Value("tokens")] <= Shown(s, Total("ttft")) + Shown(s, Total("itl")) + 1
        /\ seen[s][Value("tokens")] <= Shown(s, Sum("batch"))
    BY <2>1 DEF ExplainedSoFar
  <2>3. QED
    BY <1>1, <1>2, <2>1, <2>2, BookWords
<1>4. ASSUME Has(s, Value("prefill"))'
      PROVE  seen'[s][Value("prefill")] <= PromptLen * (Shown(s, Total("ttft"))' + 1)
  <2>1. Has(s, Value("prefill")) /\ seen'[s][Value("prefill")] = seen[s][Value("prefill")]
    BY <1>4, BookWords
  <2>2. seen[s][Value("prefill")] <= PromptLen * (Shown(s, Total("ttft")) + 1)
    BY <2>1 DEF ExplainedSoFar
  <2>. DEFINE x == Shown(s, Total("ttft"))
              y == Shown(s, Total("ttft"))'
  <2>3. x \in Nat /\ y \in Nat /\ x <= y /\ PromptLen \in Nat /\ seen[s][Value("prefill")] \in Nat
    BY <1>1, <1>2, <2>1, BookWords, MetricsAssumption
  <2>4. seen[s][Value("prefill")] <= PromptLen * (x + 1) /\ seen'[s][Value("prefill")] = seen[s][Value("prefill")]
    BY <2>1, <2>2
  <2>5. PICK v : v = seen[s][Value("prefill")]
    OBVIOUS
  <2>6. PICK a, b : a = x /\ b = y
    OBVIOUS
  <2>7. PromptLen * (a + 1) <= PromptLen * (b + 1) /\ PromptLen * (a + 1) \in Nat /\ PromptLen * (b + 1) \in Nat
    <3>1. a + 1 \in Nat /\ b + 1 \in Nat /\ a + 1 <= b + 1 /\ PromptLen \in Nat
      BY <2>3, <2>6
    <3>2. QED
      BY <3>1, TimesMonotone
  <2>8. v <= PromptLen * (b + 1)
    BY <2>3, <2>4, <2>5, <2>6, <2>7
  <2>9. QED
    BY <2>4, <2>5, <2>6, <2>8
<1>5. ASSUME Has(s, Value("steps"))'
      PROVE  seen'[s][Value("steps")] <= Shown(s, Total("batch"))' + 1
  <2>1. Has(s, Value("steps")) /\ seen'[s][Value("steps")] = seen[s][Value("steps")]
    BY <1>5, BookWords
  <2>2. seen[s][Value("steps")] <= Shown(s, Total("batch")) + 1
    BY <2>1 DEF ExplainedSoFar
  <2>3. QED
    BY <1>1, <1>2, <2>1, <2>2, BookWords
<1>6. QED
  BY <1>3, <1>4, <1>5 DEF ExplainedSoFar

\* A scrape that does not move stays right, if no word falls and none that run
\* does not hold changes.
LEMMA ScrapeStays ==
  ASSUME PlacesInv, NEW s \in Scrapers, ScrapeRight(s),
         seen'[s] = seen[s], kind'[s] = kind[s], script'[s] = script[s], line'[s] = line[s], at'[s] = at[s],
         \A w \in Words : word'[w] \in Nat /\ word[w] <= word'[w],
         \A h \in Histograms : mu[h] # Loop => \A w \in HistogramWords(h) : word'[w] = word[w]
  PROVE  ScrapeRight(s)'
<1>1. \A w : Has(s, w)' <=> Has(s, w)
  BY DEF Has
<1>2. ReadSoFar(s)'
  BY <1>1 DEF ScrapeRight, ReadSoFar
<1>3. StillThere(s)'
  <2>1. \A h \in Histograms : Inside(s, h)' <=> Inside(s, h)
    BY DEF Inside, Idle, Now
  <2>2. \A h \in Histograms : Inside(s, h) => mu[h] # Loop
    BY ThreadKinds DEF PlacesInv, MutexRight
  <2>3. QED
    BY <1>1, <2>1, <2>2 DEF ScrapeRight, StillThere
<1>4. ReadsNoMore(s)'
  BY <1>1 DEF ScrapeRight, ReadsNoMore
<1>5. kind'[s] = "prom" => ExplainedSoFar(s)'
  BY <1>1, ExplainedGrows DEF ScrapeRight
<1>6. QED
  BY <1>2, <1>3, <1>4, <1>5 DEF ScrapeRight

LEMMA ScrapeLocks ==
  ASSUME PlacesInv, NEW s \in Scrapers, ScrapeRight(s), DoLock(s)
  PROVE  ScrapeRight(s)'
<1>. DEFINE o == Now(s)
<1>1. /\ ~ Idle(s) /\ Locks(o) /\ at[s] = 0 /\ Goes(s) /\ word' = word /\ seen' = seen /\ s \in Threads
  BY ThreadKinds DEF DoLock
<1>2. kind' = kind /\ \A w : Has(s, w)' <=> Has(s, w)
  BY <1>1, GoesFacts DEF Has
<1>3. ReadSoFar(s)'
  BY ReadSoFarAccess DEF ScrapeRight
<1>4. o \in Operations /\ o.x \in Histograms
  BY <1>1, NowFacts, OperationFacts DEF PlacesInv
<1>5. at[s] <= Len(Body(o))
  BY <1>1, <1>4, BodyFacts
<1>6. \A w \in HistogramWords(o.x) : ~ Has(s, w)
  <2>1. line[s] \in DOMAIN script[s] /\ o = script[s][line[s]] /\ line[s] \in Nat
    <3>1. line[s] \in 1 .. Len(script[s])
      BY <1>1, NowFacts DEF PlacesInv
    <3>2. QED
      BY <3>1, ReaderScript DEF Now
  <2>2. \A j \in DOMAIN Body(o) : Has(s, Body(o)[j]) <=> j < at[s]
    BY <2>1 DEF ScrapeRight, ReadSoFar
  <2>3. \A j \in DOMAIN Body(o) : ~ Has(s, Body(o)[j])
    BY <1>1, <1>4, <2>2, BodyFacts
  <2>4. o.op = "render" \/ (o.op = "mean" /\ kind[s] = "json")
    <3>1. script[s] = IF kind[s] = "none" THEN <<>> ELSE IF kind[s] = "prom" THEN WriteProm ELSE Snapshot
      BY DEF PlacesInv, ScriptsRight
    <3>2. kind[s] \in {"none", "prom", "json"}
      BY DEF PlacesInv, MTypeOK
    <3>3. o.op \in {"render", "mean"}
      BY <1>1, NowFacts DEF Locks, PlacesInv
    <3>4. CASE kind[s] = "none"
      <4>1. script[s] = <<>>
        BY <3>1, <3>4
      <4>2. DOMAIN script[s] = {}
        BY <4>1
      <4>3. QED
        BY <2>1, <4>2
    <3>5. CASE kind[s] = "prom"
      <4>1. script[s] = WriteProm /\ line[s] \in 1 .. 8
        BY <2>1, <3>1, <3>5, ReaderScript, ScriptForms
      <4>2. QED
        BY <2>1, <3>3, <4>1, ReaderForms
    <3>6. QED
      BY <3>2, <3>3, <3>4, <3>5
  <2>5. ASSUME NEW w \in HistogramWords(o.x) PROVE ~ Has(s, w)
    <3>1. CASE o.op = "render"
      <4>1. \A i \in Buckets : i \in DOMAIN Body(o) /\ Body(o)[i] = Bucket(o.x, i)
        BY <1>4, <3>1, BodyFacts, MetricsAssumption DEF Buckets
      <4>2. NumBounds + 2 \in 1 .. NumBounds + 3 /\ NumBounds + 3 \in 1 .. NumBounds + 3
        BY MetricsAssumption
      <4>3. /\ NumBounds + 2 \in DOMAIN Body(o) /\ Body(o)[NumBounds + 2] = Sum(o.x)
            /\ NumBounds + 3 \in DOMAIN Body(o) /\ Body(o)[NumBounds + 3] = Total(o.x)
        BY <1>4, <3>1, <4>2, BodyFacts
      <4>4. QED
        BY <2>3, <4>1, <4>3 DEF HistogramWords
    <3>2. CASE o.op = "mean" /\ kind[s] = "json"
      <4>1. /\ 1 \in DOMAIN Body(o) /\ Body(o)[1] = Sum(o.x)
            /\ 2 \in DOMAIN Body(o) /\ Body(o)[2] = Total(o.x)
        BY <1>4, <3>2, BodyFacts
      <4>2. \A i \in Buckets : ~ Has(s, Bucket(o.x, i))
        BY <1>4, <3>2 DEF ScrapeRight, ReadsNoMore
      <4>3. QED
        BY <2>3, <4>1, <4>2 DEF HistogramWords
    <3>3. QED
      BY <2>4, <3>1, <3>2
  <2>6. QED
    BY <2>5
<1>7. \A h \in Histograms : Inside(s, h)' <=> o.x = h
  BY <1>1, <1>5, GoesKeepsPlaces
<1>8. StillThere(s)'
  BY <1>2, <1>6, <1>7 DEF StillThere
<1>9. ReadsNoMore(s)'
  BY <1>2 DEF ScrapeRight, ReadsNoMore
<1>10. kind'[s] = "prom" => ExplainedSoFar(s)'
  <2>1. \A w \in Words : word[w] \in Nat /\ word[w] <= word[w]
    BY ShownNat
  <2>2. QED
    BY <1>1, <1>2, <2>1, ExplainedGrows DEF ScrapeRight
<1>11. QED
  BY <1>3, <1>8, <1>9, <1>10 DEF ScrapeRight

LEMMA ScrapeUnlocks ==
  ASSUME PlacesInv, NEW s \in Scrapers, ScrapeRight(s), DoUnlock(s)
  PROVE  ScrapeRight(s)'
<1>. DEFINE o == Now(s)
<1>1. /\ ~ Idle(s) /\ at[s] = Len(Body(o)) + 1 /\ Goes(s) /\ word' = word /\ seen' = seen /\ s \in Threads
  BY ThreadKinds DEF DoUnlock
<1>2. kind' = kind /\ \A w : Has(s, w)' <=> Has(s, w)
  BY <1>1, GoesFacts DEF Has
<1>3. ReadSoFar(s)'
  BY ReadSoFarAccess DEF ScrapeRight
<1>4. o \in Operations
  BY <1>1, NowFacts DEF PlacesInv
<1>5. at[s] > Len(Body(o))
  BY <1>1, <1>4, BodyFacts
<1>6. \A h \in Histograms : ~ Inside(s, h)'
  BY <1>1, <1>5, GoesKeepsPlaces
<1>7. StillThere(s)'
  BY <1>6 DEF StillThere
<1>8. ReadsNoMore(s)'
  BY <1>2 DEF ScrapeRight, ReadsNoMore
<1>9. kind'[s] = "prom" => ExplainedSoFar(s)'
  <2>1. \A w \in Words : word[w] \in Nat /\ word[w] <= word[w]
    BY ShownNat
  <2>2. QED
    BY <1>1, <1>2, <2>1, ExplainedGrows DEF ScrapeRight
<1>10. QED
  BY <1>3, <1>7, <1>8, <1>9 DEF ScrapeRight

LEMMA ScrapeBegins ==
  ASSUME PlacesInv, NEW s \in Scrapers, ScrapeRight(s), Scrape(s)
  PROVE  ScrapeRight(s)'
<1>1. PICK k \in {"prom", "json"} :
        kind' = [kind EXCEPT ![s] = k] /\ Begins(s, IF k = "prom" THEN WriteProm ELSE Snapshot)
  BY DEF Scrape
<1>2. PICK what : what = IF k = "prom" THEN WriteProm ELSE Snapshot
  OBVIOUS
<1>3. what \in Seq(Operations) /\ s \in Threads /\ Begins(s, what)
  BY <1>1, <1>2, ScriptForms, ThreadKinds
<1>4. script'[s] = what /\ line'[s] = 1 /\ at'[s] = 0 /\ seen' = seen
  BY <1>3, BeginsKeepsPlaces
<1>5. \A w \in Words : ~ Has(s, w) /\ ~ Has(s, w)'
  BY <1>4 DEF Scrape, ScrapeRight, ReadsNoMore, Has
<1>6. kind'[s] = k
  BY <1>1 DEF PlacesInv, MTypeOK
<1>7. ReadSoFar(s)'
  <2>1. ASSUME NEW i \in DOMAIN what, NEW j \in DOMAIN Body(what[i])
        PROVE  Body(what[i])[j] \in Words /\ ~ (i < 1 \/ (i = 1 /\ j < 0))
    <3>1. i \in 1 .. Len(what) /\ Len(what) \in Nat
      BY <1>3, LenProperties
    <3>2. what[i] \in Operations
      BY <1>3, <3>1, ElementOfSeq
    <3>3. j \in 1 .. Len(Body(what[i])) /\ Len(Body(what[i])) \in Nat
      BY <3>2, BodyFacts
    <3>4. QED
      BY <3>1, <3>2, <3>3, BodyInWords
  <2>2. ASSUME NEW i \in DOMAIN what, NEW j \in DOMAIN Body(what[i])
        PROVE  ~ Has(s, Body(what[i])[j])'
    <3>1. PICK w \in Words : w = Body(what[i])[j]
      BY <2>1
    <3>2. QED
      BY <1>5, <3>1 DEF Has
  <2>3. QED
    BY <1>4, <2>1, <2>2 DEF ReadSoFar
<1>8. \A h \in Histograms : ~ Inside(s, h)'
  BY <1>4 DEF Inside
<1>9. StillThere(s)'
  BY <1>8 DEF StillThere
<1>10. ReadsNoMore(s)'
  BY <1>5, <1>6, WordsKnown DEF ReadsNoMore
<1>11. ExplainedSoFar(s)'
  BY <1>5, BookWords DEF ExplainedSoFar
<1>12. QED
  BY <1>7, <1>9, <1>10, <1>11 DEF ScrapeRight
\* What a scrape of /metrics has not read when it reads a counter.
LEMMA CountersFirst ==
  ASSUME PlacesInv, NEW s \in Scrapers, ReadSoFar(s), kind[s] = "prom", AtWord(s),
         NEW c \in Counters, NextWord(s) = Value(c)
  PROVE  \A h \in Histograms : ~ Has(s, Total(h)) /\ ~ Has(s, Sum(h))
<1>. DEFINE o == Now(s)
            l == line[s]
<1>1. s \in Threads /\ ~ Idle(s) /\ o \in Operations /\ ~ Locks(o)
  <2>1. s \in Threads /\ ~ Idle(s) /\ o \in Operations
    BY AtWordFacts, ThreadKinds
  <2>2. CASE Locks(o)
    BY <2>1, <2>2, AtWordFacts, WordsKnown
  <2>3. QED
    BY <2>1, <2>2
<1>2. script[s] = WriteProm
  BY DEF PlacesInv, ScriptsRight
<1>3. l \in 1 .. 8 /\ o = WriteProm[l]
  BY <1>1, <1>2, NowFacts, ScriptForms DEF PlacesInv, Now
<1>4. l \in Nat /\ l <= 5
  <2>1. o.op # "render"
    BY <1>1 DEF Locks
  <2>2. QED
    BY <1>3, <2>1, ReaderForms
<1>5. \A h \in Histograms : \E i \in 6 .. 8 : WriteProm[i] = Render(h)
  <2>1. WriteProm[6] = Render("ttft") /\ WriteProm[7] = Render("itl") /\ WriteProm[8] = Render("batch")
    BY DEF WriteProm
  <2>2. QED
    BY <2>1 DEF Histograms
<1>6. ASSUME NEW h \in Histograms PROVE ~ Has(s, Total(h)) /\ ~ Has(s, Sum(h))
  <2>1. PICK i \in 6 .. 8 : WriteProm[i] = Render(h)
    BY <1>5
  <2>2. i \in DOMAIN script[s] /\ script[s][i] = Render(h)
    BY <1>2, <2>1, ReaderScript, ScriptForms
  <2>3. ~ i < l /\ i # l
    BY <1>4, <2>1
  <2>4. \A j \in DOMAIN Body(Render(h)) : ~ Has(s, Body(Render(h))[j])
    BY <2>2, <2>3 DEF ReadSoFar
  <2>5. Render(h) \in Operations /\ Render(h).op = "render" /\ Render(h).x = h
    BY DEF Render, Operation, Operations
  <2>6. NumBounds + 2 \in 1 .. NumBounds + 3 /\ NumBounds + 3 \in 1 .. NumBounds + 3
    BY MetricsAssumption
  <2>7. PICK r \in Operations : r = Render(h)
    BY <2>5
  <2>8. /\ NumBounds + 2 \in DOMAIN Body(r) /\ Body(r)[NumBounds + 2] = Sum(h)
        /\ NumBounds + 3 \in DOMAIN Body(r) /\ Body(r)[NumBounds + 3] = Total(h)
    BY <2>5, <2>6, <2>7, BodyFacts
  <2>9. QED
    BY <2>4, <2>7, <2>8
<1>7. QED
  BY <1>6

LEMMA ScrapeReads ==
  ASSUME PlacesInv, BooksInv, NEW s \in Scrapers, ScrapeRight(s), DoRead(s)
  PROVE  ScrapeRight(s)'
<1>. DEFINE x == NextWord(s)
<1>1. ReadSoFar(s) /\ s \in Threads
  BY ThreadKinds DEF ScrapeRight
<1>2. /\ AtWord(s) /\ x \in Words /\ ~ Has(s, x)
      /\ word' = word /\ mu' = mu /\ kind' = kind /\ script' = script
      /\ \A w \in Words : seen'[s][w] = IF w = x THEN word[w] ELSE seen[s][w]
      /\ \A w \in Words : Has(s, w)' <=> Has(s, w) \/ w = x
      /\ \A w \in Words : Shown(s, w)' = Shown(s, w)
  BY <1>1, ReadFacts
<1>3. ReadSoFar(s)'
  BY <1>1, ReadSoFarAccess
<1>4. \A h \in Histograms : Inside(s, h)' <=> Inside(s, h)
  <2>1. word' \in [Words -> Nat]
    BY <1>2 DEF PlacesInv, MTypeOK
  <2>2. seen' \in [Scrapers -> [Words -> Nat \cup {Unread}]]
    BY <1>2 DEF DoRead, PlacesInv, MTypeOK
  <2>3. QED
    BY <1>1, <1>2, <2>1, <2>2, PlacesAtWord DEF DoRead
<1>. HIDE DEF x
<1>5. StillThere(s)'
  <2>1. ASSUME NEW h \in Histograms, Inside(s, h), NEW w \in HistogramWords(h), Has(s, w)'
        PROVE  seen'[s][w] = word'[w]
    <3>1. w \in Words
      BY WordsKnown
    <3>2. QED
      BY <1>2, <2>1, <3>1 DEF ScrapeRight, StillThere
  <2>2. QED
    BY <1>4, <2>1 DEF StillThere
<1>6. ReadsNoMore(s)'
  <2>1. kind[s] # "none"
    <3>1. ASSUME kind[s] = "none" PROVE FALSE
      <4>1. script[s] = <<>>
        BY <3>1 DEF PlacesInv, ScriptsRight
      <4>2. Len(script[s]) = 0 /\ ~ Idle(s)
        BY <1>2, <4>1 DEF AtWord
      <4>3. line[s] \in Nat \ {0}
        BY <1>1 DEF PlacesInv, MTypeOK
      <4>4. QED
        BY <4>2, <4>3 DEF Idle
    <3>2. QED
      BY <3>1
  <2>2. ASSUME kind[s] = "json", NEW h \in Histograms, NEW i \in Buckets PROVE ~ Has(s, Bucket(h, i))'
    <3>1. x # Bucket(h, i)
      <4>1. Now(s).op \in {"mean", "load"}
        <5>1. script[s] = Snapshot
          BY <2>2 DEF PlacesInv, ScriptsRight
        <5>2. line[s] \in 1 .. 8 /\ Now(s) = Snapshot[line[s]]
          BY <1>1, <1>2, <5>1, NowFacts, ScriptForms DEF AtWord, PlacesInv, Now
        <5>3. QED
          BY <5>2, ReaderForms
      <4>2. CASE ~ Locks(Now(s))
        <5>1. x = Value(Now(s).x)
          BY <1>1, <1>2, <4>2, AtWordFacts DEF x
        <5>2. QED
          BY <5>1, WordsApart
      <4>3. CASE Locks(Now(s))
        <5>1. /\ Now(s) \in Operations /\ Now(s).op = "mean"
              /\ at[s] \in 1 .. Len(Body(Now(s))) /\ x = Body(Now(s))[at[s]]
          BY <1>1, <1>2, <4>1, <4>3, AtWordFacts DEF x, Locks
        <5>2. at[s] \in 1 .. 2 /\ Body(Now(s))[1] = Sum(Now(s).x) /\ Body(Now(s))[2] = Total(Now(s).x)
          BY <5>1, BodyFacts
        <5>3. x = Sum(Now(s).x) \/ x = Total(Now(s).x)
          BY <5>1, <5>2
        <5>4. QED
          BY <5>3, WordsApart
      <4>4. QED
        BY <4>2, <4>3
    <3>2. QED
      BY <1>2, <2>2, <3>1, WordsKnown DEF ScrapeRight, ReadsNoMore
  <2>3. QED
    BY <1>2, <2>1, <2>2 DEF ReadsNoMore
<1>7. ASSUME kind[s] = "prom" PROVE ExplainedSoFar(s)'
  <2>1. ExplainedSoFar(s)
    BY <1>7 DEF ScrapeRight
  <2>2. /\ Shown(s, Total("ttft"))' = Shown(s, Total("ttft")) /\ Shown(s, Total("itl"))' = Shown(s, Total("itl"))
        /\ Shown(s, Total("batch"))' = Shown(s, Total("batch")) /\ Shown(s, Sum("batch"))' = Shown(s, Sum("batch"))
    BY <1>2, BookWords
  <2>3. ASSUME NEW c \in Counters, x = Value(c)
        PROVE  \A h \in Histograms : Shown(s, Total(h)) = word[Total(h)] /\ Shown(s, Sum(h)) = word[Sum(h)]
    BY <1>1, <1>2, <1>7, <2>3, CountersFirst DEF Shown, x
  <2>4. ASSUME Has(s, Value("tokens"))'
        PROVE  /\ seen'[s][Value("tokens")] <= Shown(s, Total("ttft")) + Shown(s, Total("itl")) + 1
               /\ seen'[s][Value("tokens")] <= Shown(s, Sum("batch"))
    <3>1. CASE x = Value("tokens")
      BY <1>2, <2>3, <3>1, BookWords, WordsExplained DEF Counters, Histograms
    <3>2. CASE x # Value("tokens")
      BY <1>2, <2>1, <2>4, <3>2, BookWords DEF ExplainedSoFar
    <3>3. QED
      BY <3>1, <3>2
  <2>5. ASSUME Has(s, Value("prefill"))'
        PROVE  seen'[s][Value("prefill")] <= PromptLen * (Shown(s, Total("ttft")) + 1)
    <3>1. CASE x = Value("prefill")
      BY <1>2, <2>3, <3>1, BookWords, WordsExplained DEF Counters, Histograms
    <3>2. CASE x # Value("prefill")
      BY <1>2, <2>1, <2>5, <3>2, BookWords DEF ExplainedSoFar
    <3>3. QED
      BY <3>1, <3>2
  <2>6. ASSUME Has(s, Value("steps"))'
        PROVE  seen'[s][Value("steps")] <= Shown(s, Total("batch")) + 1
    <3>1. CASE x = Value("steps")
      BY <1>2, <2>3, <3>1, BookWords, WordsExplained DEF Counters, Histograms
    <3>2. CASE x # Value("steps")
      BY <1>2, <2>1, <2>6, <3>2, BookWords DEF ExplainedSoFar
    <3>3. QED
      BY <3>1, <3>2
  <2>7. QED
    BY <2>2, <2>4, <2>5, <2>6 DEF ExplainedSoFar
<1>8. QED
  BY <1>2, <1>3, <1>5, <1>6, <1>7 DEF ScrapeRight

\* What anybody's access does to the words.
LEMMA WordsGrow ==
  ASSUME PlacesInv, NEW t \in Threads,
         (t \in Scrapers /\ DoRead(t)) \/ DoAdd(t) \/ DoLock(t) \/ DoUnlock(t)
  PROVE  /\ \A w \in Words : word'[w] \in Nat /\ word[w] <= word'[w]
         /\ \A h \in Histograms : mu[h] # Loop => \A w \in HistogramWords(h) : word'[w] = word[w]
<1>1. word \in [Words -> Nat]
  BY DEF PlacesInv, MTypeOK
<1>2. CASE DoAdd(t)
  <2>1. AtWord(t) /\ word' = [word EXCEPT ![NextWord(t)] = @ + Amount(Now(t), NextWord(t))]
    BY <1>2 DEF DoAdd
  <2>2. NextWord(t) \in Words /\ Now(t) \in Operations
    BY <2>1, AtWordFacts
  <2>3. PICK n \in Nat : n = Amount(Now(t), NextWord(t))
    BY <2>2, AmountNat
  <2>4. \A w \in Words : word'[w] \in Nat /\ word[w] <= word'[w]
    BY <1>1, <2>1, <2>2, <2>3
  <2>5. QED
    BY <1>2, <2>4, AddsToHistogram
<1>3. CASE ~ DoAdd(t)
  <2>1. word' = word
    BY <1>3 DEF DoRead, DoLock, DoUnlock
  <2>2. QED
    BY <1>1, <2>1
<1>4. QED
  BY <1>2, <1>3

LEMMA ScrapesAccess ==
  ASSUME PlacesInv, BooksInv, ScrapesInv, NEW t \in Threads,
         (t \in Scrapers /\ DoRead(t)) \/ DoAdd(t) \/ DoLock(t) \/ DoUnlock(t)
  PROVE  ScrapesInv'
<1>1. ~ Idle(t) /\ Goes(t)
  BY DEF DoLock, DoUnlock, DoRead, DoAdd, AtWord
<1>2. ASSUME NEW s \in Scrapers PROVE ScrapeRight(s)'
  <2>1. ScrapeRight(s)
    BY DEF ScrapesInv
  <2>2. CASE s # t
    <3>1. script'[s] = script[s] /\ kind'[s] = kind[s] /\ line'[s] = line[s] /\ at'[s] = at[s]
      BY <1>1, <2>2, GoesFacts, ThreadKinds
    <3>2. seen'[s] = seen[s]
      <4>1. CASE t \in Scrapers /\ DoRead(t)
        BY <2>2, <4>1 DEF DoRead, PlacesInv, MTypeOK
      <4>2. CASE ~ (t \in Scrapers /\ DoRead(t))
        BY <4>2 DEF DoAdd, DoLock, DoUnlock
      <4>3. QED
        BY <4>1, <4>2
    <3>3. QED
      BY <2>1, <3>1, <3>2, WordsGrow, ScrapeStays
  <2>3. CASE s = t
    <3>1. ~ DoAdd(s)
      BY <1>1, <2>3, NowFacts DEF DoAdd, PlacesInv
    <3>2. QED
      BY <2>1, <2>3, <3>1, ScrapeReads, ScrapeLocks, ScrapeUnlocks
  <2>4. QED
    BY <2>2, <2>3
<1>3. QED
  BY <1>2 DEF ScrapesInv

\* The start of a script of another goroutine.
LEMMA ScrapesBegin ==
  ASSUME PlacesInv, ScrapesInv, NEW t \in Threads, NEW what \in Seq(Operations), Begins(t, what),
         NEW s \in Scrapers, s # t, kind'[s] = kind[s]
  PROVE  ScrapeRight(s)'
<1>1. /\ s \in Threads /\ script'[s] = script[s] /\ line'[s] = line[s] /\ at'[s] = at[s]
      /\ seen'[s] = seen[s] /\ word' = word
  BY BeginsKeepsPlaces, ThreadKinds
<1>2. \A w \in Words : word'[w] \in Nat /\ word[w] <= word'[w]
  BY <1>1, ShownNat
<1>3. QED
  BY <1>1, <1>2, ScrapeStays DEF ScrapesInv

LEMMA ScrapesNext == PlacesInv /\ BooksInv /\ ScrapesInv /\ [MNext]_mVars => ScrapesInv'
<1>. SUFFICES ASSUME PlacesInv, BooksInv, ScrapesInv, [MNext]_mVars PROVE ScrapesInv'
  OBVIOUS
<1>1. ASSUME NEW r \in Requests, Submit(r) PROVE ScrapesInv'
  <2>1. Begins(r, <<Count("total", 1)>>) /\ kind' = kind
    BY <1>1 DEF Submit
  <2>2. <<Count("total", 1)>> \in Seq(Operations) /\ r \in Threads
    BY ScriptForms, ThreadKinds
  <2>3. \A s \in Scrapers : ScrapeRight(s)'
    BY <2>1, <2>2, ThreadKinds, ScrapesBegin
  <2>4. QED
    BY <2>3 DEF ScrapesInv
<1>2. ASSUME NEW r \in Requests, NextToken(r) PROVE ScrapesInv'
  <2>1. PICK last \in BOOLEAN : Begins(Loop, TokenWritten(stage[r] = "taken", last))
    BY <1>2, NextTokenFacts
  <2>2. PICK first \in BOOLEAN : first = (stage[r] = "taken")
    OBVIOUS
  <2>3. PICK what : what = TokenWritten(first, last)
    OBVIOUS
  <2>4. what \in Seq(Operations) /\ Begins(Loop, what) /\ kind' = kind
    BY <1>2, <2>1, <2>2, <2>3, BegunScripts, NextTokenFacts
  <2>5. \A s \in Scrapers : ScrapeRight(s)'
    BY <2>4, ThreadKinds, ScrapesBegin
  <2>6. QED
    BY <2>5 DEF ScrapesInv
<1>3. ASSUME NEW r \in Requests, FailRequest(r) PROVE ScrapesInv'
  <2>1. Begins(Loop, <<Count("done", 1)>>) /\ kind' = kind /\ <<Count("done", 1)>> \in Seq(Operations)
    BY <1>3, FailFacts, ScriptForms
  <2>2. \A s \in Scrapers : ScrapeRight(s)'
    BY <2>1, ThreadKinds, ScrapesBegin
  <2>3. QED
    BY <2>2 DEF ScrapesInv
<1>4. CASE Step
  <2>1. PICK what : what = StepWritten(Cardinality(rest'))
    OBVIOUS
  <2>2. what \in Seq(Operations) /\ Begins(Loop, what) /\ kind' = kind
    BY <1>4, <2>1, StepFacts, BegunScripts
  <2>3. \A s \in Scrapers : ScrapeRight(s)'
    BY <2>2, ThreadKinds, ScrapesBegin
  <2>4. QED
    BY <2>3 DEF ScrapesInv
<1>5. ASSUME NEW q \in Scrapers, Scrape(q) PROVE ScrapesInv'
  <2>1. PICK k \in {"prom", "json"} :
          kind' = [kind EXCEPT ![q] = k] /\ Begins(q, IF k = "prom" THEN WriteProm ELSE Snapshot)
    BY <1>5 DEF Scrape
  <2>2. PICK what : what = IF k = "prom" THEN WriteProm ELSE Snapshot
    OBVIOUS
  <2>3. what \in Seq(Operations) /\ Begins(q, what) /\ q \in Threads
    BY <2>1, <2>2, ScriptForms, ThreadKinds
  <2>4. \A s \in Scrapers \ {q} : kind'[s] = kind[s]
    BY <2>1 DEF PlacesInv, MTypeOK
  <2>5. \A s \in Scrapers \ {q} : ScrapeRight(s)'
    BY <2>3, <2>4, ScrapesBegin
  <2>6. ScrapeRight(q)'
    BY <1>5, ScrapeBegins DEF ScrapesInv
  <2>7. QED
    BY <2>5, <2>6 DEF ScrapesInv
<1>6. CASE \E t \in Threads : (t \in Scrapers /\ DoRead(t)) \/ DoAdd(t) \/ DoLock(t) \/ DoUnlock(t)
  BY <1>6, ScrapesAccess
<1>7. CASE UNCHANGED mVars
  <2>1. \A w \in Words : word'[w] \in Nat /\ word[w] <= word'[w]
    BY <1>7, ShownNat DEF mVars, PlacesInv, MTypeOK
  <2>2. \A s \in Scrapers : ScrapeRight(s)'
    BY <1>7, <2>1, ScrapeStays DEF mVars, ScrapesInv
  <2>3. QED
    BY <2>2 DEF ScrapesInv
<1>8. QED
  BY <1>1, <1>2, <1>3, <1>4, <1>5, <1>6, <1>7, ThreadKinds DEF MNext, Rests

LEMMA ScrapesInit == MInit => ScrapesInv
<1>. SUFFICES ASSUME MInit, NEW s \in Scrapers PROVE ScrapeRight(s)
  BY DEF ScrapesInv
<1>1. /\ script[s] = <<>> /\ line[s] = 1 /\ kind[s] = "none"
      /\ \A w \in Words : ~ Has(s, w)
  BY ThreadKinds DEF MInit, Has
<1>2. Idle(s)
  BY <1>1 DEF Idle
<1>3. ReadSoFar(s)
  BY <1>1 DEF ReadSoFar
<1>4. StillThere(s)
  BY <1>2 DEF StillThere, Inside
<1>5. QED
  BY <1>1, <1>3, <1>4 DEF ScrapeRight, ReadsNoMore
-----------------------------------------------------------------------------
(* The histograms that scrapes show. *)

LEMMA WholeSame ==
  ASSUME NEW u, NEW v, NEW h \in Histograms, Whole(v, h), \A w \in HistogramWords(h) : u[w] = v[w]
  PROVE  Whole(u, h)
<1>1. u[Total(h)] = v[Total(h)] /\ u[Sum(h)] = v[Sum(h)] /\ \A i \in Buckets : u[Bucket(h, i)] = v[Bucket(h, i)]
  BY WordsKnown
<1>2. Observed(u, h) = Observed(v, h) /\ Worth(u, h) = Worth(v, h)
  BY <1>1 DEF Observed, Worth
<1>3. NumBounds + 1 \in Buckets
  BY MetricsAssumption DEF Buckets
<1>4. QED
  BY <1>1, <1>2, <1>3 DEF Whole

\* What a scrape shows of one histogram.
WholeIn(s, h) ==
  Has(s, Total(h)) => /\ Together(seen[s], h)
                      /\ kind[s] = "prom" => Whole(seen[s], h)

\* A read of a word of a histogram is the last one, or its total is not read yet.
LEMMA WholeReads ==
  ASSUME PlacesInv, HistogramsInv, HistogramsWhole,
         NEW s \in Scrapers, ScrapeRight(s), DoRead(s), NEW h \in Histograms
  PROVE  WholeIn(s, h)'
<1>. DEFINE x == NextWord(s)
            o == Now(s)
            n == Len(Body(o))
<1>1. ReadSoFar(s) /\ s \in Threads
  BY ThreadKinds DEF ScrapeRight
<1>2. /\ AtWord(s) /\ x \in Words /\ kind' = kind
      /\ \A w \in Words : seen'[s][w] = IF w = x THEN word[w] ELSE seen[s][w]
      /\ \A w \in Words : Has(s, w)' <=> Has(s, w) \/ w = x
  BY <1>1, ReadFacts
<1>3. WholeIn(s, h)
  BY DEF HistogramsWhole, WholeIn
<1>4. Total(h) \in Words /\ Sum(h) \in Words /\ HistogramWords(h) \subseteq Words
      /\ Total(h) \in HistogramWords(h) /\ Sum(h) \in HistogramWords(h)
  BY WordsKnown
<1>5. CASE x \notin HistogramWords(h)
  <2>. HIDE DEF x
  <2>1. \A w \in HistogramWords(h) : seen'[s][w] = seen[s][w]
    BY <1>2, <1>4, <1>5
  <2>2. Has(s, Total(h))' <=> Has(s, Total(h))
    BY <1>2, <1>4, <1>5
  <2>3. ASSUME Has(s, Total(h))' PROVE Together(seen'[s], h)
    BY <1>3, <1>4, <2>1, <2>2, <2>3 DEF WholeIn, Together
  <2>4. ASSUME Has(s, Total(h))', kind'[s] = "prom" PROVE Whole(seen'[s], h)
    <3>1. Whole(seen[s], h)
      BY <1>2, <1>3, <2>2, <2>4 DEF WholeIn
    <3>2. PICK u, v : u = seen'[s] /\ v = seen[s]
      OBVIOUS
    <3>3. Whole(u, h)
      BY <2>1, <3>1, <3>2, WholeSame
    <3>4. QED
      BY <3>2, <3>3
  <2>5. QED
    BY <2>3, <2>4 DEF WholeIn
<1>6. CASE x \in HistogramWords(h)
  <2>1. ~ Idle(s) /\ o \in Operations /\ Locks(o)
    BY <1>1, <1>2, <1>6, AtWordFacts, WordsKnown
  <2>2. /\ at[s] \in 1 .. n /\ x = Body(o)[at[s]] /\ Inside(s, o.x) /\ mu[o.x] = s /\ o.x \in Histograms
    BY <1>1, <1>2, <2>1, AtWordFacts
  <2>3. n \in Nat /\ DOMAIN Body(o) = 1 .. n /\ at[s] \in DOMAIN Body(o)
    BY <2>1, <2>2, BodyFacts
  <2>4. o.x = h
    <3>1. x[1] = o.x
      BY <2>1, <2>2, <2>3, WordOf
    <3>2. x[1] = h
      BY <1>6 DEF HistogramWords, Bucket, Sum, Total
    <3>3. QED
      BY <3>1, <3>2
  <2>5. Inside(s, h) /\ HistogramOK(word, h)
    BY <2>2, <2>4, ThreadKinds DEF HistogramsInv
  <2>6. n >= 2 /\ Body(o)[n] = Total(h) /\ Body(o)[n - 1] = Sum(h)
    BY <2>1, <2>4, WordOf
  <2>7. line[s] \in DOMAIN script[s] /\ o = script[s][line[s]] /\ line[s] \in Nat
    <3>1. line[s] \in 1 .. Len(script[s])
      BY <1>1, <2>1, NowFacts DEF PlacesInv
    <3>2. QED
      BY <3>1, ReaderScript DEF Now
  <2>8. \A j \in DOMAIN Body(o) : Has(s, Body(o)[j]) <=> j < at[s]
    BY <1>1, <2>7 DEF ReadSoFar
  <2>9. ASSUME NEW j \in DOMAIN Body(o), at[s] = n
        PROVE  seen'[s][Body(o)[j]] = word[Body(o)[j]]
    <3>1. PICK w : w = Body(o)[j]
      OBVIOUS
    <3>2. w \in HistogramWords(h) /\ w \in Words
      BY <1>4, <2>1, <2>4, <3>1, BodyFacts
    <3>3. CASE j = n
      BY <1>2, <2>2, <2>9, <3>1, <3>2, <3>3
    <3>4. CASE j # n
      <4>1. j < at[s]
        BY <2>3, <2>9, <3>4
      <4>2. Has(s, w)
        BY <2>8, <3>1, <4>1
      <4>3. seen[s][w] = word[w]
        BY <2>5, <3>2, <4>2 DEF ScrapeRight, StillThere
      <4>4. QED
        BY <1>2, <3>1, <3>2, <4>3
    <3>5. QED
      BY <3>3, <3>4
  <2>10. Has(s, Total(h))' => at[s] = n
    <3>1. ASSUME Has(s, Total(h))' PROVE at[s] = n
      <4>1. n \in DOMAIN Body(o)
        BY <2>3, <2>6
      <4>2. CASE Has(s, Total(h))
        <5>1. n < at[s]
          BY <2>6, <2>8, <4>1, <4>2
        <5>2. QED
          BY <2>2, <2>3, <5>1
      <4>3. CASE Total(h) = x
        BY <2>1, <2>2, <2>3, <2>6, <4>1, <4>3, BodyFacts
      <4>4. QED
        BY <1>2, <1>4, <3>1, <4>2, <4>3
    <3>2. QED
      BY <3>1
  <2>11. ASSUME Has(s, Total(h))' PROVE Together(seen'[s], h)
    <3>1. n \in DOMAIN Body(o) /\ n - 1 \in DOMAIN Body(o)
      BY <2>3, <2>6
    <3>2. seen'[s][Total(h)] = word[Total(h)] /\ seen'[s][Sum(h)] = word[Sum(h)]
      BY <2>6, <2>9, <2>10, <2>11, <3>1
    <3>3. QED
      BY <2>5, <3>2 DEF HistogramOK, Together
  <2>12. ASSUME Has(s, Total(h))', kind[s] = "prom" PROVE Whole(seen'[s], h)
    <3>1. o.op = "render"
      <4>1. script[s] = WriteProm
        BY <2>12 DEF PlacesInv, ScriptsRight
      <4>2. line[s] \in 1 .. 8
        BY <2>7, <4>1, ReaderScript, ScriptForms
      <4>3. QED
        BY <2>1, <2>7, <4>1, <4>2, ReaderForms DEF Locks
    <3>2. n = NumBounds + 3 /\ \A i \in Buckets : Body(o)[i] = Bucket(h, i)
      BY <2>1, <2>4, <3>1, BodyFacts
    <3>3. \A i \in Buckets : i \in DOMAIN Body(o)
      BY <2>3, <3>2, MetricsAssumption DEF Buckets
    <3>4. n \in DOMAIN Body(o) /\ n - 1 \in DOMAIN Body(o)
      BY <2>3, <2>6
    <3>5. \A w \in HistogramWords(h) : \E j \in DOMAIN Body(o) : w = Body(o)[j]
      BY <2>6, <3>2, <3>3, <3>4 DEF HistogramWords
    <3>6. PICK u : u = seen'[s]
      OBVIOUS
    <3>7. \A w \in HistogramWords(h) : u[w] = word[w]
      BY <2>9, <2>10, <2>12, <3>5, <3>6
    <3>8. Whole(word, h)
      BY <2>5 DEF HistogramOK
    <3>9. Whole(u, h)
      BY <3>7, <3>8, WholeSame
    <3>10. QED
      BY <3>6, <3>9
  <2>13. QED
    BY <1>2, <2>11, <2>12 DEF WholeIn
<1>7. QED
  BY <1>5, <1>6

LEMMA WholeNext ==
  PlacesInv /\ HistogramsInv /\ ScrapesInv /\ HistogramsWhole /\ [MNext]_mVars => HistogramsWhole'
<1>. SUFFICES ASSUME PlacesInv, HistogramsInv, ScrapesInv, HistogramsWhole, [MNext]_mVars,
                     NEW s \in Scrapers, NEW h \in Histograms
              PROVE  WholeIn(s, h)'
  BY DEF HistogramsWhole, WholeIn
<1>1. WholeIn(s, h)
  BY DEF HistogramsWhole, WholeIn
<1>2. ASSUME seen'[s] = seen[s], kind'[s] = kind[s] PROVE WholeIn(s, h)'
  BY <1>1, <1>2 DEF WholeIn, Has
<1>3. ASSUME NEW q \in Scrapers, DoRead(q) PROVE WholeIn(s, h)'
  <2>1. CASE q = s
    BY <1>3, <2>1, WholeReads DEF ScrapesInv
  <2>2. CASE q # s
    <3>1. seen'[s] = seen[s] /\ kind' = kind
      BY <1>3, <2>2, ReadFacts DEF ScrapesInv, ScrapeRight
    <3>2. QED
      BY <1>2, <3>1
  <2>3. QED
    BY <2>1, <2>2
<1>4. ASSUME NEW q \in Scrapers, Scrape(q) PROVE WholeIn(s, h)'
  <2>1. PICK k \in {"prom", "json"} : kind' = [kind EXCEPT ![q] = k] /\ seen' = seen
    BY <1>4 DEF Scrape, Begins
  <2>2. CASE q = s
    <3>1. \A w \in Words : ~ Has(s, w)
      BY <1>4, <2>2 DEF ScrapesInv, ScrapeRight, ReadsNoMore, Scrape
    <3>2. ~ Has(s, Total(h))
      BY <3>1, WordsKnown
    <3>3. ~ Has(s, Total(h))'
      BY <2>1, <3>2 DEF Has
    <3>4. QED
      BY <3>3 DEF WholeIn
  <2>3. CASE q # s
    BY <1>2, <2>1, <2>3 DEF PlacesInv, MTypeOK
  <2>4. QED
    BY <2>2, <2>3
<1>5. CASE \E r \in Requests : Submit(r) \/ NextToken(r) \/ FailRequest(r)
  BY <1>2, <1>5 DEF Submit, NextToken, FailRequest, Begins
<1>6. CASE Step
  BY <1>2, <1>6 DEF Step, Begins
<1>7. CASE \E t \in Threads : DoAdd(t) \/ DoLock(t) \/ DoUnlock(t)
  BY <1>2, <1>7 DEF DoAdd, DoLock, DoUnlock, Goes
<1>8. CASE UNCHANGED mVars
  BY <1>2, <1>8 DEF mVars
<1>9. QED
  BY <1>3, <1>4, <1>5, <1>6, <1>7, <1>8 DEF MNext, Rests

-----------------------------------------------------------------------------
(* The theorems. *)

LEMMA MetricsInvInductive == MSpec => []MetricsInv
<1>1. MInit => MetricsInv
  <2>1. MInit => HistogramsWhole
    <3>1. MInit => \A s \in Scrapers, h \in Histograms : ~ Has(s, Total(h))
      BY WordsKnown DEF MInit, Has
    <3>2. QED
      BY <3>1 DEF HistogramsWhole
  <2>2. QED
    BY <2>1, PlacesInit, BooksInit, HistogramsInit, ScrapesInit DEF MetricsInv
<1>2. MetricsInv /\ [MNext]_mVars => MetricsInv'
  BY PlacesNext, BooksNext, HistogramsNext, ScrapesNext, WholeNext DEF MetricsInv, BooksInv
<1>3. QED
  BY <1>1, <1>2, PTL DEF MSpec

\* A histogram is shown as it was at one moment: Observe, WriteProm's hist and
\* Snapshot all hold its mutex, from the first of its words to the last.
THEOREM ScrapesShowMoments == MSpec => []HistogramsWhole
<1>1. MetricsInv => HistogramsWhole
  BY DEF MetricsInv
<1>2. QED
  BY <1>1, MetricsInvInductive, PTL

\* A scrape of /metrics explains its counters, since WriteProm reads them first
\* and run counts an event at most one operation before it observes it.
THEOREM ScrapesExplainCounters == MSpec => []CountersExplained
<1>1. MetricsInv => CountersExplained
  <2>. SUFFICES ASSUME MetricsInv, NEW s \in Scrapers, \A w \in Words : Has(s, w)
                PROVE  LET v(c) == seen[s][Value(c)]
                           n(h) == seen[s][Total(h)]
                       IN  /\ v("tokens") <= n("ttft") + n("itl") + 1
                           /\ v("tokens") <= seen[s][Sum("batch")]
                           /\ v("prefill") <= PromptLen * (n("ttft") + 1)
                           /\ v("steps") <= n("batch") + 1
    BY DEF CountersExplained
  <2>1. ScrapeRight(s) /\ kind[s] \in {"none", "prom", "json"}
    BY DEF MetricsInv, ScrapesInv, PlacesInv, MTypeOK
  <2>2. 1 \in Buckets
    BY MetricsAssumption DEF Buckets
  <2>3. Has(s, Bucket("ttft", 1)) /\ Has(s, Total("ttft")) /\ Bucket("ttft", 1) \in Words
    BY <2>2, WordsKnown DEF Histograms
  <2>4. kind[s] = "prom"
    BY <2>1, <2>2, <2>3 DEF ScrapeRight, ReadsNoMore, Histograms
  <2>5. \A w \in Words : Shown(s, w) = seen[s][w]
    BY DEF Shown
  <2>6. ExplainedSoFar(s)
    BY <2>1, <2>4 DEF ScrapeRight
  <2>7. QED
    BY <2>5, <2>6, BookWords DEF ExplainedSoFar
<1>2. QED
  BY <1>1, MetricsInvInductive, PTL

\* Nothing that is counted is lost: Counter.Add and the words of Observe are
\* atomic additions, so the registry comes to what has happened.
THEOREM RegistryComesRight == MSpec => []RegistryRight
<1>1. MetricsInv => RegistryRight
  <2>. SUFFICES ASSUME MetricsInv, Quiet
                PROVE  LET v(c) == word[Value(c)]
                           n(h) == word[Total(h)]
                       IN  /\ v("total") = Cardinality(Requests \ In("new"))
                           /\ v("done") = Cardinality(In("over"))
                           /\ v("tokens") = Cardinality(Sent)
                           /\ n("ttft") = Cardinality({r \in Requests : given[r] > 0})
                           /\ n("ttft") + n("itl") = v("tokens")
                           /\ v("tokens") = word[Sum("batch")] /\ v("steps") = n("batch")
    BY DEF RegistryRight
  <2>1. rest = {} /\ \A t \in Threads : Idle(t)
    BY DEF Quiet
  <2>2. \A w \in Words : Due[w] = word[w] /\ word[w] \in Nat
    <3>1. ASSUME NEW w \in Words PROVE Due[w] = word[w] /\ word[w] \in Nat
      <4>1. Owed(w) = 0 /\ word[w] \in Nat
        BY <2>1, OwedAtMost, ThreadKinds DEF MetricsInv, PlacesInv, MTypeOK
      <4>2. QED
        BY <4>1, DueIs
    <3>2. QED
      BY <3>1
  <2>3. Uncounted = {}
    BY <2>1, ThreadKinds DEF Uncounted
  <2>4. Cardinality(Uncounted) = 0 /\ Cardinality(rest) = 0
    BY <2>1, <2>3, FS_EmptySet
  <2>5. BooksRight
    BY DEF MetricsInv, BooksInv
  <2>6. word[Value("total")] = Cardinality(Requests \ In("new"))
    BY <2>2, <2>4, <2>5, BookWords DEF BooksRight
  <2>7. word[Value("tokens")] = word[Sum("batch")]
    BY <2>2, <2>4, <2>5, BookWords DEF BooksRight
  <2>8. QED
    BY <2>2, <2>5, <2>6, <2>7, BookWords DEF BooksRight, WithToken
<1>2. QED
  BY <1>1, MetricsInvInductive, PTL
=============================================================================
