------------------------------- MODULE MCLoader -------------------------------
(***************************************************************************)
(* The checkpoints of MCLifecycle as one file each, and one small one cut  *)
(* into shards and spoilt in the ways a directory, a header and an entry   *)
(* can be.                                                                 *)
(***************************************************************************)
EXTENDS MCLifecycle, Loader

Data == 2000

An(dtype, shape, begin, bytes, fits) ==
  [dtype |-> dtype, shape |-> shape, begin |-> begin, end |-> begin + bytes, fits |-> fits]

\* The entries a tensor is stored as, from an offset.
EntriesOf(t, at0) ==
  LET name(suffix) == <<t.name, suffix>>
  IN  CASE t.form = "w4" -> name("qweight") :> An("U8", <<2, 2>>, at0, 4, t.fits) @@
                            name("scales") :> An("F32", <<2, 1>>, at0 + 4, 8, t.fits)
        [] t.form = "f32" -> name("weight") :> An("F32", <<1>>, at0, 4, t.fits)
        [] OTHER -> name("weight") :> An("F16", <<1>>, at0, 2, t.fits)

AllEntries(tensors) ==
  FoldSet(LAMBDA x, e : e @@ EntriesOf(x, 12 * Rank[x.name]), <<>>, tensors)

File(entries) == [header |-> TRUE, size |-> Data, tensors |-> entries]

OneFile(k) ==
  [config |-> k.config, tensors |-> k.tensors,
   dir |-> [index |-> "none", listed |-> {}, files |-> 1 :> File(AllEntries(k.tensors))]]

-----------------------------------------------------------------------------
\* The plain checkpoint, with two quantized projections.
Small == [config |-> Llama, tensors |-> TensorsFor(Llama, {}, {"q_proj", "up_proj"}, {}, {})]
SmallEntries == AllEntries(Small.tensors)

Quantized == (CHOOSE x \in Small.tensors : x.name[2] = "q_proj").name
Dense == (CHOOSE x \in Small.tensors : x.form = "f32").name

\* Two shards: the names of a set in the first, the others in the second.
Cut(entries, first) ==
  LET part(S) == [n \in S \cap DOMAIN entries |-> entries[n]]
  IN  1 :> File(part(first)) @@ 2 :> File(part(DOMAIN entries \ first))

\* What may go into the first shard: the second half of the names, the scales.
Late == {n \in DOMAIN SmallEntries : n[1][2] \in {"q_proj", "k_proj", "down_proj", "norm"}}
Scales == {n \in DOMAIN SmallEntries : n[2] = "scales"}

Stored(index, listed, shardFiles) ==
  [config |-> Llama, tensors |-> Small.tensors,
   dir |-> [index |-> index, listed |-> listed, files |-> shardFiles]]

InShards ==
  {Stored("given", {1, 2}, Cut(SmallEntries, first)) : first \in {Late, Scales}}
    \cup {Stored("none", {}, Cut(SmallEntries, Late)),
          \* a file the index does not list, however bad, is not opened
          Stored("given", {1, 2}, Cut(SmallEntries, Late) @@ 3 :> [File(<<>>) EXCEPT !.header = FALSE])}

\* Directories that do not open.
Unopened ==
  LET two == Cut(SmallEntries, Scales)
      again == [n \in {<<Quantized, "scales">>} |-> SmallEntries[n]]
  IN  {Stored("bad", {}, two), Stored("none", {}, <<>>), Stored("given", {}, two),
       Stored("given", {1, 2, 3}, two),
       Stored("given", {1, 2}, [two EXCEPT ![2].header = FALSE]),
       Stored("none", {}, two @@ 3 :> File(again))}

\* One entry of the second shard is another one.
Spoilt(n, e) ==
  Stored("given", {1, 2}, Cut([SmallEntries EXCEPT ![n] = e], Late \cap Scales))

\* Scales of no weight, which nobody reads.
Lone(shape, bytes) ==
  Stored("none", {}, 1 :> File(SmallEntries @@
                                 <<Dense, "scales">> :> An("F32", shape, Data - 100, bytes, TRUE)))

BadEntries ==
  LET w == <<Dense, "weight">>
      e == SmallEntries[w]
  IN  {Spoilt(w, [e EXCEPT !.dtype = "F8"]), Spoilt(w, [e EXCEPT !.shape = <<-1>>]),
       Spoilt(w, [e EXCEPT !.shape = <<2>>]), Spoilt(w, [e EXCEPT !.begin = -4, !.end = 0]),
       Spoilt(w, [e EXCEPT !.begin = e.end, !.end = e.begin]),
       Spoilt(w, [e EXCEPT !.begin = Data, !.end = Data + 4]),
       \* 1367 * 3 is 5 more than an int64 of 12 bits counts
       Spoilt(w, [e EXCEPT !.shape = <<1367, 3>>, !.end = e.begin + 20]),
       \* no element, but too many on the way
       Lone(<<2000, 2, 0>>, 0)}

\* Entries that open: the weight is not one uploadWeights sends.
Unsent ==
  LET w == <<Dense, "weight">>
      q == <<Quantized, "qweight">>
      s == <<Quantized, "scales">>
      other(n) == {IF x.name = n[1] THEN [x EXCEPT !.form = "other"] ELSE x : x \in Small.tensors}
      becomes(n, e) == [Spoilt(n, e) EXCEPT !.tensors = other(n)]
      without(n) == Stored("none", {}, 1 :> File([m \in DOMAIN SmallEntries \ {n} |-> SmallEntries[m]]))
  IN  {becomes(w, An("F16", <<1>>, Data - 100, 2, TRUE)), becomes(w, An("F32", <<0>>, Data - 100, 0, TRUE)),
       becomes(q, An("I8", <<2, 2>>, Data - 100, 4, TRUE)), becomes(q, An("U8", <<4>>, Data - 100, 4, TRUE)),
       becomes(s, An("F32", <<1, 2>>, Data - 100, 8, TRUE)), becomes(s, An("F32", <<2, 4>>, Data - 100, 32, TRUE)),
       becomes(s, An("F32", <<2, 3>>, Data - 100, 24, TRUE)), becomes(s, An("F32", <<2, 0>>, Data - 100, 0, TRUE)),
       becomes(s, An("F16", <<2, 1>>, Data - 100, 4, TRUE)), becomes(s, An("F32", <<2>>, Data - 100, 8, TRUE)),
       [without(s) EXCEPT !.tensors = other(q)]}

\* Entries that are odd and served: the element count of a dense tensor fits an
\* int64 and its byte count comes round to the size in the file (4 * 1025 is 4
\* more than 12 bits count); no shape at all; scales for two groups a row; scales
\* of no weight.
OddAndSent ==
  LET w == <<Dense, "weight">>
      s == <<Quantized, "scales">>
  IN  {Spoilt(w, [SmallEntries[w] EXCEPT !.shape = <<1025>>]),
       Spoilt(w, [SmallEntries[w] EXCEPT !.shape = <<>>]),
       Spoilt(s, An("F32", <<2, 2>>, Data - 100, 16, TRUE)),
       Lone(<<1>>, 4), Lone(<<0, 2000, 2>>, 0)}

DiskCheckpoints ==
  {OneFile(k) : k \in SomeCheckpoints} \cup InShards \cup Unopened \cup BadEntries
    \cup Unsent \cup OddAndSent
=============================================================================
