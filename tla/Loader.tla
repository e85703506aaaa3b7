-------------------------------- MODULE Loader --------------------------------
(***************************************************************************)
(* How engine.New gets at its library and its weights, with every handle   *)
(* it holds on the way: backend.Load, loader.OpenModel over the shards of  *)
(* a checkpoint directory, and uploadWeights tensor by tensor.  The steps  *)
(* of ModelLifecycle are kept; what it calls the tensors of a checkpoint,  *)
(* and their forms, are worked out here from the files.                    *)
(***************************************************************************)
EXTENDS ModelLifecycle, FiniteSetsExt

CONSTANT MaxInt     \* the largest int64

\* A shard is a number from 1, in the order of the paths.  A checkpoint has a dir:
\* its index ("none" or unreadable, "bad" JSON, or "given" with the shards it
\* lists) and its files, each with a header that parses or does not, the size
\* of its data, and its entries by name.  A name is a base and a suffix;
\* "weight" stands for every suffix that is not one of the other two.
NameSuffixes == {"qweight", "scales", "weight"}
Entry == [dtype : STRING, shape : Seq(Int), begin : Int, end : Int, fits : BOOLEAN]

\* A shape of more elements than an int64 counts is among the inputs; a
\* quantized weight with a dimension of zero is not: New panics on it.
ASSUME LoaderAssumption ==
  /\ MaxInt \in Nat \ {0}
  /\ \A k \in Checkpoints :
       /\ k.dir.listed \cup DOMAIN k.dir.files \subseteq Nat \ {0}
       /\ \A f \in DOMAIN k.dir.files :
            LET tensors == k.dir.files[f].tensors
            IN  /\ k.dir.files[f].size \in 0 .. MaxInt
                /\ \A n \in DOMAIN tensors :
                     /\ n \in (DOMAIN Rank) \X NameSuffixes
                     /\ tensors[n] \in Entry
                     /\ n[2] = "qweight" => 0 \notin Range(tensors[n].shape)

VARIABLES
  step,     \* within "config" and "open": what has been done
  lib,      \* the references New and the engine hold on the library
  paths,    \* the shards still to open
  cur,      \* the shard being parsed, 0 for none
  fds,      \* the shards whose file is open
  files,    \* m.Files
  list,     \* the names still to upload
  blame     \* what the last refusal was about: "none", "files", "else"

shards == <<step, paths, cur, files, list>>
loaderVars == <<lcVars, shards, lib, fds, blame>>

-----------------------------------------------------------------------------
(* One entry of a header.                                                  *)

DtypeSize == [F64 |-> 8, F32 |-> 4, F16 |-> 2, BF16 |-> 2, I64 |-> 8,
              I32 |-> 4, I16 |-> 2, I8 |-> 1, U8 |-> 1, BOOL |-> 1]

Wrap(n) == ((n + MaxInt + 1) % (2 * (MaxInt + 1))) - (MaxInt + 1)

Bad == -1

\* Mutant: nothing is said of a product that does not fit.
NumelWrapped(shape) ==
  LET numel[i \in 0 .. Len(shape)] ==
        IF i = 0 THEN 1
        ELSE IF numel[i - 1] = Bad \/ shape[i] < 0 THEN Bad
        ELSE Wrap(numel[i - 1] * shape[i])
  IN  numel[Len(shape)]

\* The elements of a shape, unless a dimension is negative or they do not fit.
Numel(shape) ==
  LET numel[i \in 0 .. Len(shape)] ==
        IF i = 0 THEN 1
        ELSE IF \/ numel[i - 1] = Bad \/ shape[i] < 0
                \/ shape[i] # 0 /\ numel[i - 1] > MaxInt \div shape[i]
        THEN Bad
        ELSE Wrap(numel[i - 1] * shape[i])
  IN  numel[Len(shape)]

Bytes(e) == e.end - e.begin

EntryOk(size, e) ==
  /\ e.dtype \in DOMAIN DtypeSize
  /\ Numel(e.shape) # Bad
  /\ 0 <= e.begin /\ e.begin <= e.end /\ e.end <= size
  /\ Bytes(e) = Wrap(Numel(e.shape) * DtypeSize[e.dtype])

-----------------------------------------------------------------------------
(* The opened checkpoint.                                                  *)

Dir == ckpt.dir
NamesIn(f) == DOMAIN Dir.files[f].tensors

\* m.byName, which the loading fills from m.Files.
ByName == UNION {NamesIn(f) : f \in files}
Holder(n) == CHOOSE f \in files : n \in NamesIn(f)
Tensor(n) == Dir.files[Holder(n)].tensors[n]

\* Mutant: the scales are looked for where the weight is.
PairInOneShard(n) ==
  LET s == <<n[1], "scales">> IN s \in NamesIn(Holder(n)) /\ Tensor(s).dtype = "F32"

\* The scales of a quantized weight, from whichever shard has them.
HasScales(n) ==
  LET s == <<n[1], "scales">> IN s \in ByName /\ Tensor(s).dtype = "F32"

\* What uploadWeights, LoadTensorW4 and te_model_load_tensor_w4 ask of a pair.
W4Ok(n) ==
  /\ Tensor(n).dtype = "U8"
  /\ Len(Tensor(n).shape) = 2
  /\ HasScales(n)
  /\ LET q == Tensor(n).shape
         s == Tensor(<<n[1], "scales">>).shape
     IN  /\ Len(s) = 2
         /\ s[1] = q[1]
         /\ s[2] > 0
         /\ (2 * q[2]) % s[2] = 0
         /\ ((2 * q[2]) \div s[2]) % 2 = 0

\* LoadTensorF32: a scalar too is a tensor, of one element.
F32Ok(n) == Tensor(n).dtype = "F32" /\ Bytes(Tensor(n)) > 0 /\ Bytes(Tensor(n)) % 4 = 0

FormOf(n) ==
  CASE n[2] = "qweight" /\ W4Ok(n) -> "w4"
    [] n[2] = "weight" /\ F32Ok(n) -> "f32"
    [] OTHER -> "other"

\* The tensors as ModelLifecycle has them: the scales go with their weight.
Forms(names) ==
  {[name |-> n[1], form |-> FormOf(n), fits |-> Tensor(n).fits] :
     n \in {m \in names : m[2] # "scales"}}

-----------------------------------------------------------------------------
(* The steps of New.                                                       *)

LoaderInit ==
  /\ LCInit
  /\ step = "start" /\ lib = 0 /\ paths = {} /\ cur = 0 /\ fds = {} /\ files = {}
  /\ list = {} /\ blame = "none"

Called == NewCalled /\ blame' = "none" /\ UNCHANGED <<shards, lib, fds>>

\* LoadConfig or Validate refuses, or the library does not load.
NewRefused ==
  step = "start" /\ ConfigRefused /\ blame' = "else" /\ UNCHANGED <<shards, lib, fds>>

\* syscall.LoadDLL.
LibraryLoaded ==
  /\ at = "config" /\ step = "start"
  /\ LoadOk(ckpt.config) /\ ValidateOk(Config)
  /\ step' = "exports"
  /\ lib' = lib + 1
  /\ UNCHANGED <<lcVars, paths, cur, files, list, fds, blame>>

ExportsFound ==
  /\ step = "exports"
  /\ step' = "init"
  /\ UNCHANGED <<lcVars, paths, cur, files, list, fds, lib, blame>>

\* An export is missing, and load releases the library; te_init fails, and Load
\* closes the handle.
LibraryUnfit ==
  /\ step \in {"exports", "init"}
  /\ ConfigRefused
  /\ step' = "start" /\ lib' = lib - 1 /\ blame' = "else"
  /\ UNCHANGED <<paths, cur, files, list, fds>>

LibraryReady ==
  /\ step = "init"
  /\ ConfigAccepted
  /\ step' = "start"
  /\ UNCHANGED <<paths, cur, files, list, fds, lib, blame>>

Created == (Create \/ SetSliding) /\ UNCHANGED <<shards, lib, fds, blame>>

\* The error returns of New from ModelCreate on, each with h.Close.
GiveUp(why) ==
  /\ Fail
  /\ lib' = lib - 1 /\ blame' = why
  /\ step' = "start" /\ paths' = {} /\ cur' = 0 /\ files' = {} /\ list' = {}

NotCreated == (CreateFails \/ SetSlidingFails) /\ GiveUp("else") /\ UNCHANGED fds

\* m.Close.
ModelClosed == fds \ files

-----------------------------------------------------------------------------
(* OpenModel.                                                              *)

\* The shards the index names, or else those of the directory.
Shards(dir) == IF dir.index = "given" THEN dir.listed ELSE DOMAIN dir.files

FindShards ==
  /\ at = "open" /\ step = "start"
  /\ Dir.index # "bad" /\ Shards(Dir) # {}
  /\ paths' = Shards(Dir)
  /\ step' = "shards"
  /\ UNCHANGED <<lcVars, cur, files, list, fds, lib, blame>>

NoShards ==
  /\ at = "open" /\ step = "start"
  /\ \/ (Dir.index = "bad" \/ Shards(Dir) = {}) /\ GiveUp("files")
     \/ GiveUp("else")
  /\ UNCHANGED fds

OpenShard ==
  /\ step = "shards" /\ cur = 0 /\ paths # {}
  /\ Min(paths) \in DOMAIN Dir.files
  /\ cur' = Min(paths)
  /\ paths' = paths \ {cur'}
  /\ fds' = fds \cup {cur'}
  /\ UNCHANGED <<lcVars, step, files, list, lib, blame>>

\* os.Open fails; the shards before it are closed.
ShardMissing ==
  /\ step = "shards" /\ cur = 0 /\ paths # {}
  /\ \/ Min(paths) \notin DOMAIN Dir.files /\ GiveUp("files")
     \/ GiveUp("else")
  /\ fds' = ModelClosed

HeaderOk(f) ==
  /\ Dir.files[f].header
  /\ \A n \in NamesIn(f) : EntryOk(Dir.files[f].size, Dir.files[f].tensors[n])

\* parse fails: Open closes the shard, OpenModel those before it.
ParseFails ==
  /\ cur # 0
  /\ \/ ~ HeaderOk(cur) /\ GiveUp("files")
     \/ GiveUp("else")
  /\ fds' = ModelClosed \ {cur}

\* Mutant: the shard with a name that is taken is not one of m.Files yet.
ClosedBeforeAppend == ModelClosed

\* The shard is appended to m.Files before its names are looked at.
ClosedAfterAppend == ModelClosed \ {cur}

NameTaken ==
  /\ cur # 0 /\ HeaderOk(cur)
  /\ NamesIn(cur) \cap ByName # {}
  /\ fds' = ClosedAfterAppend
  /\ GiveUp("files")

Merge ==
  /\ cur # 0 /\ HeaderOk(cur)
  /\ NamesIn(cur) \cap ByName = {}
  /\ files' = files \cup {cur}
  /\ cur' = 0
  /\ UNCHANGED <<lcVars, step, paths, list, fds, lib, blame>>

\* OpenModel returns, and uploadWeights takes the list of tensors.
Opened ==
  /\ step = "shards" /\ cur = 0 /\ paths = {}
  /\ list' = ByName
  /\ left' = Forms(list')
  /\ at' = "upload"
  /\ step' = "start"
  /\ UNCHANGED <<ckpt, calls, gmodel, paths, cur, files, fds, lib, blame>>

-----------------------------------------------------------------------------
(* uploadWeights and finalize.  m.Close is deferred: it runs at every      *)
(* return from here on.                                                    *)

\* Mutant: the names come in the order of the shards.
NextOfShards == CHOOSE n \in list : \A m \in list : Holder(n) <= Holder(m)

\* Model.Tensors sorts the names.
Place(n) == 3 * Rank[n[1]] + [qweight |-> 0, scales |-> 1, weight |-> 2][n[2]]
NextName == CHOOSE n \in list : \A m \in list : Place(n) <= Place(m)

Skip ==
  /\ at = "upload" /\ list # {}
  /\ NextName[2] = "scales"
  /\ list' = list \ {NextName}
  /\ UNCHANGED <<lcVars, step, paths, cur, files, fds, lib, blame>>

\* One more weight in the backend.
Sent(n) == [name |-> n[1], fits |-> Tensor(n).fits, call |-> calls]

SendW4(n) ==
  /\ n[2] = "qweight" /\ W4Ok(n)
  /\ n[1] \notin NamesOf(dense) \cup NamesOf(quant)
  /\ quant' = quant \cup {Sent(n)}
  /\ UNCHANGED dense

SendF32(n) ==
  /\ n[2] = "weight" /\ F32Ok(n)
  /\ n[1] \notin NamesOf(dense)
  /\ dense' = dense \cup {Sent(n)}
  /\ UNCHANGED quant

Send ==
  /\ at = "upload" /\ list # {}
  /\ SendW4(NextName) \/ SendF32(NextName)
  /\ list' = list \ {NextName}
  /\ left' = left \ Forms({NextName})
  /\ UNCHANGED <<at, ckpt, calls, model, bcfg, flags, step, paths, cur, files, fds, lib, blame>>

\* A tensor of a kind uploadWeights does not send, or a failed read or copy.
SendFails ==
  /\ at = "upload" /\ list # {} /\ NextName[2] # "scales"
  /\ \/ FormOf(NextName) = "other" /\ GiveUp("files")
     \/ GiveUp("else")
  /\ fds' = ModelClosed

Finalized ==
  /\ list = {} /\ Finalize
  /\ fds' = ModelClosed
  /\ files' = {}
  /\ UNCHANGED <<step, paths, cur, list, lib, blame>>

NotFinalized == list = {} /\ FinalizeFails /\ GiveUp("else") /\ fds' = ModelClosed

Closed == EngineClose /\ GiveUp("none") /\ UNCHANGED fds

LoaderDone == LCDone /\ UNCHANGED loaderVars

LoaderNext ==
  \/ Called \/ NewRefused \/ LibraryLoaded \/ ExportsFound \/ LibraryUnfit \/ LibraryReady
  \/ Created \/ NotCreated
  \/ FindShards \/ NoShards \/ OpenShard \/ ShardMissing \/ ParseFails \/ NameTaken \/ Merge
  \/ Opened
  \/ Skip \/ Send \/ SendFails
  \/ Finalized \/ NotFinalized \/ Closed
  \/ LoaderDone

LoaderSpec == LoaderInit /\ [][LoaderNext]_loaderVars

-----------------------------------------------------------------------------
\* New leaves no file of the checkpoint open, whichever way it returns, and
\* holds the library exactly as long as it or its engine uses it, whichever
\* step failed (engine.New, loader.OpenModel, loader.Open, backend.Load).
NothingLeftOpen ==
  /\ at \in {"out", "serving"} => fds = {}
  /\ at = "out" => lib = 0
  /\ at \notin {"out", "config"} => lib = 1

\* What the files of a checkpoint say, whatever the shards and the order they
\* are read in.  A shape is counted without a machine's integers; that no product
\* of leading dimensions be more than an int64 holds is asked for.
Leading(shape) ==
  LET product[i \in 0 .. Len(shape)] == IF i = 0 THEN 1 ELSE product[i - 1] * shape[i]
  IN  product

ShapeBytes(e) == Leading(e.shape)[Len(e.shape)] * DtypeSize[e.dtype]

\* The range of bytes is that of the shape.
Exact(e) == Bytes(e) = ShapeBytes(e)

\* The shape needs more bytes than an int64 holds, and the machine's product is
\* the length of the range nevertheless.
ComesRound(e) == ShapeBytes(e) > MaxInt /\ Bytes(e) = Wrap(ShapeBytes(e))

\* What parse lets through of one entry.
Acceptable(size, e) ==
  /\ e.dtype \in DOMAIN DtypeSize
  /\ \A i \in DOMAIN e.shape : e.shape[i] >= 0 /\ Leading(e.shape)[i] <= MaxInt
  /\ 0 <= e.begin /\ e.begin <= e.end /\ e.end <= size
  /\ Exact(e) \/ ComesRound(e)

\* A directory all of whose shards open, and no name is in two of them.
Openable(dir) ==
  /\ dir.index # "bad" /\ Shards(dir) # {} /\ Shards(dir) \subseteq DOMAIN dir.files
  /\ \A f \in Shards(dir) :
       /\ dir.files[f].header
       /\ \A n \in DOMAIN dir.files[f].tensors : Acceptable(dir.files[f].size, dir.files[f].tensors[n])
  /\ \A f, g \in Shards(dir) :
       f # g => DOMAIN dir.files[f].tensors \cap DOMAIN dir.files[g].tensors = {}

Entries(dir) ==
  UNION {{[name |-> n, is |-> dir.files[f].tensors[n]] : n \in DOMAIN dir.files[f].tensors}
         : f \in Shards(dir)}

\* A quantized weight and its scales agree on the rows, and the groups of a row
\* are of one even size.
Paired(q, s) ==
  /\ q.dtype = "U8" /\ Len(q.shape) = 2
  /\ s.dtype = "F32" /\ Len(s.shape) = 2
  /\ q.shape[1] = s.shape[1]
  /\ \E group \in 1 .. 2 * q.shape[2] : group % 2 = 0 /\ group * s.shape[2] = 2 * q.shape[2]

IsW4(dir, x) ==
  /\ x.name[2] = "qweight"
  /\ \E y \in Entries(dir) : y.name = <<x.name[1], "scales">> /\ Paired(x.is, y.is)

IsF32(x) ==
  x.name[2] = "weight" /\ x.is.dtype = "F32" /\ Bytes(x.is) > 0 /\ Bytes(x.is) % 4 = 0

\* Everything in the files is of a kind that is uploaded.
Loadable(dir) ==
  /\ Openable(dir)
  /\ \A x \in Entries(dir) : x.name[2] = "scales" \/ IsW4(dir, x) \/ IsF32(x)

\* And every entry has the bytes of its shape.
WellFormed(dir) == Loadable(dir) /\ \A x \in Entries(dir) : Exact(x.is)

\* What ModelLifecycle calls the tensors of a checkpoint is what its files hold.
Contents(dir) ==
  {[name |-> x.name[1],
    form |-> IF IsW4(dir, x) THEN "w4" ELSE IF IsF32(x) THEN "f32" ELSE "other",
    fits |-> x.is.fits] : x \in {y \in Entries(dir) : y.name[2] # "scales"}}

ASSUME ContentsAssumption ==
  \A k \in Checkpoints : Openable(k.dir) => k.tensors = Contents(k.dir)

\* Whether New can serve a checkpoint is a matter of what its files say and not
\* of how they are cut into shards or in which order these are read: none that is
\* well formed is refused for its files, and an engine is built only from one that
\* is, but for entries that need more bytes than an int64 holds and whose product
\* comes round to the range they give, which parse does not notice
\* (loader.OpenModel, parse, uploadWeights).
VerdictOfFiles ==
  /\ at = "serving" => Loadable(Dir)
  /\ blame = "files" => ~ WellFormed(Dir)
=============================================================================
