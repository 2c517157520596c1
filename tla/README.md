# duckdb-ml in TLA+

duckdb-ml is a DuckDB extension with five table functions. `ml_fit` trains a
model (PCA, or a boosted tree through XGBoost) on its input table and stores it
as a new version in a SQLite registry; `ml_predict`, `ml_evaluate` and
`ml_explain` use a stored version; `ml_models` lists them. This directory holds
TLA+ models of the parts where order, sharing, failure and number ranges
matter, the TLC configurations that check them, and TLAPS proofs. Paths below
are relative to the repository; `X.cpp:12` is a line of it.

`tlc -config C.cfg M.tla` checks a configuration `C` of module `M`, `tlapm M.tla`
the proofs of `M`; the table of runs below pairs them.

## 1. Inventory

| component | state | operations | used by |
|---|---|---|---|
| model registry `storage/model_registry.cpp` | a SQLite file: table `duckdb_ml_models`, index `idx_duckdb_ml_models_latest`, SQLite's file locks; one connection per call | schema bootstrap and validation, insert of the next version, lookup of a version or the latest, list | every function, from any number of processes and threads |
| `ml_fit` query `functions/ml_fit.cpp` | `MlFitGlobalState`: pending rows, batch files, an incremental PCA, `emitted`, a mutex | bind, function per chunk, finalize per pipeline thread, destructor | DuckDB's executor |
| training batches `algorithms/boosted_tree_regressor.cpp` | batch files on disk, the external-memory iterator and its one buffer, the booster | write, read, next, reset, train, predict | `ml_fit`, XGBoost |
| fit options (both algorithm files) | none | parse, cast, validate | `MlFitBind` |
| regression metrics | running sums, a reservoir of absolute errors | `Update`, `Finalize` | `ml_evaluate` |
| incremental PCA `algorithms/pca.cpp` | running mean and variance, components, `RunningMoments` | `PartialFit`, `ToModel`, `Transform`, moments | `ml_fit`, `ml_evaluate` |
| model blobs | none | serialize, deserialize two formats | `ml_fit` writes, the readers read |
| `ml_predict`, `ml_explain` | a model bound by the statement | bind, function per chunk | executor |
| `ml_evaluate` | bound model, accumulators, `emitted`, a mutex | bind, function, finalize | executor |
| `ml_models` | a copy of the registry, an offset | init, function per page | executor |
| registration, headers, vendored `sqlite3.h` | none | load | DuckDB |

How they interact. A fit's bind parses the options and picks the columns; the
executor feeds chunks, from several pipeline threads, to `MlFitFunction`; the
finalizer trains and calls `InsertModelRegistryEntry`. A reader's bind calls
`LoadModelRegistryEntry` once and keeps the model for the life of the statement.
The only state shared between queries or processes is the registry file; the
only state shared between the threads of a query is its global state.

What is hard about it, and what makes each part correct:

* **Registry.** Concurrent first calls bootstrap the same file; two fits of one
  name allocate a version; every statement may get SQLITE_BUSY (no busy handler
  is installed); a process may die between any two statements. Correct means:
  versions are dense per name, a fit is stored once and not over another, what was
  answered is stored, a reader sees a state of the registry at one instant of its
  call, an unknown table is refused before anything is written.
* **ml_fit.** Threads finalize when *they* run out of input; a handler that waits
  for the mutex runs after another has failed the query; a throw leaves partial
  rows or unflushed rows behind. Correct means: the model is trained on whole rows
  of the table, on each once, on all of them; a failing query stores nothing; memory
  is bounded; no batch file is left.
* **ml_evaluate.** Chunks are read outside the mutex and counted under it, and the first thread out of
  input finalizes. Correct means: one result, over every row.
* **Metrics.** One pass and a bounded sample must give what two passes give.
* **Incremental PCA.** How rows are cut into batches depends on chunks and threads and must not show
  in mean, variance, products or component count.
* **Training from files.** XGBoost passes over the files as often as it likes, through a proxy that
  points into a buffer that moves. Correct means: every row once per pass, and a model of all of
  them or none.
* **Blobs.** Writer and readers share no description of the format, and old blobs stay. Correct
  means: what was written is read, and nothing else is taken for a model.
* **Options.** What is refused is out of the range the message says, what is accepted is in it.
* **Readers.** Columns are matched by name, a row's output is made of that row, the bound version
  stays the   answers every chunk, a listing is a snapshot..

`PROJECT.json` has the list of hazards, each at its line, with the properties
that cover it or the reason none does yet.

## 2. The modules

| module | what it is |
|---|---|
| `VersionedRegistry` | abstract: one append-only log per name; a call takes effect at one instant, or fails |
| `ModelRegistry`, `ModelRegistryProofs` | the registry statement by statement, which implements `VersionedRegistry`; theorems about it |
| `FitPipeline` | one `ml_fit` query on one or several pipeline threads |
| `FitOptions` | the options STRUCT of `ml_fit` |
| `MlFitProofs` | theorems about the two modules above: the two parts of `ml_fit`, which share no variable |
| `EvaluatePipeline`, `EvaluatePipelineProofs` | one `ml_evaluate` query, on one or several pipeline threads; theorems about it |
| `IncrementalPca`, `IncrementalPcaProofs` | PCA batch by batch, the model it stores and loads, the moments of `ml_evaluate`; theorems about it |
| `TreeTraining`, `TreeTrainingProofs` | boosting over batch files, the model it stores, the predictor that loads it; theorems about it |
| `ModelBlob`, `ModelBlobProofs` | both blob formats, extended by the two modules above; theorems about reading them, which theirs use |
| `RegressionMetrics`, `RegressionMetricsProofs` | the metrics accumulator; theorems about its reservoir and its scores |
| `ModelReaders`, `ModelReadersProofs` | binding, column matching, chunk layout and listing, over the log of `VersionedRegistry`; theorems about it |
| `MC...` | constants for TLC |

A definition without a use (`NextVersionAcrossNames`, `FinalizeStoresFirst`, ...) is the
changed form of the definition that follows it, a plausible mistake in the
code; replacing one by the other must break the property that `PROJECT.json`
pairs it with. They are there so that no property is satisfied for the wrong reason.

How the modules fit together. `FitPipeline` ends in batches; those of a PCA are the arguments of
`IncrementalPca!PartialFit`, those of a boosted tree are the files of `TreeTraining`. Both
leave a blob of `ModelBlob`, which `ModelRegistry` stores; for the readers the registry is the log of
`VersionedRegistry`. Joined in one state space they would be out of reach; what one
promises the next is stated as a property instead: batches of whole rows, none twice
(`TrainingRowsAreTableRows`, `NoRowTwice`), any cut into batches gives one model (`MomentsMatchTwoPasses`,
`PassesAreComplete`), the blob is read back (`StoredPcaIsRead`, `StoredTreeIsRead`), each call on the
registry is atomic (`ImplementsVersionedRegistry`).

### ModelRegistry

A client is a process (or a thread: each call opens its own connection) with one
call open. An action is one SQL statement, or the release of the lock it held, so
calls interleave between statements.

* `lock[c]` is SQLite's file lock of the connection (none, shared, reserved,
  pending, exclusive). A read needs SHARED, `BEGIN IMMEDIATE` and DDL need RESERVED,
  a commit EXCLUSIVE. `CanShare`, `CanReserve`, `CanExclude` are SQLite's
  compatibility rules for a rollback journal, the default; nothing in the code
  changes it. They are marked external.
* `EnsureRegistrySchema` is `TableExists`, `ValidateExistingTableSchema`,
  `CreateTable`/`CommitTable`, `CreateIndex`/`CommitIndex`: the two DDL
  statements commit on their own, so a crash may leave a table without its index,
  which the next call repairs. `seesIndex` is a connection's cached schema: a
  statement that finds the index in it writes nothing.
* `InsertModelRegistryEntry` is `BeginImmediate`, `NextModelVersion` (SELECT MAX + 1),
  `InsertRow`, `LockForCommit`, `CommitRow`, `LoadTimestamp`, then `Return`;
  `CommitBusy`, `StampBusy`, `IOError` lead to `Rollback` or `Throw` as its catch block does,
  which rolls back only while `transaction_started`.
* `LoadModelRegistryEntry` is `SelectEntry`; `LoadAllModelRegistryEntries` is
  `OpenCursor` and `FetchRow`, which hold SHARED from the first row to the last.
* `Crash` closes the connection: SQLite rolls an unfinished transaction back, so a
  committed row stays and an uncommitted one is gone. Hot-journal recovery and
  cache spill are SQLite's and abstracted into that.
* `fits`, `acked`, `refused` record what callers were told; they influence nothing.

`ImplementsVersionedRegistry` instantiates `VersionedRegistry` with the committed rows
as its logs and `CommitRow`, `SelectEntry` and the cursor's end as the instants at which
calls take effect.

### FitPipeline and EvaluatePipeline

The executor is external and modelled from what the handlers rely on: it starts any non-empty set of
threads; each claims a row group, which is any number of the chunks that nobody has claimed (`ClaimRowGroup`), hands
its chunks on one by one (`TakeChunk`), and finalizes when there is no group left (`EndOfInput`), whatever the other
threads have still to read of theirs; it hands the result row on and finalizes again (`TakeResult`); after an exception no *new* handler
starts, one already waiting for the mutex still runs. That several threads share the
state is what the mutex, the per-query `emitted` flag and the early return of the
finalizers are there for. `MlFitFunction` and both finalizers hold the mutex
from start to end and are one action each, one per outcome (`FunctionReturns`,
`FunctionMeetsNull`, `FunctionFlushThrows`, `FinalizeTrains`, ...).
`MlEvaluateFunction` takes it only for the update, so it is two: `ReadChunk`, `UpdateMoments`.

In `FitPipeline` a cell is a pair of row and column and `BatchOf` cuts the pending
cells by the row count, as the code does, so that a NULL in the middle of a row would show
as a training row made of two. An insert that "failed" also stands for a training that
throws; one that is "lost" has stored the version and then thrown (finding 1), and the run `fit` takes it like the
others. `emitted` stays unset then, so a finalizer that waits trains and stores again: the run reaches queries that store two
versions, and `StoredAtMostOnce` says that a query stores nothing else beyond the version it returns. The writing of a batch
file may fail with or without leaving the file behind. `OneThread` restricts a property to the queries of which
DuckDB started one thread; the same run has both kinds. `EvaluatePipeline` keeps the sequence of rows the
accumulators were updated with.

### IncrementalPca

Arithmetic is exact: a mean is counted in parts of 1/`Unit`, its squares and products in parts of
1/`Unit`^2, and `Unit` is a multiple of every row count up to the bound, so that every division in the
code comes out even. `PartialFit` is the whole method: `NewMean`, `NewVar`, the stacked matrix, the component count.
The SVD is Eigen's; all that the code uses of the matrix it decomposes is how many singular values it
has (`SvdSize`) and its products A^T A (`gram`), which the next batch's "previous" rows carry over
exactly as long as no component was cut off; from then on `gram` is `Unknown`. `Store` and `Bind`
write and load the model, in either format version; `Update` is `RunningMoments`, chunk by chunk.

### TreeTraining

`disk` holds the files `FitPipeline` wrote; a file may lose its end, because the writer asks its
stream for errors before it closes it (boosted_tree_regressor.cpp:542), or be removed. XGBoost is
external: between the callbacks it may begin a pass (`ExternalMemoryReset`), leave one, look at a batch through
the proxy (`LookAtProxy`), or fail. `current` is the iterator's buffer with its place and room: it moves when a longer batch
needs more, and the proxy holds the place it was given. `LoadPredictor` asks for the prediction over
`iteration_end` rounds, which XGBoost counts in rounds of `num_parallel_tree` trees: the booster holds trees, so the two
numbers differ.

### ModelBlob

A blob is the sequence of the items written, with nothing that says what an item is. `PcaWrites` and `BtrWrites` list
what the writers write, `PcaReads` and `BtrReads` what the readers take, by version, each from its own lines; `Take` is
the check "truncated payload". No writer of format version 1 is in the repository: `OldPcaWrites` is the layout its
reader implies, so of version 1 the model shows that the reader takes that layout, skips what it must and refuses what is cut
or grown, not that an earlier release wrote it. Bytes inside an item, and lengths so large that they overflow, are left out.

### RegressionMetrics

`Update` is one turn of the loop, `Finalize` a set of operators. Values are
integers, arithmetic is exact, a ratio is a pair; rounding is out of scope. The
generator that picks a place in the full reservoir is any choice among the rows seen.

### FitOptions

The specification is `OptionsSpec` (its names differ from those of `FitPipeline`, so that `MlFitProofs` extends both).
`ReadTreeOptions` reads all keys over the defaults, in one step, since every check of the code follows its loop; `ValidateTreeOptions` makes the
checks in their order, `ReadPcaOptions` checks before it casts. BIGINT and `idx_t` are
`Width` bits wide; `Cast` keeps the bits, which is what `UnsafeNumericCast` does in a
release build (a debug build asserts). A DOUBLE is a number of hundredths or a NaN. The free-form
`label` and the BOOLEAN `whiten` are not checked by the code and left out.

### ModelReaders

The registry is the log that `ModelRegistry` is shown to implement, so a fit, a
lookup and a listing are one step each. A column name is a word and a spelling,
`CIEquals` compares words; a cell is a row number and a word. `Bind` is the common shape of the three binds, with
their checks of the arguments; the words of one table are distinct (the code takes the first of two columns of one
name, and does not refuse them). A published model has weights that are no other fit's, and a chunk's answer names those
it was made with (`by`). `Execute` builds the flat vector a chunk feeds the model and takes the outputs apart
again, row by row or, for `ml_explain`, with the baseline first. The positional fallback for a model without
feature names (ml_predict.cpp:56) is left out: `ml_fit` always stores names.

## 3. The runs

| run | configuration | states | what it shows |
|---|---|---|---|
| registry_safety | `MCModelRegistry` | 311,986 | dense versions, one row per fit, answered fits stored, schema ready when used, foreign tables untouched, no call waits for another or goes back, and every call atomic on one log per name, with I/O errors and crashes |
| registry_failed_fit | `MCFailedFit` | violation | finding 1 |
| fit | `MCFitPipeline` | 67,414 | one thread: the model is the whole table, a failure stores nothing but by a "lost" insert; any number: whole rows, none twice, the version that is returned and no other but by "lost" inserts, bounded memory, files removed, the query ends |
| fit_threads_no_rows | `MCFitThreadsNoRows` | violation | finding 2 |
| fit_threads_failed | `MCFitThreadsFailed` | violation | finding 3 |
| pca_training | `MCIncrementalPca` | 58,698 | for every cut into batches: moments and products of the whole table, components as requested; the stored model is read back; `ml_evaluate` measures the variance of the training |
| tree_training | `MCTreeTraining` | 19,472 | every row once in each pass, no model from damaged files, the predictor uses every round, the stored model is read back, training ends |
| metrics | `MCRegressionMetrics` | 21,961 | one-pass scores are the two-pass ones, reservoir and median |
| evaluate | `MCEvaluatePipeline` | 79,574 | chunks count once and whole, or not at all with a NULL in a used column; one result, over the whole table with one thread, lacking with two only chunks that the other has claimed; the query ends |
| fit_options | `MCFitOptions` | 15,251 | the stated ranges, and the rule between booster and dropout, decide |
| fit_options_range | `MCFitOptionsRange` | violation | finding 4 |
| model_readers | `MCModelReaders` | 404,939 | outputs are of their rows, features by name and never the label, refused exactly for a missing column, every chunk by the version asked for at binding, pages are a snapshot |

Bounds, and why they are enough:

* Registry: two clients, two fits, two names (one in the failed-fit run).
  Every hazard is a conflict of two connections; two fits make a first and a second
  version of one name, or one each of two. `StartTables` starts the file empty, ready, without its
  index, or foreign. The theorems remove the bounds for the invariants.
* Pipelines: one or two threads, row groups of one chunk up to the whole table, tables of zero to four chunks with up to three rows, a
  flush threshold of two rows: chunks below, at and above it, a flush in the middle
  and at the end, a NULL in each column of the first rows.
* PCA: up to five rows of two features over a negative and a positive value, in every cut into batches, with
  one to three components requested: fewer than the features (so that components are cut off), as many, and
  more. `Unit` 60 is divisible by one to five.
* Trees: no file, one, files that fit the buffer of the first, files that make it grow; three passes, one of
  them may be left half way; one file damaged, at any moment; one and three rounds of one and two trees.
* Metrics: four rows over three values, a reservoir of three, so that the fourth is
  beyond its capacity; a negative value, which the logarithm clips.
* Options: four-bit integers; every pair of keys with values at, below and above the ends
  of each range, with negative counts and NaN. The cast depends on no more than the sign and the width.
* Readers: one reader (readers share nothing but the log), two models per name, tables that
  permute, respell, extend and truncate the training table; chunks of two rows, the fewest that tell
  rows from columns; a page of two rows, listings of zero to three (no fit runs once a name has two models), so below,
  at and above a page.

Liveness and fairness. Of the registry no fairness is assumed: `CallsNeverWait` says that an open call can always run
its next statement, whatever the others hold, and `CallsMoveForward` that it never goes back; the longest call is
seventeen stages, so a process that runs ends its call. (A listing stays at one stage while it fetches, one row of a
table that its own lock keeps from changing at a time.) The pipelines' `FairSpec` lets every pipeline thread run, as
DuckDB's scheduler does, and destroys a finished query. `TreeTraining` is fair to `Train`, the thread that finalizes
the query; that XGBoost fails or a file is damaged is never counted on. Nothing is assumed of calls that were not started, of
I/O errors or of crashes. `CHECK_DEADLOCK FALSE` is set where
the system stops: a query that is over, options that are parsed, the bound on rows.

## 4. What is proved

Each from the assumptions on constants named in the modules, and the hypotheses given here.

`ModelRegistryProofs` (any clients, names, bound on fits, starting tables and faults):

* `AllocationCorrect`: `Spec => []AllocationInv`. `VersionsContiguous` is not inductive: a fit
  inserts the version it computed in an earlier statement. The strengthening says that it still is the
  next one (`AllocationIsCurrent`), which holds because nobody else commits meanwhile: whoever is
  between `BEGIN IMMEDIATE` and COMMIT holds RESERVED and at most one connection does (`LockProtocol`, SQLite's own rules as the steps use them),
  and only fits get there (`RequestFitsStep`). With `TypeOK` these are inductive. Its parts are the
  theorems `TypeCorrect`, `VersionsAreContiguous`, `AllocationStaysCurrent`.
  `MaxOfPrefix` and `NextVersionIsCount` connect SELECT MAX + 1 with the number of versions.
* `PublicationCorrect`: `PublicationInv` adds that fits in flight have blobs no row has until they
  commit, and that their row is there from then on (`FitsAreDistinct`). Its parts are
  `EveryRowIsOneFitAlways` and `AckedFitsAreDurable`.
* `SchemaCorrect`: `SchemaInv` says what each stage of a call knows about the file. It needs no lock: a table
  that exists is never replaced and an index never dropped, so what a connection has seen stays true. Its
  parts are `SchemaAlwaysReady` and `ForeignTableAlwaysUntouched`.
* `CallsGoForward`: `CallsMoveForward`, an action property, from `TypeOK` and the place of every stage.
* `RegistryIsVersioned`: `Spec => ImplementsVersionedRegistry`, the refinement. Every statement maps to a step
  of `VersionedRegistry` or a stutter; `CommitRow` appends the next version because of `PublicationInv`, the end of a
  cursor is a listing because its SHARED lock kept the rows it has passed (`QueryInv`), and the log of a name holds the
  blob of each of its versions at the place of the version (`LogsHold`).

`MlFitProofs`, about `FitPipeline` (any threads, tables, numbers of features and threshold; tables are sequences of sequences of rows):

* `StoredAtMostOnceAlways`: storing and `emitted` go together but for "lost" inserts, and each of those has failed a
  thread that runs no further handler; so the versions stored are the one returned and at most one per failed thread. No
  outcome of an insert is assumed away. For a finite set of threads.
* `MemoryAlwaysBounded`: less than the threshold is pending between calls, so a batch is less than it and the
  chunk that filled it (`BoundedInv`, `ChunksInv`).
* `TrainingRowsAlwaysTableRows`: the buffer is *sound*, every place of it holds the cell of its row and
  column, until a NULL is met; then it is *poisoned*: of a boosted tree it fails the shape check, and of a
  PCA query with one thread it is never flushed. The place arithmetic (`FirstPlaces`, `PlaceBehind`, `SizeOfSum`, ...) says
  that rows appended behind rows are rows again. For a finite set of threads.
* `LoneFailureNeverStores`: one thread that failed runs no further handler, so it had not stored; unless
  it is a "lost" insert that failed it. For a finite set of threads.
* `NoBatchFileEverLeft`: every file is tracked unless its writing failed, so closing removes them all.
* `NoRowEverTwice`: rows in batches, in the buffer, in the hands of threads and in the table are pairwise apart. For a finite set of
  threads and tables of distinct rows (a row is its number).
* `ModelAlwaysHoldsEveryRow`: with one thread, batches, buffer, chunk and the rest of the table are, in this order, the
  table. For a finite set of threads.
* `FitTypeCorrect`: types, and batch ids above every file.
* `LoneNoRowsIsTrue`: on one thread "no rows" is said of an empty table only, where several threads give finding 2: when
  the one thread finalizes, the table is taken and each of its rows is in the buffer or a batch.
* `ClosedQueryHasEnded`, `QueryAlwaysGoesForward`: what of `QueryEnds` does not need fairness. A closed query stays
  closed, with one result row or an error (`EndInv`: a thread that is done has emitted or failed), so `QueryEnds` follows
  from `<>closed`. And each step claims some of the finitely many chunks left, reads a claimed one, or brings a thread forward in its handlers
  (`Progress`) and none back, which only works since `emitted` is never unset; so no schedule keeps a query going. That
  a query which is not closed has a step to take is left to TLC. For a finite set of threads.

`EvaluatePipelineProofs` (any threads; tables are sequences of sequences of distinct rows): `EvaluatedChunksAlways`, from what every thread holds at each
place of its handler; `ResultsMissOnlyWhatOthersHold`: a chunk that was claimed is still to be read, in a thread's hands, failed
on, or in the accumulators, and when one thread finalizes every chunk is claimed and none is its own.
`EndedQueryIsOver` and `QueryAlwaysGoesForward` are the parts of its `QueryEnds` that need no fairness, as above.

`MlFitProofs`, about `FitOptions` (any width and any options whose values have the type of their key, which DuckDB's casts
give, and whose keys the parser knows): `RangesAlwaysDecide`, check by check in the order of the code, in both directions: no
dropout is refused for its booster unless it is positive, and none that the booster would ignore is accepted. It needs that a
cast of `Width` bits keeps what is not negative.

`IncrementalPcaProofs` (any features, values, requests, bound on the rows and `Unit` that the numbers of rows divide):

* `PcaTypeCorrect`; `ComponentsAlwaysReachRequested`: a batch brings as many stacked rows as it has rows, on top of the
  components so far, so the component count is at least the least of rows seen, features and request, however the
  batches were cut.
* `MomentsAlwaysMatchTwoPasses`, `ScatterIsAlwaysExact`: the state is written as sums over the rows so far (`TrainedInv`:
  `n mean` is their sum, `n var` and `gram` are their products less `n` times the product of the means), which
  makes it inductive. The sums of two pieces of a table add up (`SumsOfJoin`), and what `Correction` adds is what
  the products around the joint mean differ by (`StatisticsOfJoin`); every division of the code's formulas comes
  out even (`MeanOfJoin`, `ProductOfJoin`, `AroundIsMultiple`).
* `EvaluationAlwaysAgrees`: a step of `Welford` is a batch of one row (`WelfordMeasures`), so after any chunks
  `RunningMoments` holds the statistics of the rows it was given (`MeasuredInv`), at the end those of the training.
* `StoredModelIsBound`, `StoredPcaIsAlwaysRead`: what is stored is the blob of the model just trained, in one format version
  or the other (`StoredInv`), every field has the shape its format gives it (`ToModelIsPcaModel`, from `TypeOK` and `TrainedInv`),
  and `PcaIsRead` does the rest; so `ml_evaluate` never refuses a model that `ml_fit` stored.

`ModelBlobProofs` (any model with the fields of its format; items may be anything): `TreeIsRead`, `PcaIsRead`. A field is
read back as it was written (`ReadFieldReads`) or, where the blob ends before it does, not at all (`ReadFieldFails`); fields one
after the other are (`FieldsRead`), by taking the first one that is not; so a blob is read if and only if it has its
length (`AllReads`), in either version. For a PCA the places of the fields in both versions are compared
(`PcaReadsPlaces`): the reader of version 1 skips one item more and finds the rest where the writer put it.

`TreeTrainingProofs` (tables are sequences of batches, sequences of rows; any methods, rounds, features and bound on passes):

* `PassesAreAlwaysComplete`: `seen` is the join of the first `current_batch` files (`SeenInv`), and a whole file has the
  rows that were written (`DiskInv`); the proxy points to the buffer just filled.
* `ModelAlwaysHoldsWholeTable`, `PredictorAlwaysUsesEveryRound`: what is stored is the model of all rows and rounds from
  `SaveModel` on (`ModelInv`), and is loaded as that.
* `StoredTreeIsAlwaysRead`: by `TreeIsRead`, since what is stored is the blob of `TrainedModel`.
* `TrainingAlwaysGoesForward`: what of `TrainingEnds` needs no fairness: the parts of the function, the passes, the batches in a
  pass and the rounds only go up, each to its bound (`BoundInv`), and a pass is left once at most. That XGBoost makes finitely many
  passes (`MaxPasses`) and leaves finitely many is assumed.

`RegressionMetricsProofs` (any values, capacity and bound): `ReservoirCorrect` (`ReservoirInv`: the
counters count the rows; the reservoir holds min(rows, capacity) errors of rows that were given),
the lemma `SampleExactWhileItFits` (until the capacity is reached the reservoir is the errors in order), `SampleIsAlwaysOfRows` (there is an injection of the places of the sample into the rows),
`MedianAlwaysSplitsErrors` (a sorted sample has as many values at most as at least its middle),
`ScoresAlwaysMatchTwoPasses` (the running sums are the sums of the first rows, and the deviations from a mean expand to them).

`ModelReadersProofs` (any readers, names, tables, bounds): `ChunksAlwaysByOneVersion`: a chunk is answered with the model of the
bind data, which is the registry's model of the version asked for, and stays it since the log only grows at its end
(`PublishKeepsVersions`). `RefusedOnlyWhenAlwaysMissing`, in both directions, for tables that are sequences of columns. `OutputsAreAlwaysOfTheirRows`, for those whose columns have distinct words, from the places of the flat
vector (a quotient and a remainder of the number of features). `PagesAlwaysListSnapshot`, for finitely many names: a
sequence in the order of the query is the only one of its set, so the pages so far and the rest are the list.

The library's induction theorems take an operator, which no prover here can instantiate. Where a sum, a fold or a joined
sequence is needed, the proofs take the least number at which the claim fails (`LeastOfNat`), and show first that the
recursive function behind it exists (`JoinsExist`, `FoldExists`, `SumFoldExists`, ...).

Out of the prover's reach, and only model-checked: `CallsNeverWait` (ENABLED), and of `QueryEnds` (both pipelines) and
`TrainingEnds` the part that needs fairness: that a step which can be taken is.

## 5. Findings

Each is a run that must end in a violation, with the line that the repository itself states.

1. `registry_failed_fit`: the timestamp is read back after COMMIT, and when that read meets another
   writer's lock the fit throws though its version is stored (model_registry.cpp:302; "ml_fit stores an
   immutable version ... and returns one row", README.md:65). A caller that retries publishes twice. With two pipeline
   threads one query does: the throw leaves `emitted` unset (ml_fit.cpp:426), so a finalizer that waits for the mutex trains
   and stores again, and the query has stored two versions and returned one row or none. A
   related observation, no finding since no document says otherwise: without a busy handler a reader is
   enough to fail a fit at COMMIT, and concurrent calls may all fail.
2. `fit_threads_no_rows`: with several pipeline threads the first to run out of input trains, or
   reports "no valid training rows were provided", while others hold rows (ml_fit.cpp:384).
3. `fit_threads_failed`: a finalizer that waits for the mutex while a NULL fails the query still trains
   and stores a version (ml_fit.cpp:376). The part of a row pushed before the NULL is still in
   the buffer: a boosted tree batch then fails its shape check, a PCA batch has none and is trained on shifted
   against its rows (ml_fit.cpp:202). `TrainingRowsAreTableRows` therefore leaves this case out (`BatchesCount`).
4. `fit_options_range`: counts are cast to unsigned before they are checked, so -1 is accepted and
   means 2^64 - 1 (boosted_tree_regressor.cpp:390, "must be >= 1" at :146); a NaN passes every range check (:128).

Observed on the way, without a run of its own:

* `ml_evaluate` finalizes as `ml_fit` does: with several threads its metrics may miss the chunks others hold and the
  rest of the row groups they read (ml_evaluate.cpp:273). `MissesOnlyWhatOthersHold` says that it misses nothing else,
  and nothing on one thread. Every
  parity test sets `PRAGMA threads=1`, which hides this and findings 2 and 3.
* Of an even number of errors the upper middle one is reported as the median
  (boosted_tree_regressor.cpp:322), which splits them in halves (`MedianSplitsErrors`) as any value between the two does; the parity test compares with `np.median`, within a tolerance.
* `IncrementalPca::LoadFromModel` (pca.cpp:226) is called from nowhere.
* A batch file's last bytes may be lost without an error when it is written (boosted_tree_regressor.cpp:542);
  `ModelHoldsWholeTable` shows that the read back notices.

Findings 2 and 3 need an input that DuckDB scans with several threads (more than a row group). A query on one thread
is correct but for finding 1, which is what the run `fit` shows of `OneThread`: its model holds the whole table, and if it
fails it has stored nothing unless its insert threw after the commit.

## 6. Not modelled

* Extension registration (`ml_extension.cpp`): it registers five functions at load and keeps no state.
* `sqlite3.h`: a vendored header, 12,180 of the 15,298 lines of implementation; what the code uses of SQLite, its locks
  and transactions, is in `ModelRegistry` as external operators.
* What XGBoost and Eigen compute: boosting, prediction, SHAP values, the SVD; the signs `FlipSigns` chooses, whitening
  and the projection of `Transform`; floating-point rounding.
* Registry path resolution and directory creation (every call is taken to reach the same file); the JSON text of
  `model_table` (`BuildModelTable`), option wording, timestamps: formatting.
* Leaks: a batch file whose writing failed half way and the cache directory (a hazard without a property),
  and the XGBoost handles an error leaves behind (boosted_tree_regressor.cpp:574). Nothing forbids them and nothing reads
  them later.
* Threads of one query share a predictor (ml_predict.cpp:191); that its calls may run at once is XGBoost's promise.

## 7. Plan

The model covers what the repository's own code does, and every invariant, action property and refinement that a run
checks is proved, but for `CallsNeverWait`. What could follow: bytes inside the items of a blob and lengths that
overflow, the projection of `Transform`, and a run for a reader that shares a predictor between threads.
