---------------------------- MODULE FitPipeline ----------------------------
(***************************************************************************)
(* functions/ml_fit.cpp: one ml_fit query.  DuckDB's executor (external)   *)
(* runs the query on a set of pipeline threads that share one              *)
(* MlFitGlobalState: each thread claims a row group of the input table and *)
(* hands its chunks to MlFitFunction, one after the other; when it finds   *)
(* no group any more it calls MlFitFinalize, and again after the row that  *)
(* it emits.  Both handlers hold the state's mutex from start to end, so a *)
(* handler is one action; a thread that has entered a handler may wait for *)
(* the mutex while others go on, also while another thread's exception is  *)
(* failing the query.                                                      *)
(*                                                                         *)
(* A row is a name, a cell is the pair of a row and a column, so that a    *)
(* training row that is not a row of the table can be told.                *)
(***************************************************************************)
EXTENDS Naturals, Sequences, FiniteSets, SequencesExt

CONSTANTS
    Threads,         \* pipeline threads DuckDB may start
    ModelTypes,      \* model types to explore: "pca", "boosted_tree_regressor"
    Tables,          \* input tables: sequences of chunks, a chunk a sequence of rows
    NullCells,       \* choices for the set of NULL cells of the input
    NFeatures,       \* feature columns; column 0 is the label of a boosted tree
    FlushRows,       \* FLUSH_ROWS
    InsertOutcomes,  \* InsertModelRegistryEntry: "ok", "failed", or "lost" (stored, then threw)
    WriteFaults      \* whether writing a batch file may fail

ASSUME ModelTypeAssumption == ModelTypes \subseteq {"pca", "boosted_tree_regressor"}
ASSUME NFeaturesAssumption == NFeatures \in Nat \ {0}
ASSUME FlushRowsAssumption == FlushRows \in Nat \ {0}
ASSUME OutcomeAssumption == InsertOutcomes \subseteq {"ok", "failed", "lost"}
ASSUME WriteFaultsAssumption == WriteFaults \in BOOLEAN

VARIABLES
    modelType,  \* model_type
    table,      \* the input table of the query
    nulls,      \* its NULL cells
    taken,      \* chunks of the row groups that threads have claimed
    next, last, \* the chunks of its row group that thread t has yet to read: next[t]..last[t]
    pc,         \* pc[t]: where thread t is
    chunk,      \* chunk[t]: the chunk t works on
    pending,    \* pending_data / pending_feature_data, pending_labels, pending_rows
    batches,    \* batches given to PartialFit, or written to batch_files
    files,      \* batch files on disk
    tracked,    \* batch_files: the files the destructor unlinks
    nextBatch,  \* next_batch_id
    emitted,    \* emitted
    published,  \* models this query has stored in the registry
    outputs,    \* result rows handed to DuckDB
    errors,     \* what the handlers have thrown
    closed      \* the query is over and its global state destroyed

input == <<modelType, table, nulls>>
store == <<batches, files, tracked, nextBatch>>
result == <<emitted, published, outputs>>
source == <<taken, next, last>>
vars == <<input, source, pc, chunk, pending, store, result, errors, closed>>

BoostedTree == modelType = "boosted_tree_regressor"
Features == 1..NFeatures
Label == 0

Nothing == [cells |-> <<>>, labels |-> <<>>, rows |-> 0]

Failing == errors # {}

Init ==
    /\ modelType \in ModelTypes
    /\ table \in Tables
    /\ nulls \in NullCells
    /\ taken = 0
    /\ next = [t \in Threads |-> 1] /\ last = [t \in Threads |-> 0]
    /\ \E started \in (SUBSET Threads) \ {{}} :
          pc = [t \in Threads |-> IF t \in started THEN "running" ELSE "unused"]
    /\ chunk = [t \in Threads |-> <<>>]
    /\ pending = Nothing
    /\ batches = <<>> /\ files = {} /\ tracked = <<>> /\ nextBatch = 0
    /\ emitted = FALSE /\ published = <<>> /\ outputs = 0
    /\ errors = {}
    /\ closed = FALSE

-----------------------------------------------------------------------------
\* DuckDB's executor: after an exception it starts no further call.

\* How many chunks a row group has is up to the source.
ClaimRowGroup(t) ==
    /\ pc[t] = "running" /\ ~Failing
    /\ next[t] > last[t] /\ taken < Len(table)
    /\ taken' \in (taken + 1)..Len(table)
    /\ next' = [next EXCEPT ![t] = taken + 1]
    /\ last' = [last EXCEPT ![t] = taken']
    /\ UNCHANGED <<input, pc, chunk, pending, store, result, errors, closed>>

TakeChunk(t) ==
    /\ pc[t] = "running" /\ ~Failing
    /\ next[t] <= last[t]
    /\ next' = [next EXCEPT ![t] = next[t] + 1]
    /\ chunk' = [chunk EXCEPT ![t] = table[next[t]]]
    /\ pc' = [pc EXCEPT ![t] = "function"]
    /\ UNCHANGED <<input, taken, last, pending, store, result, errors, closed>>

\* Other threads may still have most of their row groups to read.
EndOfInput(t) ==
    /\ pc[t] = "running" /\ ~Failing
    /\ next[t] > last[t] /\ taken = Len(table)
    /\ pc' = [pc EXCEPT ![t] = "finalize"]
    /\ UNCHANGED <<input, source, chunk, pending, store, result, errors, closed>>

-----------------------------------------------------------------------------
\* FlushPendingRows and FlushPendingBoostedTreeRows, on the buffer p.
\* Definitions without a use are changed forms of the one that follows them:
\* what a property must notice.

BatchByColumn(p) ==
    [i \in 1..p.rows |->
        [label |-> IF BoostedTree THEN p.labels[i] ELSE "none",
         cells |-> [f \in Features |-> p.cells[(f - 1) * p.rows + i]]]]

\* Row i of the batch is built by position: cells (i-1)*n+1 .. i*n of the buffer.
BatchOf(p) ==
    [i \in 1..p.rows |->
        [label |-> IF BoostedTree THEN p.labels[i] ELSE "none",
         cells |-> [f \in Features |-> p.cells[(i - 1) * NFeatures + f]]]]

ShapeUnchecked(p) == TRUE

ShapeIsConsistent(p) ==
    BoostedTree => Len(p.cells) = p.rows * NFeatures /\ Len(p.labels) = p.rows

KeptRows(p) == p
ClearedBuffer(p) == Nothing

NextBatchId == nextBatch + 1

TrackedBefore == tracked
TrackedAfter == Append(tracked, nextBatch)

\* A boosted tree batch is tracked after it is written; a PCA batch goes to
\* PartialFit.
FlushSucceeds(p) ==
    IF p.rows = 0
         THEN pending' = p /\ UNCHANGED store
         ELSE /\ ShapeIsConsistent(p)
              /\ pending' = ClearedBuffer(p)
              /\ batches' = Append(batches, BatchOf(p))
              /\ IF BoostedTree
                   THEN /\ nextBatch' = NextBatchId
                        /\ files' = files \union {nextBatch}
                        /\ tracked' = TrackedAfter
                   ELSE UNCHANGED <<nextBatch, files, tracked>>

\* WriteBoostedTreeBatchFile throws: at the shape check, at opening the file, or
\* at writing it, when the file is there.
FlushThrows(p) ==
    /\ BoostedTree /\ p.rows > 0
    /\ pending' = p
    /\ nextBatch' = nextBatch + 1
    /\ \/ ~ShapeIsConsistent(p) /\ UNCHANGED files
       \/ ShapeIsConsistent(p) /\ WriteFaults /\ files' \in {files, files \union {nextBatch}}
    /\ UNCHANGED <<batches, tracked>>

-----------------------------------------------------------------------------
\* MlFitFunction

IsNull(row, col) == <<row, col>> \in nulls
Columns == IF BoostedTree THEN Features \union {Label} ELSE Features
HasNull(row) == \E col \in Columns : IsNull(row, col)

CellsOf(rows) ==
    [i \in 1..(Len(rows) * NFeatures) |->
        <<rows[((i - 1) \div NFeatures) + 1], ((i - 1) % NFeatures) + 1>>]

\* The complete rows before the first NULL of the chunk.
GoodRows(ch) ==
    LET first == SelectInSeq(ch, HasNull)
    IN  IF first = 0 THEN ch ELSE SubSeq(ch, 1, first - 1)

\* The cells of a row that were pushed before its first NULL was met.
PartialCells(row) ==
    [f \in 1..Cardinality({g \in Features : \A h \in 1..g : ~IsNull(row, h)}) |-> <<row, f>>]

\* The buffer after the rows of a chunk, up to its first NULL if it has one.
Pushed(p, ch) ==
    LET good == GoodRows(ch)
        bad == ch[Len(good) + 1]
        all == [cells |-> p.cells \o CellsOf(good),
                labels |-> IF BoostedTree THEN p.labels \o good ELSE p.labels,
                rows |-> p.rows + Len(good)]
    IN  IF good = ch \/ (BoostedTree /\ IsNull(bad, Label))
          THEN all
          ELSE [all EXCEPT !.cells = @ \o PartialCells(bad),
                           !.labels = IF BoostedTree THEN Append(@, bad) ELSE @]

Fails(t, why) ==
    /\ errors' = errors \union {why}
    /\ pc' = [pc EXCEPT ![t] = "failed"]

FlushIsDueLate(p) == p.rows > FlushRows
FlushIsDue(p) == p.rows >= FlushRows

\* The whole chunk is buffered before the buffer is flushed; an empty chunk
\* returns at once, whatever is pending.
FunctionReturns(t) ==
    LET p == Pushed(pending, chunk[t])
    IN  /\ pc[t] = "function"
        /\ GoodRows(chunk[t]) = chunk[t]
        /\ IF chunk[t] # <<>> /\ FlushIsDue(p)
             THEN FlushSucceeds(p)
             ELSE pending' = p /\ UNCHANGED store
        /\ pc' = [pc EXCEPT ![t] = "running"]
        /\ UNCHANGED <<input, source, chunk, result, errors, closed>>

FunctionMeetsNull(t) ==
    /\ pc[t] = "function"
    /\ GoodRows(chunk[t]) # chunk[t]
    /\ pending' = Pushed(pending, chunk[t])
    /\ Fails(t, "null")
    /\ UNCHANGED <<input, source, chunk, store, result, closed>>

FunctionFlushThrows(t) ==
    LET p == Pushed(pending, chunk[t])
    IN  /\ pc[t] = "function"
        /\ chunk[t] # <<>> /\ GoodRows(chunk[t]) = chunk[t]
        /\ FlushIsDue(p)
        /\ FlushThrows(p)
        /\ Fails(t, "write")
        /\ UNCHANGED <<input, source, chunk, result, closed>>

-----------------------------------------------------------------------------
\* MlFitFinalize

FinalizeEmitsForever(t) ==
    /\ pc[t] = "finalize"
    /\ emitted
    /\ pc' = [pc EXCEPT ![t] = "emitting"]
    /\ UNCHANGED <<input, source, chunk, pending, store, result, errors, closed>>

FinalizeAgain(t) ==
    /\ pc[t] = "finalize"
    /\ emitted
    /\ pc' = [pc EXCEPT ![t] = "finished"]
    /\ UNCHANGED <<input, source, chunk, pending, store, result, errors, closed>>

FinalizeStoresFirst(t) ==
    /\ pc[t] = "finalize" /\ ~emitted
    /\ FlushThrows(pending)
    /\ Fails(t, "write")
    /\ published' = Append(published, batches)
    /\ UNCHANGED <<input, source, chunk, emitted, outputs, closed>>

FinalizeFlushThrows(t) ==
    /\ pc[t] = "finalize" /\ ~emitted
    /\ FlushThrows(pending)
    /\ Fails(t, "write")
    /\ UNCHANGED <<input, source, chunk, result, closed>>

NothingToTrain == batches' = <<>>

\* "ml_fit could not train model: no valid training rows were provided"
FinalizeWithoutRows(t) ==
    /\ pc[t] = "finalize" /\ ~emitted
    /\ FlushSucceeds(pending)
    /\ NothingToTrain
    /\ Fails(t, "no rows")
    /\ UNCHANGED <<input, source, chunk, result, closed>>

UnflushedData == batches
TrainingData == batches'

Stores(outcome) == outcome # "failed"

NeverEmitted(outcome) == FALSE
Emitted(outcome) == outcome = "ok"

\* Train on everything flushed so far and store the model.  emitted is set
\* only after the insert has returned, so an insert that throws leaves the next
\* finalizer to train and insert again, also one that throws after its COMMIT;
\* HAVE_MORE_OUTPUT makes the thread call again.
FinalizeTrains(t) ==
    /\ pc[t] = "finalize" /\ ~emitted
    /\ FlushSucceeds(pending)
    /\ ~NothingToTrain
    /\ \E outcome \in InsertOutcomes :
          /\ published' = IF Stores(outcome) THEN Append(published, TrainingData) ELSE published
          /\ emitted' = Emitted(outcome)
          /\ IF outcome = "ok"
               THEN /\ outputs' = outputs + 1
                    /\ pc' = [pc EXCEPT ![t] = "emitting"]
                    /\ UNCHANGED errors
               ELSE Fails(t, IF outcome = "lost" THEN "lost" ELSE "insert") /\ UNCHANGED outputs
    /\ UNCHANGED <<input, source, chunk, closed>>

\* The executor takes the result row and calls the finalizer again.
TakeResult(t) ==
    /\ pc[t] = "emitting" /\ ~Failing
    /\ pc' = [pc EXCEPT ![t] = "finalize"]
    /\ UNCHANGED <<input, source, chunk, pending, store, result, errors, closed>>

\* ~MlFitGlobalState, when no thread is left in a handler.
Close ==
    /\ ~closed
    /\ \A t \in Threads : \/ pc[t] \in {"unused", "finished", "failed"}
                          \/ Failing /\ pc[t] \in {"running", "emitting"}
    /\ closed' = TRUE
    /\ files' = files \ ToSet(tracked)
    /\ UNCHANGED <<input, source, pc, chunk, pending, batches, tracked, nextBatch, result, errors>>

Step(t) ==
    \/ ClaimRowGroup(t) \/ TakeChunk(t) \/ EndOfInput(t)
    \/ FunctionReturns(t) \/ FunctionMeetsNull(t) \/ FunctionFlushThrows(t)
    \/ FinalizeAgain(t) \/ FinalizeFlushThrows(t) \/ FinalizeWithoutRows(t)
    \/ FinalizeTrains(t) \/ TakeResult(t)

Next == Close \/ \E t \in Threads : Step(t)

Spec == Init /\ [][Next]_vars

\* The scheduler lets every pipeline thread run and destroys the finished query.
FairSpec == Spec /\ WF_vars(Close) /\ \A t \in Threads : WF_vars(Step(t))

-----------------------------------------------------------------------------
AllRows == UNION {ToSet(table[i]) : i \in DOMAIN table}

\* The places of a model's training rows.
RowsIn(model) == UNION {{b} \X DOMAIN model[b] : b \in DOMAIN model}
RowAt(model, k) == model[k[1]][k[2]]

TypeOK ==
    /\ taken \in 0..Len(table)
    /\ next \in [Threads -> 1..(Len(table) + 1)] /\ last \in [Threads -> 0..taken]
    /\ pc \in [Threads -> {"unused", "running", "function", "finalize", "emitting", "finished", "failed"}]
    /\ pending.rows \in Nat
    /\ nextBatch \in Nat /\ \A f \in files : f \in Nat /\ f < nextBatch
    /\ emitted \in BOOLEAN /\ closed \in BOOLEAN
    /\ errors \subseteq {"null", "write", "no rows", "insert", "lost"}
    /\ outputs \in Nat

\* DuckDB may start one thread, as after PRAGMA threads=1 or for a small table.
OneThread == Cardinality({t \in Threads : pc[t] # "unused"}) = 1

\* A NULL in the middle of a row leaves part of it in the buffer.  A boosted tree
\* batch then fails its shape check; a PCA batch has none, and one that a waiting
\* thread flushes after the failure is shifted against the rows.
BatchesCount == BoostedTree \/ OneThread \/ "null" \notin errors

\* Every row a model is trained on is one row of the table: its cells, in order,
\* and its own label, never cells of two rows shifted into one.
TrainingRowsAreTableRows ==
    BatchesCount =>
        \A b \in DOMAIN batches : \A i \in DOMAIN batches[b] :
            \E row \in AllRows :
                /\ batches[b][i].cells = [f \in Features |-> <<row, f>>]
                /\ BoostedTree => batches[b][i].label = row

\* No row is trained on twice, whichever thread brought it and however often
\* a flush was tried.
NoRowTwice ==
    BatchesCount =>
        \A j, k \in RowsIn(batches) :
            RowAt(batches, j).cells[1] = RowAt(batches, k).cells[1] => j = k

\* What one thread stores was trained on the whole table.
ModelHoldsEveryRow ==
    OneThread =>
        \A m \in DOMAIN published :
            {RowAt(published[m], k).cells[1] : k \in RowsIn(published[m])} = AllRows \X {1}

\* A query shows at most one result row, and stores the version that row names
\* and no other: but for the inserts that threw after they had stored, each of
\* which has failed a thread.  (One such insert, and a finalizer that waited
\* behind it, and a query has stored two versions.)
StoredAtMostOnce ==
    /\ outputs <= 1
    /\ "lost" \notin errors => Len(published) = outputs
    /\ Len(published) <= outputs + Cardinality({t \in Threads : pc[t] = "failed"})

\* A query that fails has stored nothing.
FailedQueryStoresNothing == Failing => published = <<>>

\* If it runs on one thread, that is so unless it is the insert that failed it
\* and threw after it had stored.
LoneFailureStoresNothing == OneThread /\ "lost" \notin errors => FailedQueryStoresNothing

\* "no valid training rows were provided" is said only of a table without rows.
NoRowsErrorMeansNoRows == "no rows" \in errors => AllRows = {}

\* Between calls less than FLUSH_ROWS rows wait in memory, and no batch holds the
\* table: it is at most a chunk longer than the threshold ("no full-table
\* materialization").
MemoryIsBounded ==
    Failing \/
    /\ pending.rows < FlushRows
    /\ \A b \in DOMAIN batches : \E i \in DOMAIN table :
          Len(batches[b]) < FlushRows + Len(table[i])

\* The destructor leaves none of the query's batch files behind, but for one
\* whose writing failed half way.
NoBatchFileLeft == closed /\ "write" \notin errors => files = {}

\* The query ends, with its one result row or an error; on one thread and over
\* rows without NULLs the only errors are the disk's and the registry's.
CleanInput == nulls = {} /\ AllRows # {}
QueryEnds ==
    <>[](/\ closed
         /\ outputs = 1 \/ Failing
         /\ OneThread /\ CleanInput =>
               outputs = 1 \/ errors \intersect {"write", "insert", "lost"} # {})

=============================================================================
