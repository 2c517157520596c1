-------------------------- MODULE EvaluatePipeline --------------------------
(***************************************************************************)
(* functions/ml_evaluate.cpp: one ml_evaluate query.  As in FitPipeline,   *)
(* DuckDB's executor (external) runs the query on pipeline threads that    *)
(* share one MlEvaluateGlobalState.  MlEvaluateFunction reads its chunk    *)
(* and predicts without the mutex, and takes it only to update the         *)
(* accumulators: two steps, between which any other thread may run,        *)
(* finalize, or fail.  MlEvaluateFinalize holds the mutex throughout.      *)
(*                                                                         *)
(* What the accumulators hold is the sequence of rows they were updated    *)
(* with; RegressionMetrics and IncrementalPca say what they make of it.    *)
(***************************************************************************)
EXTENDS Naturals, Sequences, FiniteSets, SequencesExt, Functions

CONSTANTS
    Threads,     \* pipeline threads DuckDB may start
    ModelTypes,  \* model types to explore: "pca", "boosted_tree_regressor"
    Tables,      \* input tables: sequences of chunks, a chunk a sequence of rows
    NullCells,   \* choices for the set of NULL cells <<row, column>> of the input
    Features     \* the feature columns of the model; "label" is the label's

ASSUME ModelTypeAssumption == ModelTypes \subseteq {"pca", "boosted_tree_regressor"}
ASSUME FeaturesAssumption == "label" \notin Features

VARIABLES
    modelType,  \* bind_data.model_type
    table,      \* the input table of the query
    nulls,      \* its NULL cells
    taken,      \* chunks of the row groups the source has handed out
    next,       \* next[t]..last[t]: the chunks of its row group that t has still
    last,       \*    to read
    pc,         \* pc[t]: where thread t is
    chunk,      \* chunk[t]: the chunk t works on, then its predictions
    evaluated,  \* rows in original_moments and projected_moments, or in metrics_acc
    emitted,    \* emitted
    results,    \* what each result row handed to DuckDB was computed from
    failed      \* a handler has thrown

input == <<modelType, table, nulls>>
source == <<taken, next, last>>
vars == <<input, source, pc, chunk, evaluated, emitted, results, failed>>

Columns == IF modelType = "pca" THEN Features ELSE Features \union {"label"}

Init ==
    /\ modelType \in ModelTypes
    /\ table \in Tables
    /\ nulls \in NullCells
    /\ taken = 0
    /\ next = [t \in Threads |-> 1] /\ last = [t \in Threads |-> 0]
    /\ \E started \in (SUBSET Threads) \ {{}} :
          pc = [t \in Threads |-> IF t \in started THEN "running" ELSE "unused"]
    /\ chunk = [t \in Threads |-> <<>>]
    /\ evaluated = <<>>
    /\ emitted = FALSE
    /\ results = <<>>
    /\ failed = FALSE

Goto(t, p) == pc' = [pc EXCEPT ![t] = p]

-----------------------------------------------------------------------------
\* DuckDB's executor: after an exception it starts no further call.

\* A row group is one chunk or several, as the source makes them.
ClaimRowGroup(t) ==
    /\ pc[t] = "running" /\ ~failed
    /\ next[t] > last[t] /\ taken < Len(table)
    /\ taken' \in (taken + 1)..Len(table)
    /\ next' = [next EXCEPT ![t] = taken + 1]
    /\ last' = [last EXCEPT ![t] = taken']
    /\ UNCHANGED <<input, pc, chunk, evaluated, emitted, results, failed>>

TakeChunk(t) ==
    /\ pc[t] = "running" /\ ~failed
    /\ next[t] <= last[t]
    /\ next' = [next EXCEPT ![t] = next[t] + 1]
    /\ chunk' = [chunk EXCEPT ![t] = table[next[t]]]
    /\ Goto(t, "function")
    /\ UNCHANGED <<input, taken, last, evaluated, emitted, results, failed>>

\* No row group is left; those of other threads may be read in small part only.
EndOfInput(t) ==
    /\ pc[t] = "running" /\ ~failed
    /\ next[t] > last[t] /\ taken = Len(table)
    /\ Goto(t, "finalize")
    /\ UNCHANGED <<input, source, chunk, evaluated, emitted, results, failed>>

-----------------------------------------------------------------------------
\* MlEvaluateFunction
\* Definitions without a use are changed forms of the one that follows them:
\* what a property must notice.

IsWhole(ch) == \A i \in DOMAIN ch, col \in Columns : <<ch[i], col>> \notin nulls

\* Every value of the chunk is read, and its predictions made, before the lock;
\* an empty chunk needs neither.
ReadChunk(t) ==
    /\ pc[t] = "function"
    /\ IsWhole(chunk[t])
    /\ Goto(t, IF chunk[t] = <<>> THEN "running" ELSE "update")
    /\ UNCHANGED <<input, source, chunk, evaluated, emitted, results, failed>>

ReadNullKeepsRows(t) ==
    /\ pc[t] = "function"
    /\ ~IsWhole(chunk[t])
    /\ evaluated' = evaluated \o <<Head(chunk[t])>>
    /\ Goto(t, "failed")
    /\ failed' = TRUE
    /\ UNCHANGED <<input, source, chunk, emitted, results>>

ReadNullSkipsChunk(t) ==
    /\ pc[t] = "function"
    /\ ~IsWhole(chunk[t])
    /\ Goto(t, "running")
    /\ UNCHANGED <<input, source, chunk, evaluated, emitted, results, failed>>

\* Nothing of a chunk with a NULL has reached the accumulators when it throws.
ReadNull(t) ==
    /\ pc[t] = "function"
    /\ ~IsWhole(chunk[t])
    /\ Goto(t, "failed")
    /\ failed' = TRUE
    /\ UNCHANGED <<input, source, chunk, evaluated, emitted, results>>

\* Under one hold of the mutex, the moments of the features and of their
\* projection, or the metrics of labels and predictions.
UpdateMoments(t) ==
    /\ pc[t] = "update"
    /\ evaluated' = evaluated \o chunk[t]
    /\ Goto(t, "running")
    /\ UNCHANGED <<input, source, chunk, emitted, results, failed>>

-----------------------------------------------------------------------------
\* MlEvaluateFinalize: also over no rows at all it emits a result, of zeros.

FinalizeEmitsForever(t) ==
    /\ pc[t] = "finalize"
    /\ emitted
    /\ Goto(t, "emitting")
    /\ UNCHANGED <<input, source, chunk, evaluated, emitted, results, failed>>

FinalizeAgain(t) ==
    /\ pc[t] = "finalize"
    /\ emitted
    /\ Goto(t, "finished")
    /\ UNCHANGED <<input, source, chunk, evaluated, emitted, results, failed>>

FinalizeEmits(t) ==
    /\ pc[t] = "finalize"
    /\ ~emitted
    /\ results' = Append(results, evaluated)
    /\ emitted' = TRUE
    /\ Goto(t, "emitting")
    /\ UNCHANGED <<input, source, chunk, evaluated, failed>>

\* The executor takes the result row and calls the finalizer again.
TakeResult(t) ==
    /\ pc[t] = "emitting" /\ ~failed
    /\ Goto(t, "finalize")
    /\ UNCHANGED <<input, source, chunk, evaluated, emitted, results, failed>>

Step(t) ==
    \/ ClaimRowGroup(t) \/ TakeChunk(t) \/ EndOfInput(t)
    \/ ReadChunk(t) \/ ReadNull(t) \/ UpdateMoments(t)
    \/ FinalizeAgain(t) \/ FinalizeEmits(t) \/ TakeResult(t)

Next == \E t \in Threads : Step(t)

Spec == Init /\ [][Next]_vars

\* The scheduler lets every pipeline thread run.
FairSpec == Spec /\ \A t \in Threads : WF_vars(Step(t))

-----------------------------------------------------------------------------
RowSet == UNION {ToSet(table[i]) : i \in DOMAIN table}
NoNulls(rows) == \A row \in rows, col \in Columns : <<row, col>> \notin nulls

\* What a thread has read but not yet put into the accumulators.
InFlight(t) == IF pc[t] \in {"function", "update"} THEN ToSet(chunk[t]) ELSE {}

\* Each row is evaluated at most once, and a chunk as a whole or not at all: a
\* chunk counts if its row group was handed out, it has been read, is no longer
\* in a thread's hands and had no NULL.
EvaluatedChunks ==
    LET done == {i \in 1..taken :
                    /\ \A t \in Threads : /\ i \notin next[t]..last[t]
                                         /\ ToSet(table[i]) \intersect InFlight(t) = {}
                    /\ NoNulls(ToSet(table[i]))}
    IN  /\ ToSet(evaluated) = UNION {ToSet(table[i]) : i \in done}
        /\ IsInjective(evaluated)

\* Chunk i is with thread t, which has claimed it, works on it, or failed on it.
HasTaken(t, i) == pc[t] \in {"function", "update", "failed"} /\ chunk[t] = table[i]
Holds(t, i) == i \in next[t]..last[t] \/ HasTaken(t, i)

\* When a thread hands out a result, every chunk the result lacks rows of is with
\* another thread: with one thread alone (as boosted_tree_regressor.py expects,
\* with its threads=1), a result is over every row of the table, and with several
\* no row is lost that no thread answers for, NULLs and failures included.
ResultLacks(i) == ~(ToSet(table[i]) \subseteq ToSet(Last(results')))
MissesOnlyWhatOthersHold ==
    [][\A t \in Threads : FinalizeEmits(t) =>
          \A i \in DOMAIN table : ResultLacks(i) => \E u \in Threads \ {t} : Holds(u, i)]_vars

\* The query ends for good, failed or with one result row.
Ended == \A t \in Threads : \/ pc[t] \in {"unused", "finished", "failed"}
                            \/ failed /\ pc[t] \in {"running", "emitting"}
QueryEnds == <>[](Ended /\ (failed \/ Len(results) = 1))

=============================================================================
