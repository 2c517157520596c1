---------------------------- MODULE TreeTraining ----------------------------
(***************************************************************************)
(* algorithms/boosted_tree_regressor.cpp: how a boosted tree is trained on *)
(* the batch files of FitPipeline, stored, and loaded to predict.          *)
(*                                                                         *)
(* XGBoost (external) builds its training matrix by calling the iterator   *)
(* back: it resets it, asks for batch after batch, and looks at each       *)
(* through a proxy that only points into the iterator's one buffer.  It    *)
(* makes as many passes as it likes, two at least for "hist", and may      *)
(* leave one and begin again.  Each of its calls may fail.                 *)
(*                                                                         *)
(* The stream that wrote a file was asked for errors before it was closed, *)
(* so the end of a file may be missing; a file may also be removed.        *)
(***************************************************************************)
EXTENDS ModelBlob

CONSTANTS
    BatchLists,     \* what ml_fit may have written: sequences of batches of rows
    Methods,        \* tree_method: "hist", "approx"
    Iterations,     \* max_iterations
    ParallelTrees,  \* num_parallel_tree
    NFeatures,      \* feature columns
    MaxPasses       \* bound: passes XGBoost finishes

ASSUME MethodsAssumption == Methods \subseteq {"hist", "approx"}
ASSUME IterationsAssumption == Iterations \subseteq Nat \ {0}
ASSUME ParallelTreesAssumption == ParallelTrees \subseteq Nat \ {0}
ASSUME NFeaturesAssumption == NFeatures \in Nat \ {0}
ASSUME MaxPassesAssumption == MaxPasses \in Nat \ {0, 1}

VARIABLES
    batches,        \* the rows handed to WriteBoostedTreeBatchFile, file by file
    options,        \* tree_method, max_iterations and num_parallel_tree
    disk,           \* disk[i]: what is left of file i: [cols, rows, state]
    pc,             \* where TrainBoostedTreeRegressorFromBatchFiles is
    current_batch,  \* iter.current_batch
    current,        \* iter.current, the buffer: where it is, its room, its rows
    proxy,          \* what the proxy points to: a place and a number of rows
    seen,           \* rows XGBoost was shown in this pass
    passes,         \* passes it has finished
    abandoned,      \* it has left one
    rounds,         \* rounds boosted so far, of num_parallel_tree trees each
    stored,         \* the model_blob
    predictor       \* BoostedTreePredictor

files == <<batches, options>>
iterator == <<current_batch, current, proxy>>
xgboost == <<seen, passes, abandoned>>
vars == <<files, disk, pc, iterator, xgboost, rounds, stored, predictor>>

Goto(p) == pc' = p

\* What memory the buffer has left holds: no row of the table.
Garbage == 0

Init ==
    /\ batches \in BatchLists
    /\ options \in [tree_method : Methods, max_iterations : Iterations,
                   num_parallel_tree : ParallelTrees]
    /\ disk = [i \in DOMAIN batches |->
                  [cols |-> NFeatures, rows |-> batches[i], state |-> "whole"]]
    /\ pc = "check"
    /\ current_batch = 0
    /\ current = [at |-> 0, room |-> 0, rows |-> <<>>]
    /\ proxy = [at |-> 0, rows |-> 0]
    /\ seen = <<>>
    /\ passes = 0
    /\ abandoned = FALSE
    /\ rounds = 0
    /\ stored = <<>>
    /\ predictor = <<>>

-----------------------------------------------------------------------------
\* The directory of the batch files (external), damaged once.

Short(file) == [file EXCEPT !.rows = Front(@), !.state = "short"]
Gone(file) == [file EXCEPT !.rows = <<>>, !.state = "gone"]

LoseEnd(i) ==
    /\ \A k \in DOMAIN disk : disk[k].state = "whole"
    /\ disk' = [disk EXCEPT ![i] = Short(@)]
    /\ UNCHANGED <<files, pc, iterator, xgboost, rounds, stored, predictor>>

LoseFile(i) ==
    /\ \A k \in DOMAIN disk : disk[k].state = "whole"
    /\ disk' = [disk EXCEPT ![i] = Gone(@)]
    /\ UNCHANGED <<files, pc, iterator, xgboost, rounds, stored, predictor>>

-----------------------------------------------------------------------------
\* "boosted_tree_regressor requires at least one training row"
RefuseNoBatch ==
    /\ pc = "check"
    /\ batches = <<>>
    /\ Goto("failed")
    /\ UNCHANGED <<files, disk, iterator, xgboost, rounds, stored, predictor>>

CreateProxy ==
    /\ pc = "check"
    /\ batches # <<>>
    /\ Goto("between")
    /\ UNCHANGED <<files, disk, iterator, xgboost, rounds, stored, predictor>>

\* A call that fails throws out of the function, and what it had created stays.
XGBoostFails ==
    /\ pc \in {"between", "ask", "show", "boost", "stored"}
    /\ Goto("failed")
    /\ UNCHANGED <<files, disk, iterator, xgboost, rounds, stored, predictor>>

-----------------------------------------------------------------------------
\* ExternalMemoryReset, called by XGBoost before each pass.
\* Definitions without a use are changed forms of the one that follows them:
\* what a property must notice.

MayBegin == \/ pc = "between" /\ passes < MaxPasses
            \/ pc = "ask" /\ ~abandoned

ResetKeepsBatch ==
    /\ MayBegin
    /\ seen' = <<>>
    /\ abandoned' = (abandoned \/ pc = "ask")
    /\ Goto("ask")
    /\ UNCHANGED <<files, disk, iterator, passes, rounds, stored, predictor>>

ExternalMemoryReset ==
    /\ MayBegin
    /\ current_batch' = 0
    /\ seen' = <<>>
    /\ abandoned' = (abandoned \/ pc = "ask")
    /\ Goto("ask")
    /\ UNCHANGED <<files, disk, current, proxy, passes, rounds, stored, predictor>>

-----------------------------------------------------------------------------
\* ExternalMemoryNext

AtEnd == current_batch >= Len(batches)
NextFile == disk[current_batch + 1]

ExternalMemoryEnd ==
    /\ pc = "ask"
    /\ AtEnd
    /\ current_batch' = 0
    /\ passes' = passes + 1
    /\ Goto("between")
    /\ UNCHANGED <<files, disk, current, proxy, seen, abandoned, rounds, stored, predictor>>

ReadableIfThere(file) == file.state # "gone" /\ file.cols = NFeatures
\* ReadBoostedTreeBatchFile: a file that is missing or too short throws, and so
\* does one with another number of columns.
Readable(file) == file.state = "whole" /\ file.cols = NFeatures

\* resize() moves the buffer when its room is too small.
Resized(file) ==
    IF Len(file.rows) <= current.room THEN [current EXCEPT !.rows = file.rows]
    ELSE [at |-> current.at + 1, room |-> Len(file.rows), rows |-> file.rows]

InterfaceBeforeRead(file) == [at |-> current.at, rows |-> Len(file.rows)]

\* DenseArrayInterfaceJson of the buffer just filled.
Interface(file) == [at |-> Resized(file).at, rows |-> Len(file.rows)]

ExternalMemoryNext ==
    /\ pc = "ask"
    /\ ~AtEnd
    /\ Readable(NextFile)
    /\ current' = Resized(NextFile)
    /\ proxy' = Interface(NextFile)
    /\ current_batch' = current_batch + 1
    /\ Goto("show")
    /\ UNCHANGED <<files, disk, xgboost, rounds, stored, predictor>>

\* The exception leaves through XGBoost, whose call fails.
ExternalMemoryThrows ==
    /\ pc = "ask"
    /\ ~AtEnd
    /\ ~Readable(NextFile)
    /\ Goto("failed")
    /\ UNCHANGED <<files, disk, iterator, xgboost, rounds, stored, predictor>>

\* XGBoost looks at the batch through the proxy.
LookAtProxy ==
    /\ pc = "show"
    /\ seen' = seen \o (IF proxy.at = current.at THEN SubSeq(current.rows, 1, proxy.rows)
                        ELSE [i \in 1..proxy.rows |-> Garbage])
    /\ Goto("ask")
    /\ UNCHANGED <<files, disk, iterator, passes, abandoned, rounds, stored, predictor>>

-----------------------------------------------------------------------------
\* The training matrix is there; the booster is created and its parameters set.
PassesNeeded == IF options.tree_method = "hist" THEN 2 ELSE 1

CreateBooster ==
    /\ pc = "between"
    /\ passes >= PassesNeeded
    /\ Goto("boost")
    /\ UNCHANGED <<files, disk, iterator, xgboost, rounds, stored, predictor>>

UpdateForever ==
    /\ pc = "boost"
    /\ rounds < options.max_iterations
    /\ UNCHANGED vars

\* XGBoosterUpdateOneIter
UpdateOneIter ==
    /\ pc = "boost"
    /\ rounds < options.max_iterations
    /\ rounds' = rounds + 1
    /\ UNCHANGED <<files, disk, pc, iterator, xgboost, stored, predictor>>

\* The booster as XGBoosterSaveModelToBuffer writes it.
Booster == [trees |-> rounds * options.num_parallel_tree,
            num_parallel_tree |-> options.num_parallel_tree, rows |-> seen]

TrainedModel ==
    [model_type |-> "boosted_tree_regressor", label |-> "y", booster_type |-> "gbtree",
     max_iterations |-> options.max_iterations,
     feature_names |-> [i \in 1..NFeatures |-> <<"feature", i>>],
     xgboost_model_blob |-> Booster]

SaveModel ==
    /\ pc = "boost"
    /\ rounds = options.max_iterations
    /\ stored' = SerializeBoostedTreeRegressorModel(TrainedModel)
    /\ Goto("stored")
    /\ UNCHANGED <<files, disk, iterator, xgboost, rounds, predictor>>

-----------------------------------------------------------------------------
\* BoostedTreePredictor::Impl, made by ml_predict, ml_evaluate or ml_explain, of
\* the model they read from the registry.

EndOfTrees(model) == model["xgboost_model_blob"].trees
\* XGBoost counts the end in rounds, and refuses one past its last.
IterationEnd(model) == model["max_iterations"]

LoadPredictor ==
    /\ pc = "stored"
    /\ LET model == LoadModel(stored)
       IN  IF model = Refused
             THEN Goto("failed") /\ UNCHANGED predictor
             ELSE /\ predictor' = [n_features |-> Len(model["feature_names"]),
                                   booster |-> model["xgboost_model_blob"],
                                   iteration_end |-> IterationEnd(model)]
                  /\ Goto("ready")
    /\ UNCHANGED <<files, disk, iterator, xgboost, rounds, stored>>

Train ==
    \/ RefuseNoBatch \/ CreateProxy
    \/ ExternalMemoryReset \/ ExternalMemoryEnd \/ ExternalMemoryNext
    \/ ExternalMemoryThrows \/ LookAtProxy
    \/ CreateBooster \/ UpdateOneIter \/ SaveModel

Next ==
    \/ Train
    \/ XGBoostFails \/ LoadPredictor
    \/ \E i \in DOMAIN disk : LoseEnd(i) \/ LoseFile(i)

\* The thread that finalizes the query runs on and XGBoost's calls return; that
\* they fail, or that files are damaged, is never counted on.
Spec == Init /\ [][Next]_vars /\ WF_vars(Train)

-----------------------------------------------------------------------------
AllRows == FlattenSeq(batches)

\* In each of its passes, also one after a pass it left, XGBoost is shown the
\* rows of the files in the order they were written, none of them twice and none
\* that the buffer held before, and in a finished pass all of them.
PassesAreComplete ==
    /\ IsPrefix(seen, AllRows)
    /\ pc = "between" /\ passes > 0 => seen = AllRows

\* A model is one of the whole table, whatever became of the files and whenever:
\* one that lost its end or is gone fails the training, or was no longer needed.
ModelHoldsWholeTable ==
    stored # <<>> => LoadModel(stored)["xgboost_model_blob"].rows = AllRows

\* The rounds a predictor asks for hold every tree of the booster and no more,
\* which are all that the options asked for, however many trees make a round; and
\* it takes the feature count it was trained with.
PredictorUsesEveryRound ==
    pc = "ready" =>
        /\ predictor.iteration_end * predictor.booster.num_parallel_tree
              = predictor.booster.trees
        /\ predictor.booster.trees = options.max_iterations * options.num_parallel_tree
        /\ predictor.n_features = NFeatures

\* The stored model is read back whole, and never from a damaged blob.
StoredTreeIsRead ==
    pc = "stored" => ReadsBack(stored, TrainedModel) /\ RefusesDamage(stored)

\* Training ends, with a model or with an error.
TrainingEnds == <>(pc \in {"failed", "stored"})

=============================================================================
