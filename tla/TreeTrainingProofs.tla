------------------------ MODULE TreeTrainingProofs ------------------------
(***************************************************************************)
(* TreeTraining for every table in batches, method, count of rounds and    *)
(* features, and any number of passes, failures and damaged files: XGBoost *)
(* is shown the table in order and whole, what is stored is the model of   *)
(* all of it, the blob is read back as that model and as nothing else, and *)
(* each step brings the training nearer to its end.                        *)
(***************************************************************************)
EXTENDS TreeTraining, ModelBlobProofs

\* The inductive invariant of the training.

\* What was stored is the model of all rows and all rounds.
StoredIs(f) ==
    /\ stored = SerializeBoostedTreeRegressorModel(TrainedModel)
    /\ rounds = options.max_iterations
    /\ seen = f[Len(batches)]

\* How far XGBoost has seen the batches, which f joins.
SeenInv(f) ==
    /\ current_batch \in 0..Len(batches)
    /\ passes \in Nat
    /\ pc = "check" => seen = <<>> /\ passes = 0
    /\ pc = "between" => seen = IF passes > 0 THEN f[Len(batches)] ELSE <<>>
    /\ pc = "ask" => seen = f[current_batch]
    /\ pc = "show" =>
          /\ current_batch # 0
          /\ seen = f[current_batch - 1]
          /\ proxy.at = current.at
          /\ SubSeq(current.rows, 1, proxy.rows) = batches[current_batch]
    /\ pc = "boost" => seen = f[Len(batches)]
    /\ IsPrefix(seen, f[Len(batches)])
    /\ DOMAIN current = {"at", "room", "rows"}

\* A file that is whole has the rows that were written.
DiskInv ==
    /\ DOMAIN disk = DOMAIN batches
    /\ \A i \in DOMAIN disk :
          /\ DOMAIN disk[i] = {"cols", "rows", "state"}
          /\ disk[i].state = "whole" => disk[i].rows = batches[i]

ModelInv(f) ==
    /\ pc \in {"check", "between", "ask", "show", "boost"} => stored = <<>>
    /\ pc \in {"stored", "ready"} => StoredIs(f)
    /\ stored = <<>> \/ StoredIs(f)
    /\ pc = "ready" =>
          predictor = [n_features |-> NFeatures, booster |-> Booster,
                       iteration_end |-> options.max_iterations]

BatchesInv(R) ==
    /\ batches \in Seq(Seq(R))
    /\ options \in [tree_method : Methods, max_iterations : Iterations,
                   num_parallel_tree : ParallelTrees]
    /\ pc \in {"check", "between", "ask", "show", "boost", "stored", "ready", "failed"}

TrainInv(R) ==
    /\ BatchesInv(R)
    /\ DiskInv
    /\ \E f \in [0..Len(batches) -> Seq(R)] :
          Joins(f, batches, Len(batches)) /\ SeenInv(f) /\ ModelInv(f)

\* What has been read of any batch is part of the whole.
LEMMA SeenStep ==
    ASSUME NEW R, BatchesInv(R), DiskInv,
           NEW f \in [0..Len(batches) -> Seq(R)], Joins(f, batches, Len(batches)),
           SeenInv(f), Next
    PROVE  SeenInv(f)'
<1> DEFINE len == Len(batches)
           Same == UNCHANGED <<seen, passes, current_batch, current, proxy>>
<1>0. /\ len \in Nat /\ DOMAIN batches = 1..len
      /\ \A k \in 1..len : batches[k] \in Seq(R)
      /\ \A k \in 0..len : f[k] \in Seq(R) /\ IsPrefix(f[k], f[len])
      /\ f[0] = <<>>
      /\ \A k \in 1..len : f[k] = f[k - 1] \o batches[k]
  <2>1. \A k \in 0..len : IsPrefix(f[k], f[len])
    BY JoinsArePrefixes DEF BatchesInv
  <2>2. len \in Nat /\ DOMAIN batches = 1..len /\ \A k \in 1..len : batches[k] \in Seq(R)
    BY DEF BatchesInv
  <2>3. f[0] = <<>> /\ \A k \in 1..len : f[k] = f[k - 1] \o batches[k]
    BY DEF Joins
  <2> HIDE DEF len
  <2>4. \A k \in 0..len : f[k] \in Seq(R)
    BY DEF len
  <2> QED
    BY <2>1, <2>2, <2>3, <2>4
<1>1. batches' = batches
  BY DEF Next, Train, RefuseNoBatch, CreateProxy, ExternalMemoryReset, ExternalMemoryEnd,
         ExternalMemoryNext, ExternalMemoryThrows, LookAtProxy, CreateBooster, UpdateOneIter,
         SaveModel, XGBoostFails, LoadPredictor, LoseEnd, LoseFile, files
<1>2. CASE RefuseNoBatch \/ XGBoostFails \/ ExternalMemoryThrows
  <2>1. pc' = "failed" /\ Same
    BY <1>2 DEF RefuseNoBatch, XGBoostFails, ExternalMemoryThrows, Goto, iterator, xgboost
  <2> QED
    BY <1>1, <2>1 DEF SeenInv
<1>3. CASE CreateProxy
  <2>1. pc = "check" /\ pc' = "between" /\ Same
    BY <1>3 DEF CreateProxy, Goto, iterator, xgboost
  <2> QED
    BY <1>1, <2>1 DEF SeenInv
<1>4. CASE ExternalMemoryReset
  <2>1. pc' = "ask" /\ seen' = <<>> /\ current_batch' = 0 /\ UNCHANGED <<passes, current, proxy>>
    BY <1>4 DEF ExternalMemoryReset, Goto
  <2>2. IsPrefix(<<>>, f[len]) /\ 0 \in 0..len
    BY <1>0
  <2> QED
    BY <1>0, <1>1, <2>1, <2>2 DEF SeenInv
<1>5. CASE ExternalMemoryEnd
  <2>1. /\ pc = "ask" /\ pc' = "between" /\ current_batch' = 0 /\ passes' = passes + 1
        /\ seen' = seen /\ current_batch >= len
    BY <1>5 DEF ExternalMemoryEnd, AtEnd, Goto
  <2>3. current' = current
    BY <1>5 DEF ExternalMemoryEnd
  <2>2. seen = f[len] /\ IsPrefix(seen, f[len]) /\ passes' \in Nat /\ passes' > 0 /\ 0 \in 0..len
    <3>1. current_batch = len
      <4>1. current_batch \in 0..len
        BY DEF SeenInv
      <4> HIDE DEF len
      <4> QED
        BY <1>0, <2>1, <4>1
    <3> QED
      BY <1>0, <2>1, <3>1 DEF SeenInv
  <2> QED
    BY <1>0, <1>1, <2>1, <2>2, <2>3 DEF SeenInv
<1>6. CASE ExternalMemoryNext
  <2> DEFINE k == current_batch + 1
             file == disk[k]
  <2>1. /\ pc = "ask" /\ pc' = "show" /\ current_batch' = k /\ UNCHANGED <<seen, passes>>
        /\ current_batch < len /\ file.state = "whole"
        /\ current' = Resized(file) /\ proxy' = Interface(file)
    BY <1>0, <1>6 DEF ExternalMemoryNext, AtEnd, Readable, NextFile, Goto, xgboost, SeenInv
  <2>2. k \in 1..len /\ k - 1 = current_batch
    BY <1>0, <2>1 DEF SeenInv
  <2>3. file.rows = batches[k]
    BY <1>0, <2>1, <2>2 DEF DiskInv
  <2>4. proxy'.at = current'.at
    BY <2>1 DEF Interface
  <2>5. current'.rows = batches[k] /\ proxy'.rows = Len(batches[k])
    <3>1. Resized(file).rows = file.rows
      <4>1. DOMAIN current = {"at", "room", "rows"}
        BY DEF SeenInv
      <4> QED
        BY <4>1 DEF Resized
    <3> QED
      BY <2>1, <2>3, <3>1 DEF Interface
  <2>6. SubSeq(batches[k], 1, Len(batches[k])) = batches[k]
    <3>1. batches[k] \in Seq(R)
      BY <1>0, <2>2
    <3> QED
      BY <3>1, SubSeqFull
  <2>7. seen = f[k - 1] /\ IsPrefix(seen, f[len]) /\ passes \in Nat
    BY <2>1, <2>2 DEF SeenInv
  <2>8. DOMAIN current' = {"at", "room", "rows"}
    BY <2>1 DEF Resized, SeenInv
  <2> HIDE DEF k, file
  <2> QED
    BY <1>0, <1>1, <2>1, <2>2, <2>4, <2>5, <2>6, <2>7, <2>8 DEF SeenInv
<1>7. CASE LookAtProxy
  <2>1. /\ pc = "show" /\ pc' = "ask" /\ UNCHANGED <<passes, current_batch, current, proxy>>
        /\ seen' = seen \o (IF proxy.at = current.at THEN SubSeq(current.rows, 1, proxy.rows)
                            ELSE [i \in 1..proxy.rows |-> Garbage])
    BY <1>7 DEF LookAtProxy, Goto, iterator
  <2>2. current_batch \in 1..len
    BY <1>0, <2>1 DEF SeenInv
  <2>3. seen' = f[current_batch - 1] \o batches[current_batch]
    BY <2>1 DEF SeenInv
  <2>4. seen' = f[current_batch]
    BY <1>0, <2>2, <2>3
  <2>5. IsPrefix(seen', f[len]) /\ current_batch \in 0..len
    BY <1>0, <2>2, <2>4
  <2> QED
    BY <1>1, <2>1, <2>4, <2>5 DEF SeenInv
<1>8. CASE CreateBooster
  <2>1. pc = "between" /\ pc' = "boost" /\ Same /\ passes >= PassesNeeded
    BY <1>8 DEF CreateBooster, Goto, iterator, xgboost
  <2>2. passes > 0
    BY <2>1 DEF PassesNeeded, SeenInv
  <2> QED
    BY <1>1, <2>1, <2>2 DEF SeenInv
<1>9. CASE UpdateOneIter \/ \E i \in DOMAIN disk : LoseEnd(i) \/ LoseFile(i)
  <2>1. pc' = pc /\ Same
    BY <1>9 DEF UpdateOneIter, LoseEnd, LoseFile, iterator, xgboost
  <2> QED
    BY <1>1, <2>1 DEF SeenInv
<1>10. CASE SaveModel \/ LoadPredictor
  <2>1. pc' \in {"stored", "failed", "ready"} /\ Same
    BY <1>10 DEF SaveModel, LoadPredictor, Goto, iterator, xgboost
  <2> QED
    BY <1>1, <2>1 DEF SeenInv
<1> QED
  BY <1>2, <1>3, <1>4, <1>5, <1>6, <1>7, <1>8, <1>9, <1>10 DEF Next, Train

\* Damage never leaves a file whole.
LEMMA DiskStep ==
    ASSUME NEW R, BatchesInv(R), DiskInv, Next
    PROVE  DiskInv'
<1>1. batches' = batches
  BY DEF Next, Train, RefuseNoBatch, CreateProxy, ExternalMemoryReset, ExternalMemoryEnd,
         ExternalMemoryNext, ExternalMemoryThrows, LookAtProxy, CreateBooster, UpdateOneIter,
         SaveModel, XGBoostFails, LoadPredictor, LoseEnd, LoseFile, files
<1>2. CASE Train \/ XGBoostFails \/ LoadPredictor
  <2>1. disk' = disk
    BY <1>2 DEF Train, RefuseNoBatch, CreateProxy, ExternalMemoryReset, ExternalMemoryEnd,
           ExternalMemoryNext, ExternalMemoryThrows, LookAtProxy, CreateBooster, UpdateOneIter,
           SaveModel, XGBoostFails, LoadPredictor
  <2> QED
    BY <1>1, <2>1 DEF DiskInv
<1>3. ASSUME NEW i \in DOMAIN disk, LoseEnd(i) \/ LoseFile(i)
      PROVE  DiskInv'
  <2>1. DOMAIN disk[i] = {"cols", "rows", "state"}
    BY DEF DiskInv
  <2>2. \E file : /\ disk' = [disk EXCEPT ![i] = file]
                  /\ DOMAIN file = {"cols", "rows", "state"} /\ file.state # "whole"
    <3>1. CASE LoseEnd(i)
      <4> DEFINE file == Short(disk[i])
      <4>1. disk' = [disk EXCEPT ![i] = file]
        BY <3>1 DEF LoseEnd
      <4>2. DOMAIN file = {"cols", "rows", "state"} /\ file.state # "whole"
        BY <2>1 DEF Short, Gone
      <4> HIDE DEF file
      <4> QED
        BY <4>1, <4>2
    <3>2. CASE LoseFile(i)
      <4> DEFINE file == Gone(disk[i])
      <4>1. disk' = [disk EXCEPT ![i] = file]
        BY <3>2 DEF LoseFile
      <4>2. DOMAIN file = {"cols", "rows", "state"} /\ file.state # "whole"
        BY <2>1 DEF Short, Gone
      <4> HIDE DEF file
      <4> QED
        BY <4>1, <4>2
    <3> QED
      BY <1>3, <3>1, <3>2
  <2> QED
    BY <1>1, <2>2 DEF DiskInv
<1> QED
  BY <1>2, <1>3 DEF Next

\* The model that was trained is read back from what is stored.
LEMMA TrainedIsRead ==
    /\ ReadsBack(SerializeBoostedTreeRegressorModel(TrainedModel), TrainedModel)
    /\ RefusesDamage(SerializeBoostedTreeRegressorModel(TrainedModel))
<1> DEFINE T == TrainedModel
           R == {<<"feature", i>> : i \in 1..NFeatures}
<1>1. DOMAIN T = {"model_type", "label", "booster_type", "max_iterations",
                  "feature_names", "xgboost_model_blob"}
      /\ T["model_type"] = "boosted_tree_regressor"
      /\ T["feature_names"] = [i \in 1..NFeatures |-> <<"feature", i>>]
  BY DEF TrainedModel
<1>2. T["feature_names"] \in Seq(R)
  <2> DEFINE names == [i \in 1..NFeatures |-> <<"feature", i>>]
  <2>1. NFeatures \in Nat /\ \A i \in 1..NFeatures : <<"feature", i>> \in R
    BY NFeaturesAssumption
  <2> HIDE DEF R
  <2>2. names \in Seq(R)
    BY <2>1
  <2> QED
    BY <1>1, <2>2
<1> HIDE DEF T, R
<1>3. /\ ReadsBack(SerializeBoostedTreeRegressorModel(T), T)
      /\ RefusesDamage(SerializeBoostedTreeRegressorModel(T))
  BY <1>1, <1>2, TreeIsRead
<1> QED
  BY <1>3 DEF T

\* What LoadModel gives of it.
LEMMA TrainedIsLoaded ==
    ASSUME NEW model, model = LoadModel(SerializeBoostedTreeRegressorModel(TrainedModel))
    PROVE  /\ model # Refused
           /\ model["max_iterations"] = options.max_iterations
           /\ Len(model["feature_names"]) = NFeatures
           /\ model["xgboost_model_blob"] = Booster
<1> DEFINE T == TrainedModel
<1>1. /\ {"max_iterations", "feature_names", "xgboost_model_blob"} \subseteq DOMAIN T
      /\ T["max_iterations"] = options.max_iterations
      /\ T["feature_names"] = [i \in 1..NFeatures |-> <<"feature", i>>]
      /\ T["xgboost_model_blob"] = Booster
  BY DEF TrainedModel
<1>2. NFeatures \in Nat /\ Len([i \in 1..NFeatures |-> <<"feature", i>>]) = NFeatures
  BY NFeaturesAssumption
<1> HIDE DEF T
<1>3. model # Refused /\ \A field \in DOMAIN T : model[field] = T[field]
  BY TrainedIsRead DEF ReadsBack, T
<1> QED
  BY <1>1, <1>2, <1>3

\* What was written and the options stay, and pc is a place of the code.
LEMMA BatchesStep ==
    ASSUME NEW R, BatchesInv(R), Next
    PROVE  BatchesInv(R)' /\ batches' = batches
<1>1. files' = files
  BY DEF Next, Train, RefuseNoBatch, CreateProxy, ExternalMemoryReset, ExternalMemoryEnd,
         ExternalMemoryNext, ExternalMemoryThrows, LookAtProxy, CreateBooster, UpdateOneIter,
         SaveModel, XGBoostFails, LoadPredictor, LoseEnd, LoseFile
<1>2. pc' = pc \/ pc' \in {"check", "between", "ask", "show", "boost", "stored", "ready", "failed"}
  BY DEF Next, Train, RefuseNoBatch, CreateProxy, ExternalMemoryReset, ExternalMemoryEnd,
         ExternalMemoryNext, ExternalMemoryThrows, LookAtProxy, CreateBooster, UpdateOneIter,
         SaveModel, XGBoostFails, LoadPredictor, LoseEnd, LoseFile, Goto
<1> QED
  BY <1>1, <1>2 DEF BatchesInv, files

\* What is stored is always the model of the whole table.
LEMMA ModelStep ==
    ASSUME NEW f, SeenInv(f), ModelInv(f), Next
    PROVE  ModelInv(f)'
<1>1. CASE SaveModel
  <2>1. /\ pc = "boost" /\ pc' = "stored" /\ rounds = options.max_iterations
        /\ stored' = SerializeBoostedTreeRegressorModel(TrainedModel)
        /\ UNCHANGED <<batches, options, seen, rounds>>
    BY <1>1 DEF SaveModel, Goto, files, xgboost
  <2>2. TrainedModel' = TrainedModel
    BY <2>1 DEF TrainedModel, Booster
  <2>3. SerializeBoostedTreeRegressorModel(TrainedModel)'
          = SerializeBoostedTreeRegressorModel(TrainedModel)
    BY <2>2 DEF SerializeBoostedTreeRegressorModel
  <2>4. seen = f[Len(batches)]
    BY <2>1 DEF SeenInv
  <2>5. StoredIs(f)'
    BY <2>1, <2>3, <2>4 DEF StoredIs
  <2> QED
    BY <2>1, <2>5 DEF ModelInv
<1>2. CASE LoadPredictor
  <2> DEFINE model == LoadModel(stored)
  <2>1. /\ pc = "stored" /\ UNCHANGED <<batches, options, seen, rounds, stored>>
        /\ \/ pc' = "failed"
           \/ pc' = "ready" /\ predictor' = [n_features |-> Len(model["feature_names"]),
                                             booster |-> model["xgboost_model_blob"],
                                             iteration_end |-> IterationEnd(model)]
    BY <1>2 DEF LoadPredictor, Goto, files, xgboost
  <2>2. StoredIs(f)
    BY <2>1 DEF ModelInv
  <2>3. /\ model["max_iterations"] = options.max_iterations
        /\ Len(model["feature_names"]) = NFeatures
        /\ model["xgboost_model_blob"] = Booster
    BY <2>2, TrainedIsLoaded DEF StoredIs
  <2>4. TrainedModel' = TrainedModel /\ Booster' = Booster
    BY <2>1 DEF TrainedModel, Booster
  <2>5. StoredIs(f)'
    BY <2>1, <2>2, <2>4 DEF StoredIs, SerializeBoostedTreeRegressorModel
  <2> HIDE DEF model
  <2>6. pc' = "ready" => predictor' = [n_features |-> NFeatures, booster |-> Booster,
                                      iteration_end |-> options.max_iterations]
    BY <2>1, <2>3 DEF IterationEnd
  <2> QED
    BY <2>1, <2>4, <2>5, <2>6 DEF ModelInv
<1>3. CASE ~SaveModel /\ ~LoadPredictor
  <2>1. UNCHANGED <<batches, options, stored, predictor>>
    BY <1>3 DEF Next, Train, RefuseNoBatch, CreateProxy, ExternalMemoryReset, ExternalMemoryEnd,
         ExternalMemoryNext, ExternalMemoryThrows, LookAtProxy, CreateBooster, UpdateOneIter,
         XGBoostFails, LoseEnd, LoseFile, files
  <2>2. CASE pc \in {"check", "between", "ask", "show", "boost"}
    <3>1. stored = <<>>
      BY <2>2 DEF ModelInv
    <3>2. pc' \in {"check", "between", "ask", "show", "boost", "failed"}
      BY <1>3, <2>2 DEF Next, Train, RefuseNoBatch, CreateProxy, ExternalMemoryReset,
         ExternalMemoryEnd, ExternalMemoryNext, ExternalMemoryThrows, LookAtProxy, CreateBooster,
         UpdateOneIter, XGBoostFails, LoseEnd, LoseFile, Goto
    <3> QED
      BY <2>1, <3>1, <3>2 DEF ModelInv
  <2>3. CASE pc \notin {"check", "between", "ask", "show", "boost"}
    <3>1. UNCHANGED <<seen, rounds>> /\ (pc' = pc \/ pc' = "failed")
      BY <1>3, <2>3 DEF Next, Train, RefuseNoBatch, CreateProxy, ExternalMemoryReset, MayBegin,
         ExternalMemoryEnd, ExternalMemoryNext, ExternalMemoryThrows, LookAtProxy, CreateBooster,
         UpdateOneIter, XGBoostFails, LoseEnd, LoseFile, Goto, xgboost
    <3>2. TrainedModel' = TrainedModel /\ Booster' = Booster
      BY <2>1, <3>1 DEF TrainedModel, Booster
    <3>3. StoredIs(f) => StoredIs(f)'
      BY <2>1, <3>1, <3>2 DEF StoredIs, SerializeBoostedTreeRegressorModel
    <3>4. pc' # "ready" \/ pc = "ready"
      BY <3>1
    <3>5. pc' \in {"stored", "ready"} => pc \in {"stored", "ready"}
      BY <3>1
    <3>6. pc' \notin {"check", "between", "ask", "show", "boost"}
      BY <2>3, <3>1
    <3> QED
      BY <2>1, <3>2, <3>3, <3>4, <3>5, <3>6 DEF ModelInv
  <2> QED
    BY <2>2, <2>3
<1> QED
  BY <1>1, <1>2, <1>3

\* The invariant holds of a table that was just written.
LEMMA TrainInit ==
    ASSUME NEW R, BatchLists \subseteq Seq(Seq(R)), Init
    PROVE  TrainInv(R)
<1>1. batches \in Seq(Seq(R)) /\ BatchesInv(R)
  BY DEF Init, BatchesInv
<1>2. PICK f \in [0..Len(batches) -> Seq(R)] : Joins(f, batches, Len(batches))
  BY ONLY <1>1, JoinsExist
<1>3. DiskInv
  BY DEF Init, DiskInv
<1>4. Len(batches) \in Nat /\ 0 \in 0..Len(batches)
  BY <1>1
<1>5. IsPrefix(<<>>, f[Len(batches)])
  <2>1. f[0] = <<>>
    BY <1>2 DEF Joins
  <2>2. IsPrefix(f[0], f[Len(batches)])
    BY <1>1, <1>2, <1>4, JoinsArePrefixes
  <2> QED
    BY <2>1, <2>2
<1>6. SeenInv(f)
  BY <1>4, <1>5 DEF Init, SeenInv
<1>7. ModelInv(f)
  BY DEF Init, ModelInv
<1> QED
  BY <1>1, <1>2, <1>3, <1>6, <1>7 DEF TrainInv

\* Every step keeps it.
LEMMA TrainStep ==
    ASSUME NEW R, TrainInv(R), [Next]_vars
    PROVE  TrainInv(R)'
<1>1. PICK f \in [0..Len(batches) -> Seq(R)] :
          Joins(f, batches, Len(batches)) /\ SeenInv(f) /\ ModelInv(f)
  BY DEF TrainInv
<1>2. BatchesInv(R) /\ DiskInv
  BY DEF TrainInv
<1>3. CASE Next
  <2>1. BatchesInv(R)' /\ batches' = batches
    BY <1>2, <1>3, BatchesStep
  <2>2. DiskInv'
    BY <1>2, <1>3, DiskStep
  <2>3. SeenInv(f)'
    BY <1>1, <1>2, <1>3, SeenStep
  <2>4. ModelInv(f)'
    BY <1>1, <1>3, ModelStep
  <2> QED
    BY <1>1, <2>1, <2>2, <2>3, <2>4 DEF TrainInv
<1>4. CASE UNCHANGED vars
  <2>1. SeenInv(f)'
    BY <1>1, <1>4 DEF SeenInv, vars, files, iterator, xgboost
  <2>2. ModelInv(f)'
    <3>1. TrainedModel' = TrainedModel /\ Booster' = Booster
      BY <1>4 DEF TrainedModel, Booster, vars, files, xgboost
    <3>2. StoredIs(f)' <=> StoredIs(f)
      BY <1>4, <3>1 DEF StoredIs, SerializeBoostedTreeRegressorModel, vars, files, xgboost
    <3> QED
      BY <1>1, <1>4, <3>1, <3>2 DEF ModelInv, vars, files, xgboost
  <2>3. BatchesInv(R)' /\ DiskInv' /\ batches' = batches
    BY <1>2, <1>4 DEF BatchesInv, DiskInv, vars, files
  <2> QED
    BY <1>1, <2>1, <2>2, <2>3 DEF TrainInv
<1> QED
  BY <1>3, <1>4

\* What the invariant says of the whole.
LEMMA TrainMeans ==
    ASSUME NEW R, TrainInv(R)
    PROVE  PassesAreComplete /\ ModelHoldsWholeTable /\ PredictorUsesEveryRound /\ StoredTreeIsRead
<1>1. PICK f \in [0..Len(batches) -> Seq(R)] :
          Joins(f, batches, Len(batches)) /\ SeenInv(f) /\ ModelInv(f)
  BY DEF TrainInv
<1>2. AllRows = f[Len(batches)]
  <2>1. batches \in Seq(Seq(R))
    BY DEF TrainInv, BatchesInv
  <2> QED
    BY <1>1, <2>1, FlattenIsLastJoin DEF AllRows
<1>3. PassesAreComplete
  BY <1>1, <1>2 DEF PassesAreComplete, SeenInv
<1>4. ModelHoldsWholeTable
  <2> SUFFICES ASSUME stored # <<>>
               PROVE  LoadModel(stored)["xgboost_model_blob"].rows = AllRows
    BY DEF ModelHoldsWholeTable
  <2>1. StoredIs(f)
    BY <1>1 DEF ModelInv
  <2>2. LoadModel(stored)["xgboost_model_blob"] = Booster
    BY <2>1, TrainedIsLoaded DEF StoredIs
  <2>3. Booster.rows = seen
    BY DEF Booster
  <2> QED
    BY <1>2, <2>1, <2>2, <2>3 DEF StoredIs
<1>5. PredictorUsesEveryRound
  <2> SUFFICES ASSUME pc = "ready"
               PROVE  /\ predictor.iteration_end * predictor.booster.num_parallel_tree
                            = predictor.booster.trees
                      /\ predictor.booster.trees
                            = options.max_iterations * options.num_parallel_tree
                      /\ predictor.n_features = NFeatures
    BY DEF PredictorUsesEveryRound
  <2>1. /\ predictor = [n_features |-> NFeatures, booster |-> Booster,
                        iteration_end |-> options.max_iterations]
        /\ rounds = options.max_iterations
    BY <1>1 DEF ModelInv, StoredIs
  <2>2. /\ predictor.booster = Booster /\ predictor.iteration_end = options.max_iterations
        /\ predictor.n_features = NFeatures
    BY <2>1
  <2>3. /\ Booster.trees = rounds * options.num_parallel_tree
        /\ Booster.num_parallel_tree = options.num_parallel_tree
    BY DEF Booster
  <2> QED
    BY <2>1, <2>2, <2>3
<1>6. StoredTreeIsRead
  <2>1. ASSUME pc = "stored" PROVE stored = SerializeBoostedTreeRegressorModel(TrainedModel)
    BY <1>1, <2>1 DEF ModelInv, StoredIs
  <2> QED
    BY <2>1, TrainedIsRead DEF StoredTreeIsRead
<1> QED
  BY <1>3, <1>4, <1>5, <1>6

\* It is an invariant of the training.
LEMMA TrainAlways ==
    ASSUME NEW R, BatchLists \subseteq Seq(Seq(R))
    PROVE  Spec => []TrainInv(R)
<1>1. Init => TrainInv(R)
  BY TrainInit
<1>2. TrainInv(R) /\ [Next]_vars => TrainInv(R)'
  BY TrainStep
<1> QED
  BY <1>1, <1>2, PTL DEF Spec

\* XGBoost's passes over the batch files (ExternalMemoryReset and
\* ExternalMemoryNext) show the rows in order and, when finished, all of them:
\* for every table cut into batches, however often a pass is left.
THEOREM PassesAreAlwaysComplete ==
    ASSUME NEW R, BatchLists \subseteq Seq(Seq(R))
    PROVE  Spec => []PassesAreComplete
<1>1. TrainInv(R) => PassesAreComplete
  BY TrainMeans
<1>2. Spec => []TrainInv(R)
  BY TrainAlways
<1> QED
  BY <1>1, <1>2, PTL

\* What SerializeBoostedTreeRegressorModel stored and LoadModel reads is the
\* booster of all rows, whatever happened to the files and whichever call failed.
THEOREM ModelAlwaysHoldsWholeTable ==
    ASSUME NEW R, BatchLists \subseteq Seq(Seq(R))
    PROVE  Spec => []ModelHoldsWholeTable
<1>1. TrainInv(R) => ModelHoldsWholeTable
  BY TrainMeans
<1>2. Spec => []TrainInv(R)
  BY TrainAlways
<1> QED
  BY <1>1, <1>2, PTL

\* BoostedTreePredictor asks for rounds that hold every tree of the booster it
\* loaded, however many trees make a round, and for the features of its training.
THEOREM PredictorAlwaysUsesEveryRound ==
    ASSUME NEW R, BatchLists \subseteq Seq(Seq(R))
    PROVE  Spec => []PredictorUsesEveryRound
<1>1. TrainInv(R) => PredictorUsesEveryRound
  BY TrainMeans
<1>2. Spec => []TrainInv(R)
  BY TrainAlways
<1> QED
  BY <1>1, <1>2, PTL

\* BlobReader gives back what BlobWriter was given, and refuses every blob that
\* lost some of its end or has grown: for any number of features, rows and rounds.
THEOREM StoredTreeIsAlwaysRead ==
    ASSUME NEW R, BatchLists \subseteq Seq(Seq(R))
    PROVE  Spec => []StoredTreeIsRead
<1>1. TrainInv(R) => StoredTreeIsRead
  BY TrainMeans
<1>2. Spec => []TrainInv(R)
  BY TrainAlways
<1> QED
  BY <1>1, <1>2, PTL

-----------------------------------------------------------------------------
\* How training gets to its end.

\* Where training is, and that its counters stay in their bounds.
BoundInv ==
    /\ pc \in {"check", "between", "ask", "show", "boost", "stored", "ready", "failed"}
    /\ Len(batches) \in Nat /\ current_batch \in 0..Len(batches)
    /\ options.max_iterations \in Nat /\ rounds \in 0..options.max_iterations
    /\ passes \in 0..MaxPasses /\ abandoned \in BOOLEAN
    /\ pc \in {"ask", "show"} => passes < MaxPasses
    /\ \A i \in DOMAIN disk : "state" \in DOMAIN disk[i]

\* The part of the function that runs.
Stage ==
    CASE pc = "check" -> 0
      [] pc \in {"between", "ask", "show"} -> 1
      [] pc = "boost" -> 2
      [] pc = "stored" -> 3
      [] OTHER -> 4

\* How far XGBoost is in the pass it makes.
PlaceInPass ==
    CASE pc = "between" -> 0
      [] pc = "show" -> 2 * current_batch
      [] OTHER -> 2 * current_batch + 1

AllWhole == \A i \in DOMAIN disk : disk[i].state = "whole"

\* A step of the training ends a part of it, or else a pass, or else leaves the
\* one pass that may be left, or shows more of a pass, or adds a round; a step of
\* the disk is the one damage.
GoesForward ==
    \/ disk' # disk /\ AllWhole /\ ~AllWhole' /\ UNCHANGED <<pc, current_batch, xgboost, rounds>>
    \/ /\ disk' = disk
       /\ \/ Stage < Stage'
          \/ Stage = 1 /\ Stage' = 1 /\ passes < passes'
          \/ Stage = 1 /\ Stage' = 1 /\ passes = passes' /\ ~abandoned /\ abandoned'
          \/ Stage = 1 /\ Stage' = 1 /\ passes = passes' /\ abandoned = abandoned'
               /\ PlaceInPass < PlaceInPass'
          \/ Stage = 2 /\ Stage' = 2 /\ rounds < rounds'
TrainingGoesForward == [][GoesForward]_vars


LEMMA BoundStep ==
    ASSUME BoundInv, [Next]_vars
    PROVE  BoundInv'
<1>1. CASE UNCHANGED vars
  BY <1>1 DEF vars, files, iterator, xgboost, BoundInv
<1>2. ASSUME NEW i \in DOMAIN disk, LoseEnd(i) \/ LoseFile(i) PROVE BoundInv'
  <2>1. /\ UNCHANGED <<files, pc, iterator, xgboost, rounds>>
        /\ disk' = [disk EXCEPT ![i] = Short(@)] \/ disk' = [disk EXCEPT ![i] = Gone(@)]
    BY <1>2 DEF LoseEnd, LoseFile
  <2>2. \A k \in DOMAIN disk' : "state" \in DOMAIN disk'[k]
    BY <2>1 DEF BoundInv, Short, Gone
  <2> QED
    BY <2>1, <2>2 DEF BoundInv, files, iterator, xgboost
<1>3. CASE UpdateOneIter
  <2>1. UNCHANGED <<files, disk, pc, iterator, xgboost>>
        /\ rounds < options.max_iterations /\ rounds' = rounds + 1
    BY <1>3 DEF UpdateOneIter
  <2> QED
    BY <2>1 DEF BoundInv, files, iterator, xgboost
<1>4. CASE ExternalMemoryReset
  <2>1. /\ UNCHANGED <<files, disk, passes, rounds>> /\ pc' = "ask"
        /\ current_batch' = 0 /\ abandoned' \in BOOLEAN
        /\ passes < MaxPasses
    BY <1>4 DEF ExternalMemoryReset, MayBegin, Goto, BoundInv
  <2> QED
    BY <2>1 DEF BoundInv, files
<1>5. CASE ExternalMemoryEnd
  <2>1. /\ UNCHANGED <<files, disk, abandoned, rounds>> /\ pc' = "between" /\ pc = "ask"
        /\ current_batch' = 0 /\ passes' = passes + 1
    BY <1>5 DEF ExternalMemoryEnd, Goto
  <2>2. passes' \in 0..MaxPasses
    BY <2>1, MaxPassesAssumption DEF BoundInv
  <2> QED
    BY <2>1, <2>2 DEF BoundInv, files
<1>6. CASE ExternalMemoryNext
  <2>1. /\ UNCHANGED <<files, disk, xgboost, rounds>> /\ pc' = "show" /\ pc = "ask"
        /\ ~(current_batch >= Len(batches)) /\ current_batch' = current_batch + 1
    BY <1>6 DEF ExternalMemoryNext, Goto, AtEnd
  <2> QED
    BY <2>1 DEF BoundInv, files, xgboost
<1>7. CASE LookAtProxy
  <2>1. UNCHANGED <<files, disk, current_batch, passes, abandoned, rounds>> /\ pc' = "ask" /\ pc = "show"
    BY <1>7 DEF LookAtProxy, Goto, iterator
  <2> QED
    BY <2>1 DEF BoundInv, files
<1>8. CASE RefuseNoBatch \/ CreateProxy \/ XGBoostFails \/ ExternalMemoryThrows \/ CreateBooster
           \/ SaveModel \/ LoadPredictor
  <2>1. /\ UNCHANGED <<files, disk, iterator, xgboost, rounds>>
        /\ pc' \in {"failed", "between", "boost", "stored", "ready"}
    BY <1>8 DEF RefuseNoBatch, CreateProxy, XGBoostFails, ExternalMemoryThrows, CreateBooster,
                SaveModel, LoadPredictor, Goto
  <2> QED
    BY <2>1 DEF BoundInv, files, iterator, xgboost
<1> QED
  BY <1>1, <1>2, <1>3, <1>4, <1>5, <1>6, <1>7, <1>8 DEF Next, Train

LEMMA ForwardStep ==
    ASSUME BoundInv, [Next]_vars
    PROVE  [GoesForward]_vars
<1>1. ASSUME NEW i \in DOMAIN disk, LoseEnd(i) \/ LoseFile(i) PROVE GoesForward
  <2>1. /\ UNCHANGED <<pc, current_batch, xgboost, rounds>> /\ AllWhole
        /\ disk' = [disk EXCEPT ![i] = Short(@)] \/ disk' = [disk EXCEPT ![i] = Gone(@)]
    BY <1>1 DEF LoseEnd, LoseFile, AllWhole, iterator
  <2>2. i \in DOMAIN disk' /\ disk'[i].state # "whole" /\ disk[i].state = "whole"
    BY <2>1 DEF BoundInv, Short, Gone, AllWhole
  <2> QED
    BY <2>1, <2>2 DEF GoesForward, AllWhole
<1>2. CASE UpdateOneIter
  <2>1. disk' = disk /\ pc = "boost" /\ pc' = "boost" /\ rounds' = rounds + 1
    BY <1>2 DEF UpdateOneIter
  <2> QED
    BY <2>1 DEF BoundInv, GoesForward, Stage
<1>3. CASE ExternalMemoryReset
  <2>1. /\ disk' = disk /\ passes' = passes /\ pc' = "ask" /\ current_batch' = 0
        /\ abandoned' = (abandoned \/ pc = "ask")
        /\ pc = "between" \/ (pc = "ask" /\ ~abandoned)
    BY <1>3 DEF ExternalMemoryReset, MayBegin, Goto
  <2>2. Stage = 1 /\ Stage' = 1
    BY <2>1 DEF Stage
  <2>3. CASE pc = "ask"
    <3>1. ~abandoned /\ abandoned'
      BY <2>1, <2>3
    <3> QED
      BY <2>1, <2>2, <3>1 DEF GoesForward
  <2>4. CASE pc = "between"
    <3>1. abandoned' = abandoned
      BY <2>1, <2>4 DEF BoundInv
    <3>2. PlaceInPass < PlaceInPass'
      BY <2>1, <2>4 DEF PlaceInPass
    <3> QED
      BY <2>1, <2>2, <3>1, <3>2 DEF GoesForward
  <2> QED
    BY <2>1, <2>3, <2>4
<1>4. CASE ExternalMemoryEnd
  <2>1. disk' = disk /\ pc' = "between" /\ pc = "ask" /\ passes' = passes + 1
    BY <1>4 DEF ExternalMemoryEnd, Goto
  <2> QED
    BY <2>1 DEF BoundInv, GoesForward, Stage
<1>5. CASE ExternalMemoryNext \/ LookAtProxy
  <2>1. /\ disk' = disk /\ UNCHANGED <<passes, abandoned>>
        /\ \/ pc' = "show" /\ pc = "ask" /\ current_batch' = current_batch + 1
           \/ pc' = "ask" /\ pc = "show" /\ current_batch' = current_batch
    BY <1>5 DEF ExternalMemoryNext, LookAtProxy, Goto, xgboost, iterator
  <2>2. Stage = 1 /\ Stage' = 1
    BY <2>1 DEF Stage
  <2>3. PlaceInPass < PlaceInPass'
    BY <2>1 DEF PlaceInPass, BoundInv
  <2> QED
    BY <2>1, <2>2, <2>3 DEF GoesForward
<1>6. CASE RefuseNoBatch \/ CreateProxy \/ XGBoostFails \/ ExternalMemoryThrows \/ CreateBooster
           \/ SaveModel \/ LoadPredictor
  <2>1. /\ disk' = disk
        /\ \/ pc = "check" /\ pc' \in {"failed", "between"}
           \/ pc \in {"between", "ask", "show"} /\ pc' \in {"failed", "boost"}
           \/ pc = "boost" /\ pc' \in {"failed", "stored"}
           \/ pc = "stored" /\ pc' \in {"failed", "ready"}
    BY <1>6 DEF RefuseNoBatch, CreateProxy, XGBoostFails, ExternalMemoryThrows, CreateBooster,
                SaveModel, LoadPredictor, Goto
  <2>2. Stage < Stage'
    BY <2>1 DEF Stage
  <2> QED
    BY <2>1, <2>2 DEF GoesForward
<1> QED
  BY <1>1, <1>2, <1>3, <1>4, <1>5, <1>6 DEF Next, Train

\* Training never repeats itself, whatever XGBoost does in its passes and
\* whenever a file is damaged: parts, passes, batches and rounds only go up, each
\* to its bound.
THEOREM TrainingAlwaysGoesForward ==
    ASSUME NEW R, BatchLists \subseteq Seq(Seq(R))
    PROVE  Spec => []BoundInv /\ TrainingGoesForward
<1>1. Init => BoundInv
  <2> SUFFICES ASSUME Init PROVE BoundInv
    OBVIOUS
  <2>1. /\ batches \in Seq(Seq(R))
        /\ options \in [tree_method : Methods, max_iterations : Iterations,
                       num_parallel_tree : ParallelTrees]
    BY DEF Init
  <2>2. Len(batches) \in Nat /\ options.max_iterations \in Iterations
    BY <2>1
  <2>3. \A i \in DOMAIN disk : "state" \in DOMAIN disk[i]
    BY DEF Init
  <2>4. pc = "check" /\ current_batch = 0 /\ rounds = 0 /\ passes = 0 /\ abandoned = FALSE
    BY DEF Init
  <2>5. options.max_iterations \in Nat /\ MaxPasses \in Nat
    BY <2>2, IterationsAssumption, MaxPassesAssumption
  <2>6. /\ current_batch \in 0..Len(batches) /\ rounds \in 0..options.max_iterations
        /\ passes \in 0..MaxPasses
    BY <2>2, <2>4, <2>5
  <2> QED
    BY <2>2, <2>3, <2>4, <2>5, <2>6 DEF BoundInv
<1>2. BoundInv /\ [Next]_vars => BoundInv'
  BY BoundStep
<1>3. BoundInv /\ [Next]_vars => [GoesForward]_vars
  BY ForwardStep
<1> QED
  BY <1>1, <1>2, <1>3, PTL DEF Spec, TrainingGoesForward

=============================================================================
