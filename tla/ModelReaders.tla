---------------------------- MODULE ModelReaders ----------------------------
(***************************************************************************)
(* What a trained model is used with.  functions/ml_fit.cpp decides at     *)
(* bind time which columns become features; functions/ml_predict.cpp,      *)
(* ml_evaluate.cpp and ml_explain.cpp load a model when they are bound and *)
(* look its features up among the columns of their own table;              *)
(* functions/ml_models.cpp copies the registry when it starts and hands    *)
(* the copy out page by page.  A bound statement may run again and again   *)
(* while fits go on publishing.                                            *)
(*                                                                         *)
(* The registry is the log of VersionedRegistry, which ModelRegistry is    *)
(* shown to implement: a fit, a lookup and a listing are one step each.  A *)
(* column name is a pair of a word and its spelling; CIEquals compares the *)
(* words.  The words of one table are distinct here: DuckDB keeps them so  *)
(* in a table, and a subquery that repeats one, which the code does not    *)
(* refuse, is left out.  The cell of a row and a column is the pair of the *)
(* row's number and the column's word; what a model makes of a row         *)
(* (external) stands for itself, and so does what training made of a       *)
(* table: the weights of one fit are no other fit's.                       *)
(***************************************************************************)
EXTENDS Integers, Sequences, FiniteSets, SequencesExt

CONSTANTS
    Readers,    \* queries that use models
    Names,      \* model names: numbers, for their order
    Tables,     \* column lists of the tables in use: sequences of column names
    Labels,     \* labels the options of a fit may name
    MaxModels,  \* bound: no fits once a name has so many models
    ChunkRows,  \* bound: rows of a chunk
    PageSize    \* STANDARD_VECTOR_SIZE

ASSUME NamesAssumption == Names \subseteq Nat \ {0}
ASSUME ChunkRowsAssumption == ChunkRows \in Nat \ {0}
ASSUME PageSizeAssumption == PageSize \in Nat \ {0}

VARIABLES
    log,     \* log[n]: the models published under n, in version order
    query,   \* query[r]: the query r runs
    answer,  \* answer[r]: [given, output, by] of its last chunk
    page     \* page[r]: [rows, offset, shown] of an ml_models query

vars == <<log, query, answer, page>>

Word(col) == col[1]
CIEquals(a, b) == Word(a) = Word(b)
Words(cols) == {Word(cols[i]) : i \in DOMAIN cols}

NoQuery == [status |-> "none"]
NoPage == [rows |-> <<>>, offset |-> 0, shown |-> <<>>, since |-> [n \in Names |-> 0]]

Init ==
    /\ log = [n \in Names |-> <<>>]
    /\ query = [r \in Readers |-> NoQuery]
    /\ answer = [r \in Readers |-> <<>>]
    /\ page = [r \in Readers |-> NoPage]

-----------------------------------------------------------------------------
\* MlFitBind; the model it describes is then trained and published.
\* Definitions without a use are changed forms of the one that follows them:
\* what a property must notice.

SameSpelling(cols, name) == SelectInSeq(cols, LAMBDA col : col = name)

\* The first column with the name, in any spelling; 0 if there is none.
IndexOf(cols, name) == SelectInSeq(cols, LAMBDA col : CIEquals(col, name))

FeaturesBeside(cols, label) == RemoveAt(cols, IndexOf(cols, label))

Fit(n, type, features, label) ==
    /\ \A m \in Names : Len(log[m]) < MaxModels
    /\ log' = [log EXCEPT ![n] = Append(@,
          [type |-> type, features |-> features, label |-> label,
           weights |-> <<n, Len(log[n]) + 1>>])]
    /\ UNCHANGED <<query, answer, page>>

FitPca(n, cols) == Fit(n, "pca", cols, <<>>)

FitBoostedTree(n, cols, label) ==
    /\ IndexOf(cols, label) # 0
    /\ FeaturesBeside(cols, label) # <<>>
    /\ Fit(n, "boosted_tree_regressor", FeaturesBeside(cols, label), label)

-----------------------------------------------------------------------------
\* MlPredictBind, MlEvaluateBindWithTable, MlExplainBind.

Resolved(n, version) == IF version = 0 THEN Len(log[n]) ELSE version

FeatureIndices(model, cols) ==
    [i \in DOMAIN model.features |-> IndexOf(cols, model.features[i])]

\* ml_explain of a PCA model binds without looking at the columns.
NeedsFeatures(op, model) == ~(op = "explain" /\ model.type = "pca")

Missing(op, model, cols) ==
    \/ NeedsFeatures(op, model) /\ \E i \in DOMAIN model.features :
          FeatureIndices(model, cols)[i] = 0
    \/ op = "evaluate" /\ model.type # "pca" /\ IndexOf(cols, model.label) = 0

\* ReadModelName and ReadRequestedVersion: NoName is a name that is NULL or
\* blank, and -1 a version that is NULL or negative.
NoName == 0
Refuses(n, version) == n = NoName \/ version < 0

Exists(n, version) == ~Refuses(n, version) /\ Resolved(n, version) \in DOMAIN log[n]

\* The versions of each name, for what is said of a later state.
VersionsNow == [n \in Names |-> Len(log[n])]

\* The bind data: the model, and where its features are in the query's table.
BindData(op, n, version, cols) ==
    LET model == log[n][Resolved(n, version)]
    IN  [status |-> "bound", op |-> op, name |-> n, asked |-> version,
         version |-> Resolved(n, version), model |-> model, columns |-> cols,
         indices |-> IF NeedsFeatures(op, model) THEN FeatureIndices(model, cols) ELSE <<>>,
         since |-> VersionsNow]

Refusal(op, n, version, cols) ==
    [status |-> "refused", op |-> op, name |-> n, asked |-> version, columns |-> cols,
     wasMissing |-> Exists(n, version), since |-> VersionsNow]

Accepts(op, n, version, cols) ==
    Exists(n, version) /\ ~Missing(op, log[n][Resolved(n, version)], cols)

Bind(r, op, n, version, cols) ==
    /\ query[r].status = "none"
    /\ query' = [query EXCEPT ![r] =
          IF Accepts(op, n, version, cols) THEN BindData(op, n, version, cols)
          ELSE Refusal(op, n, version, cols)]
    /\ answer' = [answer EXCEPT ![r] = <<>>]
    /\ UNCHANGED <<log, page>>

-----------------------------------------------------------------------------
\* MlPredictFunction, MlEvaluateFunction, MlExplainFunction on a chunk.

Width(q) == Len(q.indices)

\* The flat vector of the chunk's feature values, row by row: place k of it.
ColumnMajorPlace(q, k) ==
    <<((k - 1) % ChunkRows) + 1, q.indices[((k - 1) \div ChunkRows) + 1]>>
Place(q, k) == <<((k - 1) \div Width(q)) + 1, q.indices[((k - 1) % Width(q)) + 1]>>

Features(q) ==
    [k \in 1..ChunkRows * Width(q) |->
        <<Place(q, k)[1], Word(q.columns[Place(q, k)[2]])>>]

\* XGBoost and Eigen take the vector as a matrix of Width(q) columns.
MatrixRow(q, row) == SubSeq(Features(q), (row - 1) * Width(q) + 1, row * Width(q))

\* XGBoost's contributions are flat too, each row with its baseline at its end.
Contribution(q, k) ==
    LET row == ((k - 1) \div (Width(q) + 1)) + 1
        col == ((k - 1) % (Width(q) + 1)) + 1
    IN  IF col > Width(q) THEN <<"baseline", MatrixRow(q, row)>>
        ELSE <<"attribution", MatrixRow(q, row), col>>

\* The columns Bind declared.
Schema(q) ==
    CASE q.op = "explain" -> <<"baseline_prediction_value">> \o q.model.features
      [] q.op = "predict" /\ q.model.type = "pca" ->
            [i \in 1..Len(q.model.features) |-> <<"principal_component", i>>]
      [] q.op = "predict" /\ q.model.type # "pca" -> <<q.model.label>>
      [] q.op = "evaluate" -> <<>>

ExplainedAt(q, col, row) ==
    LET offset == (row - 1) * (Width(q) + 1)
    IN  Contribution(q, offset + (IF col = 1 THEN Width(q) + 1 ELSE col - 1))

OutputAt(q, col, row) ==
    CASE q.op = "explain" -> ExplainedAt(q, col, row)
      [] q.op = "predict" /\ q.model.type = "pca" -> <<"component", MatrixRow(q, row), col>>
      [] q.op = "predict" /\ q.model.type # "pca" -> <<"prediction", MatrixRow(q, row)>>

\* ml_evaluate hands its rows, and the labels beside them, to EvaluatePipeline.
ChunkAnswer(q) ==
    [given |-> [row \in 1..ChunkRows |-> MatrixRow(q, row)],
     output |-> [col \in DOMAIN Schema(q) |->
                    [row \in 1..ChunkRows |-> OutputAt(q, col, row)]],
     by |-> q.model.weights]

ExecuteReloads(r) ==
    LET q == query[r]
    IN  /\ q.status = "bound"
        /\ NeedsFeatures(q.op, q.model)
        /\ answer' = [answer EXCEPT ![r] =
              [ChunkAnswer(q) EXCEPT !.by = Last(log[q.name]).weights]]
        /\ UNCHANGED <<log, query, page>>

Execute(r) ==
    /\ query[r].status = "bound"
    /\ NeedsFeatures(query[r].op, query[r].model)
    /\ answer' = [answer EXCEPT ![r] = ChunkAnswer(query[r])]
    /\ UNCHANGED <<log, query, page>>

\* "does not support NULL feature values": of a column the model uses, that is,
\* and the label is one that ml_evaluate uses.
UsedColumns(q) ==
    ToSet(q.indices) \union
    (IF q.op = "evaluate" /\ q.model.type # "pca"
       THEN {IndexOf(q.columns, q.model.label)} ELSE {})

ExecuteNull(r) ==
    /\ query[r].status = "bound"
    /\ NeedsFeatures(query[r].op, query[r].model)
    /\ UsedColumns(query[r]) # {}
    /\ query' = [query EXCEPT ![r] = NoQuery]
    /\ answer' = [answer EXCEPT ![r] = <<>>]
    /\ UNCHANGED <<log, page>>

\* "feature attribution is undefined for PCA", said by the first chunk.
ExplainPca(r) ==
    /\ query[r].status = "bound"
    /\ ~NeedsFeatures(query[r].op, query[r].model)
    /\ query' = [query EXCEPT ![r] = NoQuery]
    /\ UNCHANGED <<log, answer, page>>

-----------------------------------------------------------------------------
\* ml_models

Rows == UNION {{<<n, v>> : v \in DOMAIN log[n]} : n \in Names}
Before(a, b) == a[1] < b[1] \/ (a[1] = b[1] /\ a[2] < b[2])
InOrder(S) ==
    CHOOSE rows \in [1..Cardinality(S) -> S] :
        \A i, j \in DOMAIN rows : i < j => Before(rows[i], rows[j])

\* MlModelsGlobalState copies every entry, ORDER BY model_name, model_version.
StartListing(r) ==
    /\ query[r].status = "none"
    /\ query' = [query EXCEPT ![r] = [status |-> "listing"]]
    /\ page' = [page EXCEPT ![r] =
          [rows |-> InOrder(Rows), offset |-> 0, shown |-> <<>>, since |-> VersionsNow]]
    /\ UNCHANGED <<log, answer>>

PageCount(r) ==
    LET remaining == Len(page[r].rows) - page[r].offset
    IN  IF remaining < PageSize THEN remaining ELSE PageSize

NextOffsetStuck(r) == page[r].offset + PageCount(r) - 1
NextOffset(r) == page[r].offset + PageCount(r)

ShowPage(r) ==
    /\ query[r].status = "listing"
    /\ page[r].offset < Len(page[r].rows)
    /\ page' = [page EXCEPT
          ![r].shown = @ \o SubSeq(page[r].rows, page[r].offset + 1,
                                   page[r].offset + PageCount(r)),
          ![r].offset = NextOffset(r)]
    /\ UNCHANGED <<log, query, answer>>

\* An empty page tells DuckDB that the table is at its end.
EndListing(r) ==
    /\ query[r].status = "listing"
    /\ page[r].offset >= Len(page[r].rows)
    /\ query' = [query EXCEPT ![r] = [status |-> "listed"]]
    /\ UNCHANGED <<log, answer, page>>

\* The reader has done with its statement and runs its next one.
Rest(r) ==
    /\ query[r].status \in {"bound", "refused", "listed"}
    /\ query' = [query EXCEPT ![r] = NoQuery]
    /\ answer' = [answer EXCEPT ![r] = <<>>]
    /\ page' = [page EXCEPT ![r] = NoPage]
    /\ UNCHANGED log

Next ==
    \/ \E n \in Names, cols \in Tables :
          \/ FitPca(n, cols)
          \/ \E label \in Labels : FitBoostedTree(n, cols, label)
    \/ \E r \in Readers :
          \/ \E op \in {"predict", "evaluate", "explain"}, n \in Names \union {NoName},
                version \in -1..MaxModels, cols \in Tables : Bind(r, op, n, version, cols)
          \/ Execute(r) \/ ExecuteNull(r) \/ ExplainPca(r)
          \/ StartListing(r) \/ ShowPage(r) \/ EndListing(r) \/ Rest(r)

Spec == Init /\ [][Next]_vars

-----------------------------------------------------------------------------
Bound(r) == query[r].status = "bound"

\* The model is fed, row by row and feature by feature, the cell of that row in
\* the column that bears the feature's name, wherever it stands in the reader's
\* table and however it is spelled, and so never its label.  What comes out in a
\* row was made of that row, and under a feature's name is that feature's
\* attribution.
OutputsAreOfTheirRows ==
    \A r \in Readers :
        Bound(r) /\ answer[r] # <<>> =>
            LET q == query[r]
                Cells(row) == [i \in DOMAIN q.model.features |-> <<row, Word(q.model.features[i])>>]
                out == answer[r].output
            IN  /\ \A row \in 1..ChunkRows : answer[r].given[row] = Cells(row)
                /\ \A col \in DOMAIN out, row \in 1..ChunkRows :
                      /\ out[col][row][2] = Cells(row)
                      /\ q.op = "explain" =>
                            IF col = 1 THEN out[col][row][1] = "baseline"
                            ELSE CIEquals(Schema(q)[col], q.model.features[out[col][row][3]])
                /\ q.model.type # "pca" => Word(q.model.label) \notin Words(q.model.features)

\* The version that a query asked for: the latest there was when it was bound,
\* if it named none.
AskedVersion(q) == IF q.asked = 0 THEN q.since[q.name] ELSE q.asked

\* The words that a use of a model needs.
Needed(op, m) ==
    (IF NeedsFeatures(op, m) THEN Words(m.features) ELSE {}) \union
    (IF op = "evaluate" /\ m.type # "pca" THEN {Word(m.label)} ELSE {})

\* Of a model that exists, a table is refused exactly when it lacks a word that
\* the use of that version needs: more columns, another order, another
\* spelling, and for a prediction no label, are all right.
RefusedOnlyWhenMissing ==
    \A r \in Readers :
        LET q == query[r]
            needed == Needed(q.op, log[q.name][AskedVersion(q)])
        IN  /\ q.status = "refused" /\ q.wasMissing => ~(needed \subseteq Words(q.columns))
            /\ Bound(r) => needed \subseteq Words(q.columns)

\* However many fits are published between two chunks of a bound or prepared
\* statement, every chunk is answered with the weights of the one version that
\* the statement asked for when it was bound.
ChunksByOneVersion ==
    \A r \in Readers :
        Bound(r) /\ answer[r] # <<>> =>
            answer[r].by = log[query[r].name][AskedVersion(query[r])].weights

\* The pages of ml_models list every model stored when the query started, and
\* nothing published since, once each and in the order of name and version.
PagesListSnapshot ==
    \A r \in Readers :
        /\ \A i, j \in DOMAIN page[r].shown : i < j => Before(page[r].shown[i], page[r].shown[j])
        /\ query[r].status = "listed" =>
              ToSet(page[r].shown) =
                  UNION {{<<n, v>> : v \in 1..page[r].since[n]} : n \in Names}

=============================================================================
