--------------------------- MODULE IncrementalPca ---------------------------
(***************************************************************************)
(* algorithms/pca.cpp: IncrementalPca, which ml_fit trains batch by batch, *)
(* and RunningMoments, with which ml_evaluate measures a stored model.     *)
(* The batches are those of FitPipeline: how the rows are cut into them    *)
(* depends on the chunks and threads of the query, and must not show in    *)
(* the model.                                                              *)
(*                                                                         *)
(* Arithmetic is exact: a mean is counted in parts of 1/Unit, a variance,  *)
(* a square or a product in parts of 1/Unit^2, and every division below    *)
(* comes out even.  JacobiSVD (external) decomposes the stacked matrix A   *)
(* into V and the singular values; all that later batches, explained       *)
(* variances and total variance use of them is A^T A, which is "gram", and *)
(* how many there are.  Components cut off make gram an unknown.           *)
(***************************************************************************)
EXTENDS ModelBlob, Integers

CONSTANTS
    NFeatures,   \* n_features_
    Requests,    \* values of num_components to explore
    Values,      \* feature values
    MaxRows,     \* bound: rows of the training table
    Unit         \* parts of 1 a mean is counted in

ASSUME NFeaturesAssumption == NFeatures \in Nat \ {0}
ASSUME RequestsAssumption == Requests \subseteq Nat \ {0}
ASSUME ValuesAssumption == Values \subseteq Int
ASSUME MaxRowsAssumption == MaxRows \in Nat
ASSUME UnitAssumption == Unit \in Nat /\ \A k \in 1..MaxRows : Unit % k = 0

VARIABLES
    requested,       \* requested_components_
    rows,            \* every row given to PartialFit, in order
    n_samples_seen,  \* n_samples_seen_; initialized_ is n_samples_seen > 0
    mean,            \* mean_
    var,             \* var_
    components,      \* the rows of components_, and of all that goes with them
    gram,            \* (singular_values_ components_)^T (singular_values_ components_)
    phase,           \* "fitting", "stored", "bound" or "failed"
    stored,          \* the model_blob in the registry
    moments          \* original_moments: [n, mean, m2]

trainer == <<n_samples_seen, mean, var, components, gram>>
vars == <<requested, rows, trainer, phase, stored, moments>>

Features == 1..NFeatures
Row == [Features -> Values]
Batches == UNION {[1..b -> Row] : b \in 1..MaxRows}

Unknown == <<>>
Least(a, b) == IF a < b THEN a ELSE b

Sum(s) == FoldLeft(LAMBDA total, x : total + x, 0, s)

Init ==
    /\ requested \in Requests
    /\ rows = <<>>
    /\ n_samples_seen = 0
    /\ mean = [j \in Features |-> 0]
    /\ var = [j \in Features |-> 0]
    /\ components = 0
    /\ gram = [j \in Features |-> [k \in Features |-> 0]]
    /\ phase = "fitting"
    /\ stored = <<>>
    /\ moments = [n |-> 0, mean |-> [j \in Features |-> 0], m2 |-> [j \in Features |-> 0]]

-----------------------------------------------------------------------------
\* A batch on its own: colwise().mean(), and the products of its centered rows.

Mean(batch) ==
    [j \in Features |->
        (Unit * Sum([i \in DOMAIN batch |-> batch[i][j]])) \div Len(batch)]

Scatter(batch) ==
    LET center == Mean(batch)
    IN  [j \in Features |-> [k \in Features |->
            Sum([i \in DOMAIN batch |->
                    (Unit * batch[i][j] - center[j]) * (Unit * batch[i][k] - center[k])])]]

-----------------------------------------------------------------------------
\* PartialFit, on a batch that is not empty (FlushPendingRows returns before).
\* Definitions without a use are changed forms of the one that follows them:
\* what a property must notice.

Seen(batch) == n_samples_seen + Len(batch)
Delta(batch) == [j \in Features |-> Mean(batch)[j] - mean[j]]

\* What the distance of the two means adds to the products around the new mean;
\* before the first batch n_samples_seen makes it 0.
CorrectionUnweighted(batch) ==
    LET delta == Delta(batch)
    IN  [j \in Features |-> [k \in Features |-> delta[j] * delta[k]]]

Correction(batch) ==
    LET delta == Delta(batch)
    IN  [j \in Features |-> [k \in Features |->
            (delta[j] * delta[k] * n_samples_seen * Len(batch)) \div Seen(batch)]]

MeanOfMeans(batch) == [j \in Features |-> (mean[j] + Mean(batch)[j]) \div 2]

NewMean(batch) ==
    LET delta == Delta(batch)
    IN  [j \in Features |-> mean[j] + (delta[j] * Len(batch)) \div Seen(batch)]

NewVar(batch) ==
    LET scatter == Scatter(batch)
        correction == Correction(batch)
    IN  [j \in Features |->
            (var[j] * n_samples_seen + scatter[j][j] + correction[j][j]) \div Seen(batch)]

\* The rows of "stacked": the first batch alone, then the components so far,
\* the batch and the correction.
StackedRows(batch) ==
    IF n_samples_seen = 0 THEN Len(batch) ELSE components + Len(batch) + 1

SvdSize(batch) == Least(StackedRows(batch), NFeatures)

ComponentsOfFirst(batch) ==
    IF n_samples_seen = 0 THEN Least(requested, SvdSize(batch)) ELSE components
MaxComponents(batch) == Least(requested, SvdSize(batch))

StackedWithoutCorrection(batch) ==
    LET scatter == Scatter(batch)
    IN  [j \in Features |-> [k \in Features |-> gram[j][k] + scatter[j][k]]]

StackedGram(batch) ==
    LET scatter == Scatter(batch)
        correction == Correction(batch)
    IN  [j \in Features |->
            [k \in Features |-> gram[j][k] + scatter[j][k] + correction[j][k]]]

PartialFit(batch) ==
    /\ phase = "fitting"
    /\ Len(rows) + Len(batch) <= MaxRows
    /\ rows' = rows \o batch
    /\ n_samples_seen' = Seen(batch)
    /\ mean' = NewMean(batch)
    /\ var' = NewVar(batch)
    /\ components' = MaxComponents(batch)
    /\ gram' = IF gram = Unknown \/ MaxComponents(batch) < SvdSize(batch)
                 THEN Unknown ELSE StackedGram(batch)
    /\ UNCHANGED <<requested, phase, stored, moments>>

-----------------------------------------------------------------------------
\* ToModel, with values that follow from V and the singular values by name only.

Numbered(name, count) == [i \in 1..count |-> <<name, i>>]

ToModel ==
    [model_type |-> "pca", whiten |-> FALSE, n_features |-> NFeatures,
     n_components |-> components, n_samples_seen |-> n_samples_seen,
     feature_names |-> Numbered("feature", NFeatures), mean |-> mean, var |-> var,
     singular_values |-> Numbered("singular_value", components),
     explained_variance |-> Numbered("explained_variance", components),
     explained_variance_ratio |-> Numbered("ratio", components),
     components |-> [rows |-> components, cols |-> NFeatures,
                     entries |-> Numbered("component", components * NFeatures)]]

\* MlFitFinalize trains on what is pending, then stores the model; an older
\* release may have stored it in its own format.
Store ==
    /\ phase = "fitting"
    /\ n_samples_seen > 0
    /\ stored' \in {SerializePcaModel(ToModel), OldPcaBlob(ToModel)}
    /\ phase' = "stored"
    /\ UNCHANGED <<requested, rows, trainer, moments>>

\* "PCA model has no training data"
StoreNothing ==
    /\ phase = "fitting"
    /\ n_samples_seen = 0
    /\ phase' = "failed"
    /\ UNCHANGED <<requested, rows, trainer, stored, moments>>

\* MlEvaluateBindWithTable, over the training table.
Bind ==
    /\ phase = "stored"
    /\ phase' = IF LoadModel(stored) = Refused THEN "failed" ELSE "bound"
    /\ UNCHANGED <<requested, rows, trainer, stored, moments>>

-----------------------------------------------------------------------------
\* RunningMoments

WelfordOldMean(acc, row) ==
    LET n == acc.n + 1
        delta == [j \in Features |-> Unit * row[j] - acc.mean[j]]
    IN  [n |-> n, mean |-> [j \in Features |-> acc.mean[j] + delta[j] \div n],
         m2 |-> [j \in Features |-> acc.m2[j] + delta[j] * delta[j]]]

Welford(acc, row) ==
    LET n == acc.n + 1
        delta == [j \in Features |-> Unit * row[j] - acc.mean[j]]
        new == [j \in Features |-> acc.mean[j] + delta[j] \div n]
    IN  [n |-> n, mean |-> new,
         m2 |-> [j \in Features |-> acc.m2[j] + delta[j] * (Unit * row[j] - new[j])]]

\* MlEvaluateFunction on the next chunk of the table.
Update(size) ==
    /\ phase = "bound"
    /\ moments.n + size <= Len(rows)
    /\ moments' = FoldLeft(Welford, moments, SubSeq(rows, moments.n + 1, moments.n + size))
    /\ UNCHANGED <<requested, rows, trainer, phase, stored>>

\* n - 1 times TotalSampleVariance.
TotalDeviation(acc) == Sum(acc.m2)

Next ==
    \/ \E batch \in Batches : PartialFit(batch)
    \/ Store \/ StoreNothing \/ Bind
    \/ \E size \in 1..MaxRows : Update(size)

Spec == Init /\ [][Next]_vars

-----------------------------------------------------------------------------
TypeOK ==
    /\ requested \in Nat \ {0}
    /\ rows \in Seq(Row)
    /\ n_samples_seen = Len(rows)
    /\ components \in Nat
    /\ phase \in {"fitting", "stored", "bound", "failed"}

\* However the table was cut into batches, the mean and the variance folded
\* together from theirs are the mean and the variance of all its rows.
MomentsMatchTwoPasses ==
    rows # <<>> =>
        \A j \in Features :
            /\ mean[j] = Mean(rows)[j]
            /\ var[j] * n_samples_seen = Scatter(rows)[j][j]

\* As long as no component has been cut off, what is kept of the stacked
\* matrices carries the products of all rows around their mean, so that the
\* explained variance ratios add up to 1; and nothing is ever cut off if there
\* may be as many components as features.
ScatterIsExact ==
    /\ requested >= NFeatures => gram # Unknown
    /\ gram # Unknown /\ rows # <<>> =>
          /\ gram = Scatter(rows)
          /\ Sum([j \in Features |-> gram[j][j]]) =
                Sum([j \in Features |-> var[j] * n_samples_seen])

\* A first batch shorter than num_components, as from a short chunk or a table
\* that ends early, holds the components down only until enough rows were seen.
ComponentsReachRequested ==
    /\ components <= requested /\ components <= NFeatures
    /\ components >= Least(n_samples_seen, Least(requested, NFeatures))

\* ml_evaluate of a model over its own training table, in any chunks, measures
\* the variance the training saw, though it computes it row by row.
EvaluationAgrees ==
    phase = "bound" /\ moments.n = n_samples_seen =>
        /\ moments.mean = mean
        /\ TotalDeviation(moments) = Sum([j \in Features |-> var[j] * n_samples_seen])

\* The stored model is read back whole, also one of an older release, and a blob
\* that is cut short or too long is never taken for a model.
StoredPcaIsRead ==
    phase = "stored" => ReadsBack(stored, ToModel) /\ RefusesDamage(stored)

=============================================================================
