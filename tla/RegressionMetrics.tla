------------------------- MODULE RegressionMetrics -------------------------
(***************************************************************************)
(* algorithms/boosted_tree_regressor.cpp: RegressionMetricsAccumulator,    *)
(* the one-pass metrics of ml_evaluate.  Update adds a chunk row by row,   *)
(* under the mutex of the evaluation; a chunk may be a single row, so one  *)
(* action is one turn of its loop, and Finalize, which changes nothing, is *)
(* the operators Metric... read in whatever state the rows have led to.    *)
(*                                                                         *)
(* Values are integers and arithmetic is exact: rounding is left out.  The *)
(* 32-bit generator that picks the place to replace in a full reservoir is *)
(* left open: any place among the rows seen.  A ratio is a pair of a       *)
(* numerator and a positive denominator.                                   *)
(***************************************************************************)
EXTENDS Integers, Sequences, FiniteSets, FiniteSetsExt, SequencesExt

CONSTANTS
    Values,     \* labels and predictions
    SampleCap,  \* MEDIAN_SAMPLE_CAP
    Log1p,      \* log1p on the values from 0 up, a strictly increasing table
    MaxRows     \* bound: rows evaluated

ASSUME ValuesAssumption == Values \subseteq Int
ASSUME SampleCapAssumption == SampleCap \in Nat \ {0}
ASSUME Log1pAssumption == \A x, y \in DOMAIN Log1p : x < y => Log1p[x] < Log1p[y]
ASSUME MaxRowsAssumption == MaxRows \in Nat

VARIABLES
    rows,    \* every row given to Update: what the metrics are metrics of
    n,       \* n_
    sums,    \* sum_abs_error_, sum_sq_error_, ...
    seen,    \* seen_abs_errors_
    sample   \* abs_error_sample_

vars == <<rows, n, sums, seen, sample>>

\* Definitions without a use below are changed forms of the one that follows
\* them: what a property must notice.

Err(row) == row.label - row.pred
Abs(x) == IF x < 0 THEN -x ELSE x
AbsErr(row) == Abs(Err(row))
Safe(x) == IF x < 0 THEN 0 ELSE x
LogErr(row) == Log1p[Safe(row.label)] - Log1p[Safe(row.pred)]
Square(x) == x * x

Init ==
    /\ rows = <<>>
    /\ n = 0
    /\ sums = [abs |-> 0, sq |-> 0, sqLog |-> 0, y |-> 0, y2 |-> 0, err |-> 0, err2 |-> 0]
    /\ seen = 0
    /\ sample = <<>>

SumsOfAbsolute(row) ==
    [sums EXCEPT !.abs = @ + AbsErr(row), !.sq = @ + Square(Err(row)),
                 !.sqLog = @ + Square(LogErr(row)),
                 !.y = @ + row.label, !.y2 = @ + Square(row.label),
                 !.err = @ + AbsErr(row), !.err2 = @ + Square(Err(row))]

SumsWith(row) ==
    [sums EXCEPT !.abs = @ + AbsErr(row), !.sq = @ + Square(Err(row)),
                 !.sqLog = @ + Square(LogErr(row)),
                 !.y = @ + row.label, !.y2 = @ + Square(row.label),
                 !.err = @ + Err(row), !.err2 = @ + Square(Err(row))]

\* The reservoir takes the first SampleCap errors, then replaces at random.
SampleRoom == Len(sample) <= SampleCap
HasRoom == Len(sample) < SampleCap

KeepErr(e) ==
    /\ HasRoom
    /\ sample' = Append(sample, e)

ReplaceErr(e) ==
    /\ ~HasRoom
    /\ \E place \in 1..(seen + 1) :
          sample' = IF place <= SampleCap THEN [sample EXCEPT ![place] = e] ELSE sample

Update(row) ==
    /\ Len(rows) < MaxRows
    /\ rows' = Append(rows, row)
    /\ n' = n + 1
    /\ sums' = SumsWith(row)
    /\ seen' = seen + 1
    /\ KeepErr(AbsErr(row)) \/ ReplaceErr(AbsErr(row))

Next == \E p, l \in Values : Update([pred |-> p, label |-> l])

Spec == Init /\ [][Next]_vars

-----------------------------------------------------------------------------
\* Finalize, where n > 0.

Ratio(p, q) == [num |-> p, den |-> q]
Zero == Ratio(0, 1)
SameRatio(a, b) == a.num * b.den = b.num * a.den
OneMinus(p, q) == Ratio(q - p, q)

\* Element k of a sequence in ascending order, counted from 0 (std::nth_element).
Nth(s, k) ==
    CHOOSE x \in ToSet(s) :
        /\ Cardinality({i \in DOMAIN s : s[i] < x}) <= k
        /\ Cardinality({i \in DOMAIN s : s[i] <= x}) > k

MiddleUnsorted == sample[Len(sample) \div 2 + 1]
Median == Nth(sample, Len(sample) \div 2)

\* n * n * the variance of a sum of y and a sum of y * y: ss_tot = Spread / n.
Spread(s, s2) == n * s2 - s * s
R2Score ==
    LET spread == Spread(sums.y, sums.y2)
    IN  IF spread > 0 THEN OneMinus(n * sums.sq, spread) ELSE Zero

ExplainedVariance ==
    LET spread == Spread(sums.y, sums.y2)
    IN  IF spread > 0 THEN OneMinus(Spread(sums.err, sums.err2), spread) ELSE Zero

Finalize ==
    IF n = 0
      THEN [mae |-> Zero, mse |-> Zero, msle |-> Zero, median |-> 0, r2 |-> Zero, ev |-> Zero]
      ELSE [mae |-> Ratio(sums.abs, n), mse |-> Ratio(sums.sq, n),
            msle |-> Ratio(sums.sqLog, n), median |-> Median,
            r2 |-> R2Score, ev |-> ExplainedVariance]

-----------------------------------------------------------------------------
\* The same metrics by their definitions, from all rows at once.

Errors == [i \in DOMAIN rows |-> AbsErr(rows[i])]
Labels == [i \in DOMAIN rows |-> rows[i].label]
Residuals == [i \in DOMAIN rows |-> Err(rows[i])]

Sum(f) == MapThenSumSet(LAMBDA i : f[i], DOMAIN f)
Squares(f) == [i \in DOMAIN f |-> Square(f[i])]

\* The squared deviations from the mean, each taken Len(rows) times as large.
Deviations(f) == Sum([i \in DOMAIN f |-> Square(Len(rows) * f[i] - Sum(f))])

ReferenceR2 ==
    LET total == Deviations(Labels)
    IN  IF total = 0 THEN Zero
        ELSE OneMinus(Square(Len(rows)) * Sum(Squares(Residuals)), total)

ReferenceEV ==
    LET total == Deviations(Labels)
    IN  IF total = 0 THEN Zero ELSE OneMinus(Deviations(Residuals), total)

-----------------------------------------------------------------------------
\* The one-pass sums give the r2 score and the explained variance that the mean
\* and the deviations from it give in two passes.
ScoresMatchTwoPasses ==
    rows # <<>> =>
        /\ SameRatio(Finalize.r2, ReferenceR2)
        /\ SameRatio(Finalize.ev, ReferenceEV)

\* The reservoir holds absolute errors of distinct rows, min(rows, cap) of them.
SampleIsOfRows ==
    /\ Len(sample) = (IF Len(rows) < SampleCap THEN Len(rows) ELSE SampleCap)
    /\ \A e \in ToSet(sample) :
          Cardinality({i \in DOMAIN sample : sample[i] = e})
            <= Cardinality({i \in DOMAIN rows : Errors[i] = e})

\* While every error fits the reservoir, half of the errors lie on either side
\* of the reported median.
MedianSplitsErrors ==
    rows # <<>> /\ Len(rows) <= SampleCap =>
        LET m == Finalize.median
        IN  /\ 2 * Cardinality({i \in DOMAIN rows : Errors[i] <= m}) >= Len(rows)
            /\ 2 * Cardinality({i \in DOMAIN rows : Errors[i] >= m}) >= Len(rows)

=============================================================================
