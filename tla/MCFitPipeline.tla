--------------------------- MODULE MCFitPipeline ---------------------------
(* Model values and tables for FitPipeline.  Rows are numbers; a NULL is   *)
(* in the label, in the first or in the second feature.                    *)
EXTENDS FitPipeline

CONSTANTS t1, t2

TwoThreads == {t1, t2}

Pca == {"pca"}
Boosted == {"boosted_tree_regressor"}
Both == Pca \union Boosted

AllTables == {
    <<>>,
    << <<1>> >>,
    << <<1>>, <<2>>, <<3>> >>,
    << <<1, 2>>, <<3>> >>,
    << <<1>>, <<2, 3>>, <<4>> >>,
    << <<1>>, <<>>, <<2, 3>> >>,
    << <<1, 2, 3>>, <<4>>, <<5, 6>> >> }
FullTables == AllTables \ {<<>>}

NoNulls == {{}}
SomeNulls == {{}} \union {{<<r, f>>} : r \in 1..3, f \in 0..2}
FeatureNulls == {{}} \union {{<<r, f>>} : r \in 1..3, f \in 1..2}

AnyOutcome == {"ok", "failed", "lost"}
Stored == {"ok"}

=============================================================================
