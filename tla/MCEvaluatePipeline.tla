------------------------ MODULE MCEvaluatePipeline ------------------------
(* Model values and tables for EvaluatePipeline.  Rows are numbers. *)
EXTENDS EvaluatePipeline

CONSTANTS t1, t2

TwoThreads == {t1, t2}

Both == {"pca", "boosted_tree_regressor"}

FewTables == {
    <<>>,
    << <<1>>, <<2>> >>,
    << <<1, 2>>, <<>>, <<3>> >>,
    << <<1>>, <<2, 3>>, <<4>>, <<5, 6>> >> }

\* A NULL in a feature, in the label, or in a column the model does not use.
SomeNulls == {{}} \union {{<<r, col>>} : r \in 1..4, col \in {"x", "label", "unused"}}

=============================================================================
