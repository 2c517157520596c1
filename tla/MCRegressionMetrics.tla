------------------------ MODULE MCRegressionMetrics ------------------------
(* Values for RegressionMetrics.  Log1p is log(1 + x) in tenths. *)
EXTENDS RegressionMetrics

FewValues == {-1, 0, 2}
Tenths == [x \in 0..2 |-> CASE x = 0 -> 0 [] x = 1 -> 7 [] x = 2 -> 11]

=============================================================================
