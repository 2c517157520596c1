--------------------------- MODULE MCTreeTraining ---------------------------
(* Batch lists for TreeTraining: none, one file, files that fit the buffer  *)
(* of the first, and files that make it grow.  Rows are numbered.           *)
EXTENDS TreeTraining

FewBatchLists == {
    <<>>,
    << <<1, 2>> >>,
    << <<1, 2>>, <<3, 4>>, <<5>> >>,
    << <<1>>, <<2, 3, 4>>, <<5, 6>> >> }

Both == {"hist", "approx"}

=============================================================================
