--------------------------- MODULE MCModelReaders ---------------------------
(* Column lists for ModelReaders: the training table, the same columns in   *)
(* another order and spelling with one more, and one without the label.     *)
EXTENDS ModelReaders

Lower(w) == <<w, "lower">>
Upper(w) == <<w, "upper">>

TrainingTable == <<Lower("a"), Lower("b"), Lower("y")>>
ShuffledTable == <<Upper("y"), Lower("more"), Lower("b"), Upper("a")>>
UnlabelledTable == <<Lower("b"), Lower("a")>>
LabelOnlyTable == <<Lower("y")>>

FewTables == {TrainingTable, ShuffledTable, UnlabelledTable, LabelOnlyTable}
OneLabel == {Upper("y")}

=============================================================================
