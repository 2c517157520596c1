-------------------------- MODULE MCIncrementalPca --------------------------
(* Values for IncrementalPca: the Unit is a multiple of 1 to 5.                *)
EXTENDS IncrementalPca

FewValues == {-1, 2}

=============================================================================
