-------------------------- MODULE MCModelRegistry --------------------------
(* Model values and symmetry for ModelRegistry. *)
EXTENDS ModelRegistry, TLC

CONSTANTS c1, c2, m1, m2

TwoClients == {c1, c2}
OneName == {m1}
TwoNames == {m1, m2}

AnyTable == {"absent", "ours", "foreign"}
NoTable == {"absent"}

AllFaults == {"io", "crash"}
NoFaults == {}

Symmetry == Permutations(Clients) \union Permutations(Names)

=============================================================================
