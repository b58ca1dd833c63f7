------------------------- MODULE MCPackTransactions -------------------------
(* Small instances of PackTransactions for TLC.                            *)
EXTENDS PackTransactions, TLC

\* Requests are interchangeable: nothing orders their ids.
Symmetry == Permutations(Resources)
=============================================================================
