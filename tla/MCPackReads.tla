----------------------------- MODULE MCPackReads -----------------------------
(* Small instances of PackReads for TLC.                                    *)
EXTENDS PackReads

\* Two ids, one the beginning of the other, and not in the order of their bytes.
TwoIds == <<<<97, 97>>, <<97>>>>

\* Nothing orders packs.
Symmetry == Permutations(Packs)
=============================================================================
