---------------------------- MODULE MCAuthClient ----------------------------
(* Small instances of AuthClient for TLC.                                  *)
EXTENDS AuthClient, TLC

\* Nothing orders tabs.
Symmetry == Permutations(Tabs)
=============================================================================
