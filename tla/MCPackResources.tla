-------------------------- MODULE MCPackResources --------------------------
(* Small instances of PackResources for TLC.                               *)
EXTENDS PackResources, TLC

\* Resource ids and packs are interchangeable: nothing orders them.
Symmetry == Permutations(Resources) \cup Permutations(Packs)

AllFaults == FaultKinds \ {"latePut"}
RequestFaults == {"insert", "put", "txn"}
=============================================================================
