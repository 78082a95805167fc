------------------------------ MODULE MCLabRPC ------------------------------
(* LabRPC on small instances: the sets come from the .cfg files.           *)
EXTENDS LabRPC, TLC

\* Calls are interchangeable when none hangs, instances always are.
Symmetry == Permutations(Calls) \cup Permutations(Instances)
=============================================================================
