---------------------------- MODULE MCRaftHarness ----------------------------
(***************************************************************************)
(* RaftHarness for TLC.  The Calls are interchangeable.                    *)
(***************************************************************************)
EXTENDS RaftHarness, TLC

Symmetry == Permutations(Calls)
=============================================================================
