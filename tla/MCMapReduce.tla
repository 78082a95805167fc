---------------------------- MODULE MCMapReduce ----------------------------
(***************************************************************************)
(* The two MapReduce models side by side for TLC: part says which of them  *)
(* a behaviour is about, and the variables of the other keep their values. *)
(***************************************************************************)
EXTENDS NParallel, TLC

CONSTANTS Words, MaxFiles, MaxWords

VARIABLES part, app, contents, main, read, intermediate, i, ofile, out, lost

seqVars == <<app, contents, main, read, intermediate, i, ofile, out, lost>>

Sequential == INSTANCE MrSequential WITH pc <- main

EitherInit ==
  /\ Init
  /\ \/ part = "sequential" /\ Sequential!Init
     \/ /\ part = "nparallel" /\ app = "wc" /\ contents = <<>> /\ main = "exit"
        /\ read = 0 /\ intermediate = <<>> /\ i = 1
        /\ ofile = FALSE /\ out = <<>> /\ lost = {}

EitherNext ==
  \/ part = "nparallel" /\ Next /\ UNCHANGED <<part, seqVars>>
  \/ part = "sequential" /\ Sequential!Next /\ UNCHANGED <<part, vars>>

EitherSpec == EitherInit /\ [][EitherNext]_<<part, vars, seqVars>>

(* OutputRight of MrSequential: the lines of mr-out-0 are right and in     *)
(* order, whatever order the map iteration and the unstable sort produce   *)
(* and wherever the run is cut off, and complete but for failed writes.    *)
OutputRight == Sequential!OutputRight

Symmetric == Permutations(Workers)
=============================================================================
