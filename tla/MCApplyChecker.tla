--------------------------- MODULE MCApplyChecker ---------------------------
(***************************************************************************)
(* The checks of raft/config.go for TLC: ApplyChecker with both kinds of   *)
(* applier, and side by side with it LeaderCheck.  part says what a        *)
(* behaviour is about: applier (with calls of one and wait), applierSnap,  *)
(* or the leader checks.  The variables of the others keep their values.   *)
(***************************************************************************)
EXTENDS ApplyChecker, TLC

CONSTANTS Peers, MaxTerm, MaxIters

VARIABLES part, term, leads, online, check, next, iters, seen, verdict, claimed, steady

leaderVars == <<term, leads, online, check, next, iters, seen, verdict, claimed, steady>>

Leader == INSTANCE LeaderCheck WITH N <- Peers, connected <- online, i <- next

\* Both servers have to agree; the test may or may not submit again.
BothServers == [cmd : Commands, expected : {2}, retry : BOOLEAN]

Snap == INSTANCE ApplyChecker WITH
          Snapshot <- TRUE, SnapShotInterval <- 2, Requests <- {}

EitherInit ==
  /\ Init /\ Leader!Init
  /\ part \in {"applier", "applierSnap", "leader"}
  /\ part # "leader" => online = {}

\* Bound: with snapshots only the first server is crashed and started again.
OthersStay == \A s \in 2..N : started'[s] = 1

EitherNext ==
  /\ \/ part = "applier" /\ Next /\ UNCHANGED leaderVars
     \/ part = "applierSnap" /\ Snap!Next /\ OthersStay /\ UNCHANGED leaderVars
     \/ part = "leader" /\ Leader!Next /\ UNCHANGED vars
  /\ UNCHANGED part

EitherSpec == EitherInit /\ [][EitherNext]_<<part, vars, leaderVars>>

(* NoFalseAlarm, OneLeaderSound and TermsSound of LeaderCheck: although    *)
(* the tester asks one server after the other while terms and leaders      *)
(* change, an alarm of checkOneLeader is justified, and what it,           *)
(* checkTerms and checkNoLeader pass holds of the servers that stayed.     *)
LeaderChecksSound ==
  part = "leader" => Leader!NoFalseAlarm /\ Leader!OneLeaderSound /\ Leader!TermsSound

\* Commands are only compared.
CommandSymmetry == Permutations(Commands)
=============================================================================
