---------------------------- MODULE LeaderCheck ----------------------------
(***************************************************************************)
(* How the tester judges leadership and terms (checkOneLeader, checkTerms  *)
(* and checkNoLeader of raft/config.go).  It asks one connected server     *)
(* after the other with GetState, and the Rafts, which are external and    *)
(* not trusted, change between two of these looks.  A server's term never  *)
(* goes back; who claims to lead is arbitrary.                             *)
(***************************************************************************)
EXTENDS Naturals, FiniteSets

CONSTANTS N,          \* cfg.n
          MaxTerm,    \* bound on the terms
          MaxIters    \* rounds of checkOneLeader (10 in the code)

Servers == 1..N
Terms   == 0..MaxTerm

VARIABLES term, leads,   \* what GetState returns
          connected,     \* cfg.connected, as the test has left it
          check, i,      \* the check that is running, the next server to ask
          iters,
          seen,          \* the <<term, leader>> pairs and terms seen so far
          verdict,       \* result of the last check
          claimed,       \* history: <<term, server>> claims since the round began
          steady         \* history: servers unchanged since the round began

rafts == <<term, leads, claimed, steady>>
vars  == <<term, leads, connected, check, i, iters, seen, verdict, claimed, steady>>

NoVerdict == [kind |-> "running"]

Init ==
  /\ term = [s \in Servers |-> 0] /\ leads = [s \in Servers |-> FALSE]
  /\ connected \in SUBSET Servers
  /\ check = "idle" /\ i = 1 /\ iters = 0 /\ seen = {} /\ verdict = [kind |-> "leaderless"]
  /\ claimed = {} /\ steady = {}

Claims == {<<term[s], s>> : s \in {s \in Servers : leads[s]}}

\* A Raft learns of a term, is elected or steps down.
Change(s) ==
  /\ \E t \in term[s]..MaxTerm, l \in BOOLEAN :
       /\ <<t, l>> # <<term[s], leads[s]>>
       /\ term' = [term EXCEPT ![s] = t]
       /\ leads' = [leads EXCEPT ![s] = l]
  /\ claimed' = claimed \cup Claims'
  /\ steady' = steady \ {s}
  /\ UNCHANGED <<connected, check, i, iters, seen, verdict>>

StartRound(k) ==
  /\ i' = 1 /\ iters' = k /\ seen' = {}
  /\ steady' = Servers /\ claimed' = Claims
  /\ UNCHANGED <<term, leads, connected>>

\* Fatalf ends the test.
Begin(c) ==
  /\ check = "idle" /\ verdict.kind \notin {"tooMany", "none", "disagree", "unexpected"}
  /\ check' = c /\ verdict' = NoVerdict
  /\ StartRound(0)

\* The <<term, server, leader>> triples that claim to lead, and the terms seen.
Leaders   == {x \in seen : x[3]}
SeenTerms == {x[1] : x \in seen}

\* checkTerms and checkNoLeader fail at once, in the middle of the loop.
Fatal ==
  \/ check = "terms" /\ Cardinality(SeenTerms) > 1
  \/ check = "noLeader" /\ Leaders # {}

\* One turn of the loop over the servers.
GetState ==
  /\ check # "idle" /\ i <= N /\ ~Fatal
  /\ i' = i + 1
  /\ seen' = IF i \in connected THEN seen \cup {<<term[i], i, leads[i]>>} ELSE seen
  /\ UNCHANGED <<rafts, connected, check, iters, verdict>>

Conclude(v) ==
  /\ verdict' = v /\ check' = "idle" /\ i' = 1 /\ iters' = 0 /\ seen' = {}
  /\ UNCHANGED <<rafts, connected>>

\* len(leaders[term]) > 1 for some term
TooMany == \E x, y \in Leaders : x[1] = y[1] /\ x[2] # y[2]

\* Mutant: the leader of the oldest term.
OldestLeader == CHOOSE x \in Leaders : \A y \in Leaders : x[1] <= y[1]

\* leaders[lastTermWithLeader][0]
NewestLeader == CHOOSE x \in Leaders : \A y \in Leaders : y[1] <= x[1]

\* The end of a round of checkOneLeader.
checkOneLeader ==
  /\ check = "oneLeader" /\ i > N
  /\ \/ TooMany /\ Conclude([kind |-> "tooMany"])
     \/ ~TooMany /\ Leaders # {} /\ Conclude([kind |-> "leader", of |-> NewestLeader])
     \/ Leaders = {} /\ iters = MaxIters - 1 /\ Conclude([kind |-> "none"])

\* Nobody led: sleep and look again.
LookAgain ==
  /\ check = "oneLeader" /\ i > N /\ Leaders = {} /\ iters < MaxIters - 1
  /\ StartRound(iters + 1)
  /\ UNCHANGED <<check, verdict>>

\* Every term is compared with the first; the term returned is -1 (here no
\* term) if nobody is connected.
checkTerms ==
  /\ check = "terms"
  /\ \/ Fatal /\ Conclude([kind |-> "disagree"])
     \/ ~Fatal /\ i > N /\ Conclude([kind |-> "terms", all |-> SeenTerms])

checkNoLeader ==
  /\ check = "noLeader"
  /\ \/ Fatal /\ Conclude([kind |-> "unexpected"])
     \/ ~Fatal /\ i > N /\ Conclude([kind |-> "leaderless"])

Next ==
  \/ \E s \in Servers : Change(s)
  \/ \E c \in {"oneLeader", "terms", "noLeader"} : Begin(c)
  \/ GetState \/ checkOneLeader \/ LookAgain \/ checkTerms \/ checkNoLeader

Spec == Init /\ [][Next]_vars

-----------------------------------------------------------------------------
Watched == steady \cap connected

(* No false alarm: checkOneLeader reports two leaders of a term only if    *)
(* two servers have claimed the same term since its round began, although  *)
(* it never looks at two servers at the same time.                         *)
NoFalseAlarm ==
  check = "idle" /\ verdict.kind = "tooMany" =>
    \E a, b \in claimed : a[1] = b[1] /\ a[2] # b[2]

(* A pass means something: when checkOneLeader has just returned, no two   *)
(* servers have led the same term all through its last round, and none has *)
(* led a newer term all through than the leader it returned.  When it      *)
(* found no leader, nobody led all through the round.                      *)
OneLeaderSound ==
  check = "idle" /\ verdict.kind \in {"leader", "none"} =>
    \A s \in {w \in Watched : leads[w]} :
      /\ verdict.kind = "leader" /\ term[s] <= verdict.of[1]
      /\ \A w \in Watched \ {s} : leads[w] => term[w] # term[s]

(* checkTerms passes only if all servers that did not move during it are   *)
(* in the term it returns, and fails only if somebody moved or they really *)
(* disagree; checkNoLeader passes only if no connected server led all      *)
(* through, and fails only if somebody claimed to lead.                    *)
TermsSound ==
  check = "idle" =>
    /\ verdict.kind = "terms" => \A s \in Watched : verdict.all = {term[s]}
    /\ verdict.kind = "disagree" /\ connected \subseteq steady =>
         \E s, w \in connected : term[s] # term[w]
    /\ verdict.kind = "leaderless" => \A s \in Watched : ~leads[s]
    /\ verdict.kind = "unexpected" => claimed # {}
=============================================================================
