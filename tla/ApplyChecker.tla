---------------------------- MODULE ApplyChecker ----------------------------
(***************************************************************************)
(* How raft/config.go decides that a Raft is correct: one applier goroutine*)
(* per instance reads what the instance commits and compares it with what  *)
(* all others committed (checkLogs), and the tester waits for agreement    *)
(* with one() and wait(), which count commits server by server.            *)
(*                                                                         *)
(* The Rafts are external and not trusted: an instance may commit any      *)
(* command at any index, answer Start() anything, and go on after it was   *)
(* crashed.  Raft.Start of a server that is disconnected is not tried;     *)
(* that is the same as its answering that it is not the leader.            *)
(***************************************************************************)
EXTENDS Naturals, FiniteSets

CONSTANTS N,                  \* cfg.n
          MaxIndex,           \* bound: log indices are 1..MaxIndex
          Commands,
          MaxGen,             \* bound: instances per server
          Snapshot,           \* make_config's argument: applierSnap or applier?
          SnapShotInterval,
          Requests,           \* what the test calls one() and wait() with
          None

ASSUME ApplyAssumption ==
  /\ N \in Nat \ {0} /\ MaxIndex \in Nat /\ MaxGen \in Nat \ {0} /\ Snapshot \in BOOLEAN
  /\ SnapShotInterval \in Nat \ {0} /\ None \notin Commands

ASSUME RequestsAssumption ==
  Requests \subseteq [cmd : Commands, expected : 1..N, retry : BOOLEAN]

Servers   == 1..N
Indices   == 1..MaxIndex
Instances == Servers \X (1..MaxGen)

VARIABLES
  logs,          \* copy of each server's committed entries
  rafts,         \* the instance cfg.rafts[i] points to, nil when 0
  started,       \* how many instances (and appliers) server i has had
  applier,       \* where the applier of each instance is
  lastApplied,   \* its local of that name
  called,        \* the last call from an applier: <<its instance, the one called>>
  installed,     \* history: the entries <<i, x>> of logs that a snapshot brought
  exited,        \* log.Fatalf or t.Fatalf has ended the test
  \* the tester
  tester,        \* where its goroutine is
  args,          \* what it called one() or wait() with
  index,         \* the index one() or wait() watches
  k,             \* the server that start1 or nCommitted's loop is at
  count, cmd     \* nCommitted's locals

NoArgs   == [cmd |-> None, expected |-> 0, retry |-> FALSE]
Counting == {"one", "wait", "final"}   \* the three calls of nCommitted

logVars    == <<logs, applier, lastApplied, called, installed>>
serverVars == <<rafts, started>>
countVars  == <<k, count, cmd>>
testerVars == <<tester, args, index, countVars>>
vars       == <<logVars, serverVars, testerVars, exited>>

LogTypes ==
  /\ logs \in [Servers -> [Indices -> Commands \cup {None}]]
  /\ applier \in [Instances -> {"off", "reading", "failed", "snapshot"}]
  /\ lastApplied \in [Instances -> 0..MaxIndex]
  /\ called \in (0..MaxGen) \X (0..MaxGen)
  /\ installed \subseteq Servers \X Indices
  /\ rafts \in [Servers -> 0..MaxGen] /\ started \in [Servers -> 0..MaxGen]

TesterTypes ==
  /\ tester \in {"idle", "starting", "trying", "agreed", "waited"} \cup Counting
  /\ args \in Requests \cup {NoArgs}
  /\ index \in 0..MaxIndex
  /\ k \in 0..N /\ count \in 0..N /\ cmd \in Commands \cup {None}

\* The types: in particular nCommitted never counts more than N servers.
TypeOK == LogTypes /\ TesterTypes /\ exited \in BOOLEAN

\* make_config has started every server.
Init ==
  /\ logs = [i \in Servers |-> [x \in Indices |-> None]]
  /\ rafts = [i \in Servers |-> 1] /\ started = [i \in Servers |-> 1]
  /\ applier = [inst \in Instances |-> IF inst[2] = 1 THEN "reading" ELSE "off"]
  /\ lastApplied = [inst \in Instances |-> 0]
  /\ called = <<0, 0>> /\ installed = {}
  /\ exited = FALSE
  /\ tester = "idle"
  /\ args = NoArgs
  /\ index = 0 /\ k = 0 /\ count = 0 /\ cmd = None

-----------------------------------------------------------------------------
(* The appliers.                                                           *)

Committed(i, x) == x \in Indices /\ logs[i][x] # None

\* Mutant: the new entry is compared with the server's own log only.
MismatchOwn(i, x, v) == Committed(i, x) /\ logs[i][x] # v

Mismatch(i, x, v) == \E j \in Servers : Committed(j, x) /\ logs[j][x] # v

\* Mutant: a gap before the new entry is not noticed.
OutOfOrderNever(i, x) == x > 1 /\ FALSE

OutOfOrder(i, x) == x > 1 /\ ~Committed(i, x - 1)

\* checkLogs records the entry in any case; the verdict is used after the unlock.
CheckLogs(i, g, x, v) ==
  /\ logs' = [logs EXCEPT ![i][x] = v]
  /\ installed' = installed \ {<<i, x>>}
  /\ applier' = [applier EXCEPT ![<<i, g>>] =
       IF Mismatch(i, x, v) \/ OutOfOrder(i, x) THEN "failed"
       ELSE IF Snapshot /\ (x + 1) % SnapShotInterval = 0 THEN "snapshot" ELSE "reading"]

\* A command arrives on applyCh; applierSnap ignores the ones it has applied.
ApplyCommand(i, g, x, v) ==
  /\ ~exited /\ applier[<<i, g>>] = "reading"
  /\ Snapshot => x > lastApplied[<<i, g>>]
  /\ CheckLogs(i, g, x, v)
  /\ lastApplied' = IF Snapshot THEN [lastApplied EXCEPT ![<<i, g>>] = x] ELSE lastApplied
  /\ UNCHANGED <<called, serverVars, testerVars, exited>>

\* A snapshot arrives: cfg.rafts[i].CondInstallSnapshot (external) says yes or
\* no; if yes the log is replaced by what the snapshot holds.
ApplySnapshot(i, g, x, v) ==
  /\ Snapshot /\ ~exited /\ applier[<<i, g>>] = "reading"
  /\ called' = <<g, rafts[i]>>
  /\ \/ /\ logs' = [logs EXCEPT ![i] = [y \in Indices |-> IF y = x THEN v ELSE None]]
        /\ lastApplied' = [lastApplied EXCEPT ![<<i, g>>] = x]
        /\ installed' = {e \in installed : e[1] # i} \cup {<<i, x>>}
     \/ UNCHANGED <<logs, lastApplied, installed>>
  /\ UNCHANGED <<applier, serverVars, testerVars, exited>>

\* The same with a snapshot that cannot be decoded: log.Fatalf.
DecodeError(i, g) ==
  /\ Snapshot /\ ~exited /\ applier[<<i, g>>] = "reading"
  /\ called' = <<g, rafts[i]>>
  /\ logs' = [logs EXCEPT ![i] = [y \in Indices |-> None]]
  /\ installed' = {e \in installed : e[1] # i}
  /\ exited' = TRUE
  /\ UNCHANGED <<applier, lastApplied, serverVars, testerVars>>

\* cfg.rafts[i].Snapshot(m.CommandIndex, ...), read without the lock
TakeSnapshot(i, g) ==
  /\ ~exited /\ applier[<<i, g>>] = "snapshot"
  /\ called' = <<g, rafts[i]>>
  /\ applier' = [applier EXCEPT ![<<i, g>>] = "reading"]
  /\ UNCHANGED <<logs, lastApplied, installed, serverVars, testerVars, exited>>

\* log.Fatalf("apply error: ...") ends the process.
ApplyError(i, g) ==
  /\ ~exited /\ applier[<<i, g>>] = "failed"
  /\ exited' = TRUE
  /\ UNCHANGED <<logVars, serverVars, testerVars>>

Applier(i, g) ==
  \/ \E x \in Indices, v \in Commands : ApplyCommand(i, g, x, v) \/ ApplySnapshot(i, g, x, v)
  \/ DecodeError(i, g) \/ TakeSnapshot(i, g) \/ ApplyError(i, g)

-----------------------------------------------------------------------------
(* The tester, one goroutine.                                              *)

\* Kill() stops neither the old instance nor its applier.
crash1(i) ==
  /\ ~exited /\ tester = "idle"
  /\ rafts' = [rafts EXCEPT ![i] = 0]
  /\ UNCHANGED <<logVars, started, testerVars, exited>>

\* start1 after its crash1: the applier runs before cfg.rafts[i] is set.
start1(i) ==
  /\ ~exited /\ tester = "idle" /\ rafts[i] = 0 /\ started[i] < MaxGen
  /\ started' = [started EXCEPT ![i] = @ + 1]
  /\ applier' = [applier EXCEPT ![<<i, started[i] + 1>>] = "reading"]
  /\ tester' = "starting" /\ k' = i
  /\ UNCHANGED <<logs, lastApplied, called, installed, rafts, args, index, count, cmd, exited>>

Made ==
  /\ ~exited /\ tester = "starting"
  /\ rafts' = [rafts EXCEPT ![k] = started[k]]
  /\ tester' = "idle" /\ k' = 0
  /\ UNCHANGED <<logVars, started, args, index, count, cmd, exited>>

\* Mutant: the locals of nCommitted outlive a call.
ResumeCount == k' = 0 /\ count' = count /\ cmd' = cmd

BeginCount == k' = 0 /\ count' = 0 /\ cmd' = None

\* one() or wait() returns to the test; its locals are gone.
EndCall == tester' = "idle" /\ args' = NoArgs /\ index' = 0 /\ BeginCount

\* One turn of nCommitted's loop.  applyErr is never set: its one assignment
\* follows log.Fatalf.
NCommitted ==
  /\ ~exited /\ tester \in Counting /\ k < N
  /\ k' = k + 1
  /\ LET cmd1 == logs[k + 1][index] IN
       \/ /\ cmd1 = None
          /\ UNCHANGED <<count, cmd, exited>>
       \/ /\ cmd1 # None /\ count > 0 /\ cmd # cmd1
          /\ exited' = TRUE
          /\ UNCHANGED <<count, cmd>>
       \/ /\ cmd1 # None /\ ~(count > 0 /\ cmd # cmd1)
          /\ count' = count + 1 /\ cmd' = cmd1
          /\ UNCHANGED exited
  /\ UNCHANGED <<logVars, serverVars, tester, args, index>>

\* nCommitted has returned <<count, cmd>> to the caller named by t.
Counted(t) == ~exited /\ tester = t /\ k = N

CallOne(a) ==
  /\ ~exited /\ tester = "idle"
  /\ tester' = "trying" /\ args' = a
  /\ UNCHANGED <<logVars, serverVars, index, countVars, exited>>

\* Some server says it is the leader and gives the command index x; which
\* one, and how often all refuse, is up to the Rafts.
Start(i, x) ==
  /\ ~exited /\ tester = "trying" /\ rafts[i] # 0
  /\ tester' = "one" /\ index' = x
  /\ BeginCount
  /\ UNCHANGED <<logVars, serverVars, args, exited>>

\* Mutant: any command at that index will do.
AgreementOfAny == count > 0 /\ count >= args.expected

Agreement == count > 0 /\ count >= args.expected /\ cmd = args.cmd

OneReturns ==
  /\ Counted("one") /\ Agreement
  /\ tester' = "agreed"
  /\ UNCHANGED <<logVars, serverVars, args, index, countVars, exited>>

OneRecounts ==
  /\ Counted("one") /\ ~Agreement
  /\ BeginCount
  /\ UNCHANGED <<logVars, serverVars, tester, args, index, exited>>

\* Two seconds without agreement.
OneRetries ==
  /\ Counted("one") /\ ~Agreement
  /\ IF args.retry THEN tester' = "trying" /\ index' = 0 /\ BeginCount /\ UNCHANGED exited
                   ELSE exited' = TRUE /\ UNCHANGED <<tester, index, countVars>>
  /\ UNCHANGED <<logVars, serverVars, args>>

\* Ten seconds without agreement.
OneFails ==
  /\ ~exited /\ tester = "trying"
  /\ exited' = TRUE
  /\ UNCHANGED <<logVars, serverVars, testerVars>>

CallWait(x, a) ==
  /\ ~exited /\ tester = "idle"
  /\ tester' = "wait" /\ index' = x /\ args' = a
  /\ BeginCount
  /\ UNCHANGED <<logVars, serverVars, exited>>

\* Too few, sleep and count again.
WaitRecounts ==
  /\ Counted("wait") /\ count < args.expected
  /\ BeginCount
  /\ UNCHANGED <<logVars, serverVars, tester, args, index, exited>>

\* Someone is in a later term than startTerm: return -1.
WaitMovedOn ==
  /\ Counted("wait") /\ count < args.expected
  /\ EndCall
  /\ UNCHANGED <<logVars, serverVars, exited>>

\* Enough, or the last of the 30 turns: count once more.
WaitFinal ==
  /\ Counted("wait")
  /\ tester' = "final"
  /\ BeginCount
  /\ UNCHANGED <<logVars, serverVars, args, index, exited>>

WaitReturns ==
  /\ Counted("final")
  /\ IF count < args.expected THEN exited' = TRUE /\ UNCHANGED tester
                              ELSE tester' = "waited" /\ UNCHANGED exited
  /\ UNCHANGED <<logVars, serverVars, args, index, countVars>>

\* The test goes on.
Proceed ==
  /\ ~exited /\ tester \in {"agreed", "waited"}
  /\ EndCall
  /\ UNCHANGED <<logVars, serverVars, exited>>

Tester ==
  \/ \E i \in Servers : crash1(i) \/ start1(i)
  \/ Made \/ NCommitted
  \/ \E a \in Requests : CallOne(a)
  \/ \E i \in Servers, x \in Indices : Start(i, x)
  \/ OneReturns \/ OneRecounts \/ OneRetries \/ OneFails
  \/ \E x \in Indices, a \in Requests : CallWait(x, a)
  \/ WaitRecounts \/ WaitMovedOn \/ WaitFinal \/ WaitReturns
  \/ Proceed

Next == (\E inst \in Instances : Applier(inst[1], inst[2])) \/ Tester

Spec == Init /\ [][Next]_vars

-----------------------------------------------------------------------------
(* Properties                                                              *)

\* An applier is about to end the test with an error, or the test has ended.
Alarm == exited \/ \E inst \in Instances : applier[inst] = "failed"

\* Two servers hold different commands for an index.
Differ(i, j, x) == Committed(i, x) /\ Committed(j, x) /\ logs[i][x] # logs[j][x]

\* The appliers check that the servers agree: whatever the Rafts commit, and in
\* whatever order old and new instances of a server deliver it, two servers
\* never hold different commands for an index without an applier raising the
\* error (checkLogs), if both came as commands and not as a snapshot.
Detected ==
  (\E i, j \in Servers, x \in Indices :
     Differ(i, j, x) /\ {<<i, x>>, <<j, x>>} \cap installed = {}) => Alarm

\* A server's committed entries have no gap but before the entry a snapshot
\* brought, unless an applier has said "apply out of order" (checkLogs'
\* prevok), re-deliveries by restarted instances included.
Contiguous ==
  (\E i \in Servers, x \in Indices :
     /\ Committed(i, x) /\ <<i, x>> \notin installed
     /\ x > 1 /\ ~Committed(i, x - 1)) => Alarm

Holding(v) == {i \in Servers : Committed(i, index) /\ logs[i][index] = v}

\* Without snapshots, when one() returns an index, at least expectedServers servers hold the
\* submitted command there, and when wait() returns a command, at least n hold
\* it: although nCommitted reads the logs one at a time while appliers change
\* them, the count is never too high unless an error is being raised.
CountSound ==
  \/ Alarm
  \/ /\ tester = "agreed" => Cardinality(Holding(args.cmd)) >= args.expected
     /\ tester = "waited" => Cardinality(Holding(cmd)) >= args.expected

\* The claim in the comment of one(): the threads that read from applyCh check
\* that the servers agree.  applierSnap does not for what a snapshot brings.
AllDetected == (\E i, j \in Servers, x \in Indices : Differ(i, j, x)) => Alarm

\* A restarted server is isolated from its previous instance: what the applier
\* of an instance calls (CondInstallSnapshot, Snapshot) is that instance.
IsolatedApplier == called[1] = called[2]
=============================================================================
