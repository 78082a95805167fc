# Verification of the 6.824 lab framework

The repository is a blog; the program in it is the framework of the MIT 6.824
labs in Go, under `content/posts/6.824/lab/lab_1_mapreduce/6.824/src/` (paths
below are relative to it). The students' own parts (Raft, the key/value and
shard servers, the MapReduce coordinator and worker) are unimplemented
skeletons. What is implemented is the machinery that decides whether a
student's system is correct: a simulated network, the harness that crashes and
partitions servers, a linearizability checker, and clerks. If that machinery is
wrong, a correct Raft fails its tests or a broken one passes them. That is what
this development is about.

## Inventory

| Component | State | Operations | What is hard |
|---|---|---|---|
| `labrpc/labrpc.go` | Network maps (ends, enabled, connections, servers), counters; per Call up to four goroutines | MakeEnd, Connect, Enable, AddServer, DeleteServer, Reliable, LongReordering, LongDelays, Cleanup, Call, processReq, dispatch | a handler that finishes after its server was deleted and replaced; callers stuck on a handler that never returns; goroutine leaks; Cleanup racing Call |
| `raft/config.go`, `raft/persister.go` | connected, endnames, saved, rafts, logs; heap of Persisters | make_config, crash1, start1, connect, disconnect, cleanup; checkLogs, appliers, nCommitted, wait, one, checkOneLeader | a crashed instance cannot be killed: it keeps writing and sending; each procedure is many small locked steps |
| `porcupine/` | linked list, stack, cache, bitset; results channel, kill flag | makeEntries, checkSingle, checkParallel, checkOperations, checkEvents, computeVisualizationData | pruning, undo of list edits, verdict when searches are killed, ties between timestamps |
| `models/kv.go` | one key's value | Partition, Init, Step | checking key by key must equal checking the whole store |
| `labgob/labgob.go` | checked types, error count | Register, Encode, Decode, checkValue, checkType, checkDefault | two goroutines checking one type; recursive types |
| `kvraft/config.go`, `shardctrler/config.go`, `shardkv/config.go` | servers, groups, clerks with their endnames | partition, makeClient, ShutdownServer, StartServer, join, leave | like raft/config.go, with client ends too, and with ends made on the fly |
| `shardctrler/client.go`, `shardkv/client.go` | cached configuration | Query, Join, Leave, Move, Get, PutAppend | retry loops over an unreliable network: executed at least once; stale configuration |
| `mrapps/`, `main/mrsequential.go` | files | Map, Reduce, grouping; timing probes | grouping at the end of the input; overlap of workers |

The servers call each other through `labrpc.ClientEnd.Call`; the harness
controls the network through `labrpc.Network` and hands every server instance
a Persister; the test clients log operations that `porcupine` checks with
`models.KvModel`; all messages go through `labgob`.

## Modules

| Module | Models | Used by |
|---|---|---|
| `RpcService` | the promise of `Call`: it returns once, true only after the handler ran, which it does at most once | abstract specification of `LabRPC` |
| `LabRPC` | labrpc.go: the Network, and the caller, processReq, dispatch and drain goroutines of each Call | `MCLabRPC`, `RaftHarness` |
| `LabRPCProofs` | theorems about `LabRPC` | |
| `RaftHarness` | raft/config.go and raft/persister.go on top of `LabRPC` | `MCRaftHarness` |
| `RaftHarnessProofs` | theorems about `RaftHarness`, on top of those of `LabRPCProofs` | |
| `ApplyChecker` | the appliers of raft/config.go (checkLogs, applier, applierSnap) and the helpers one, wait and nCommitted | `MCApplyChecker` |
| `ApplyCheckerProofs` | theorems about `ApplyChecker` and `LeaderCheck`, as `MCApplyChecker` puts them together | |
| `KvModel` | models/kv.go | `Linearizability` |
| `Linearizability` | the reference definition: legal orders that respect real time | `Histories` |
| `Histories` | makeEntries, and the histories the checkers are run on | `CheckSingle`, `CheckOperations` |
| `CheckSingle` | the search of checkSingle, pointer by pointer | `MCPorcupine` |
| `CheckSingleProofs` | theorems about `CheckSingle` | `PorcupineProofs` |
| `CheckParallel` | checkParallel: goroutines, results channel, timeout, kill | `MCPorcupine` |
| `CheckOperations` | checkOperations with KvModel.Partition | `MCPorcupine` |
| `CheckEvents` | checkEvents: renumber, convertEntries | `MCPorcupine` |
| `Bitset` | bitset.go and the hashed cache of checkSingle | `MCPorcupine` |
| `Visualize` | the replay in computeVisualizationData | `MCPorcupine` |
| `PorcupineProofs` | theorems about the parts of the checker, as `MCPorcupine` puts them together | |
| `LeaderCheck` | checkOneLeader, checkTerms and checkNoLeader of raft/config.go | `MCApplyChecker` |
| `CrashNet` | the network and the Persisters as the three key/value testers use them | `KvHarness`, `CtrlerHarness`, `ShardHarness` |
| `KvHarness` | kvraft/config.go | `MCLabs` |
| `CtrlerHarness` | shardctrler/config.go with a clerk of shardctrler/client.go | `MCLabs` |
| `ShardHarness` | shardkv/config.go | `MCLabs`, `MCShardHarness` |
| `CtrlerClerk` | shardctrler/client.go | `MCLabs`, `MCProgress` |
| `ShardKvClerk` | shardkv/client.go | `MCLabs`, `MCProgress` |
| `LabsProofs` | theorems about the two clerks and about the Calls, Persisters and links of the three testers, as `MCLabs` puts them together | |
| `LabGob` | the checks of labgob/labgob.go | `MCProgress` |
| `ProgressProofs` | theorem about `LabGob`, beside the clerks in `MCProgress` | |
| `MrSequential` | main/mrsequential.go with wc, indexer and crash | `MCMapReduce` |
| `NParallel` | nparallel of mrapps/mtiming.go and mrapps/rtiming.go | `MCMapReduce` |
| `NParallelProofs` | theorems about `NParallel` | |

### LabRPC

Variables are the fields of `Network` and `Server`, and per Call the program
counters of its goroutines. `client` is the goroutine inside `Call` (`sending`
in the select on `e.ch` and `e.done`, `waiting` on `replyCh`), `proc` is
`processReq`, `handler` the goroutine around `server.dispatch`, `draining` the
goroutine that empties `ech`. `target`, `server`, `wasReliable` and
`wasReordering` are the values `readEndnameInfo` copied under the lock; every
later `isServerDead` compares the current maps with them. An action is what a
goroutine does between two points where another can run: a locked region or a
channel operation. Sleeps and timers are "at any later moment", random drops
are choices, a message weighs one byte, and `LongDelays`, which only changes a
duration, has no counterpart. `AddServer` always registers a new `*Server`, as
every caller in the repository does. `log.Fatalf` and panics end the process, so
an operation that would reach them is not enabled. `finishedLive` is a history
variable: was the server still registered when its handler finished?

### RaftHarness

The tester is one goroutine. `todo` is the sequence of steps it still has to
take, `<<step, i, j>>`; `crash1(i)`, `start1(i)`, `connect(i)` and
`disconnect(i)` are such sequences, in the order of the code, one step per
locked region, so handlers and the network interleave with all of them. `picks`
counts the procedures begun: the first 2N are those of `make_config`, which sets
the network up, starts every server and then connects every server
(`MakeConfig`); when they are done and nothing is left to do (`Idle`) the tester
may pick any other. `gen[i]` numbers the sets of random end names of
server i, `heap` holds the Persister objects and `saved[i]` points into it;
`disk` and `mem` are what an instance was given and what it knows. The handler
is external (the student's Raft): it adds its request to its state, saves state
and snapshot in one call, and returns; `labrpc.go` describes exactly this
scenario where it checks for a dead server a second time. Instances that were
killed keep calling and saving.

### ApplyChecker

How the harness judges a Raft. Each instance of a server (`<<i, g>>`) has an
applier goroutine; it is never stopped, so the appliers of killed instances and
of the running one write the same `logs[i]`. The Rafts are external and not
trusted: an applier may receive any command at any index, and a snapshot of any
entry. `failed` is the time between the unlock after `checkLogs` and
`log.Fatalf`, during which other goroutines still run; then `exited` ends the
test. (So the line after `log.Fatalf` that sets `applyErr`, and the comment
there, "keep reading after error", are dead, and so is the test of `applyErr`
in `nCommitted`.) `snapshot` is the time before the call of
`cfg.rafts[i].Snapshot`, which reads `cfg.rafts` without the lock. The tester
is one goroutine; `nCommitted` is one step per server because it takes the lock
once per server. The 2 s and 10 s limits of `one` and the 30 turns of `wait`
are "at any later turn"; which server answers `Start`, and whether a term has
moved on, is the Rafts' choice. `called` records the last call an applier made,
`installed` which entries came from a snapshot; both are history variables.

### The checker

`CheckSingle` has one action per branch of the loop of `checkSingle`. Nodes are
positions in the sorted entries, `next` and `prev` are explicit, and `lift` and
`unlift` edit them as the code does. The bitset is a set and the cache a set of
pairs. `SetKill` is the other goroutine. `MakeEntries` leaves the order of
entries with equal times open, because `sort.Sort` is not stable. Operations
have call < return (an RPC lies between the two clock readings).
`CheckParallel` abstracts each search to its result, the truth unless it saw
`kill`; `CheckOperations` puts the pieces together over a two-key store, and
gives no verdict on an empty history, for which `checkParallel` does not return
(`check_empty_history`).

`Bitset` justifies taking bitset and cache for sets: slices are references into
`heap`, so that sharing one by mistake shows, and words have `W` bits instead
of 64; a word is the set of its 1-bits, so that `|=`, `&^=` and `^` are union,
difference and symmetric difference. `hash` is the code's, so it collides. `CheckEvents` starts from events
whose identifiers are sparse and in any order. `Visualize` replays recorded
partial linearizations in any order that the map and the unstable sort produce.

### LeaderCheck

`GetState` is one look at one server; between two looks any server's term may
grow and any server may claim to lead or cease to. `seen` is what the tester
saw in the current round, `claimed` and `steady` are history variables. The
properties compare the tester's verdict with what the servers did meanwhile: an
alarm needs two leaders of one term that were both really there; a pass says
something of the servers that did not change.

### The key/value testers

`CrashNet` is `LabRPC` seen from a distance: a Call is sent, delivered to the
instance registered then, handled (saved in the instance's Persister, or
refused) and answered if its end is still enabled and its server still the
registered one. It is only as fine as the testers' properties need; what a Call
promises is shown on `LabRPC`. Ends carry
their owner, since each MakeEnd is followed by Connect before its use. As in
`RaftHarness` killed instances run on, and write to the Persister they were given.
`Frozen` says that the one the tester keeps for a server that is down does not
change until the server is started again: ShutdownServer copies it under the
instance, which may still be saving, before the instance is killed.

`KvHarness` keeps the tester's remaining steps in `todo`; `partition`,
`ShutdownServer` and so on are sequences of such steps, and a loop over servers
is a function from places to steps (`ConnectAll`, `Side` for each of the two
loops of `partition`, `ShutdownAll`, `StartAll`). Tester and partitioner
are one goroutine at a time because GenericTest waits for the partitioner before
it shuts servers down. `sides` remembers what the last partition asked for. In
`CtrlerHarness` one server is restarted at a time while a clerk goes round all
of them, in the random order `random_handles` gave it. In `ShardHarness` each
server has its own place (`at`), since the tests stop and start whole groups in
any order, and ends come in two kinds, those of `endnames` and `mendnames` and
those made by `make_end`.

### The clerks

`CtrlerClerk` and `ShardKvClerk` have one action per turn of the loops. The
servers are external: whatever a server executed is in `executed` or
`store`, a Call that failed may be executed later, and a reply that carries
zero values leaves the fields of the reply struct alone, as gob does, so that a
reply variable shared between attempts would be a different program. `ShardKvClerk` has the controller's configurations as a
constant sequence; groups take over a shard some time after the configuration
that gives it to them.

### LabGob

A goroutine's recursion is a sequence of tasks: a type to check, a field to look
at, a value to check, a value to decode into. `checked` and `errorCount` are
shared; the lock is held for the lookup and insertion only, as in the code.
Types and values are given as graphs, recursive types included. A non-default
value of a basic kind in a lower-case field (`Unexported`) makes
`value.Interface()` in checkDefault1 panic; `panicked` then ends the process,
before whatever the other goroutine was about to complain of.

### MapReduce

`MrSequential` follows main: read and map each file, sort (any order of equal
keys), group, reduce, write. The plugins are wc, indexer and crash; test-mr.sh
makes its reference outputs with wc, indexer and nocrash, and with crash a Map or
Reduce may end the process. main drops the errors of os.Create and Fprintf: `ofile`
says whether there is a file, `lost` which keys were reduced without a line
being written (one written in part counts as not written).
`NParallel` is the probe: write a file, list the directory (in two steps, opening
and reading), test each process found, sleep, remove. A killed worker leaves its
file. A dead process is taken to be reaped at once and its pid not to be used
again: `kill(pid, 0)` (mtiming.go:45-48) also succeeds on a zombie and on a
stranger with the same pid, and then a worker would count one process too many.
`overlap` is a history variable.

## Runs

Some MC modules put several components side by side: a variable `part`, chosen
initially, says which of them a behaviour is about, and only its steps are
taken. The states of such a run are the union of the components' own, and a
property of the MC module is the conjunction of the components' properties it
names in its comment.

| Run | Bounds | Shows |
|---|---|---|
| `labrpc_safety` | 2 Calls, 1 end, 1 server name, 2 instances | `TypeOK`, `NoStaleAck`, `Accounting`, `ImplementsRpcService` under every tester behaviour. Two instances are what a deleted and replaced server needs; Calls only interact through the maps, so two suffice to show it |
| `labrpc_liveness` | 2 Calls (one hangs), 1 instance | `CallReturns`, `HungCallFreed`, `NoGoroutineLeak` |
| `raft_harness` | 2 servers, 2 Calls, server 1 started at most twice, 2 procedures after make_config, unreliable network | `AckedDurable`, `InSync`, `OldInstanceSilenced`, `Wired`, `NothingLost`. A restart followed by a reconnect is the shortest history in which an end is disabled and enabled again under a Call; two Calls let an old and a new instance both save |
| `apply_checker`, appliers | 2 servers with 2 instances each, 2 indices, 2 commands; `applier` with one and wait asking for both servers, or `applierSnap` with an interval of 2 (the code's is 10, beyond the two indices), no requests, and only server 1 restarted | `Detected`, `Contiguous`, `CountSound`: disagreements and gaps are noticed but for what snapshots bring, and a reported agreement is one. Two instances deliver into one log; two indices make a gap; both counted servers can change during the count |
| `apply_checker`, leader | 3 servers, 2 terms, 2 rounds | `LeaderChecksSound`. Two leaders in a term, a change between any two looks, and a round that ends without a leader all occur |
| `apply_checker_isolated`, `apply_checker_install` | the same | violated: see Findings |
| `porcupine`, checkSingle | all histories of up to 3 operations over 5 invocations, all ties, a kill anywhere | `CorrectVerdict` against the definition, `ListIntact`, `PartialsRight`, `CheckEnds` |
| `porcupine`, checkParallel | 3 partitions, every choice of linearizable ones, both modes, with and without timeout | `SoundVerdict`, `NoRaceOnLongest`, `CheckEnds` |
| `porcupine`, bitset | 5 members in words of 2 bits, 5 cached sets | `BitsetExact`, across word boundaries and hash collisions |
| `porcupine`, checkOperations and checkEvents | all histories of up to 4 operations on 2 keys; all event histories of up to 3 operations with identifiers 0, 4 and 7 | `HistorySound` |
| `porcupine`, visualize | all histories of up to 3 operations, 2 partial linearizations | `LargestShown`, and no replayed step is illegal |
| `check_empty_history` | no partition | violated: see Findings |
| `kv_labs`, kvraft | 3 servers restarted at most once, 1 clerk, 1 request, 3 procedures after make_config | `AckedDurable`, `NothingLost`, `LinksAsAsked`, `LeaderInMinority`, `OldInstanceSilenced`, `FrozenWhileDown`. Three procedures reach every order of partition, restart and heal; 3 is the smallest number with a majority and a minority |
| `kv_labs`, shardctrler | 3 servers, one of them restarted, a clerk, 2 Calls | the same but `LeaderInMinority`. The second Call is the attempt after a failed one, or a peer's |
| `kv_labs`, shardkv | a group of 2 servers started at most twice, a controller, a clerk, 1 Call | the same |
| `kv_labs`, shardctrler clerks | 2 clerks, 2 servers, a Join, a Move and any number of Querys | `ReturnedExecuted`, `ReadsFresh` |
| `kv_labs`, shardkv clerks | 2 clerks on one key, 2 groups of 2, 2 configurations | `ReturnedExecuted`, `ReadsFresh`, while the shard moves |
| `shard_harness_send` | as kv_labs, shardkv | violated: see Findings |
| `progress`, shardctrler | 1 clerk, 3 servers, a Join, a Leave and a Move | `KeepsTrying` |
| `progress`, shardkv | 1 clerk, 2 keys in 2 shards, one of them unassigned for a while | `KeepsTrying` |
| `progress`, labgob | 2 goroutines with 2 operations each, on a recursive type with a lower-case field, on values that have that field set, and on QueryReply | `ReportsRight`, `ChecksEnd`: every check ends, or the process panics |
| `mapreduce`, sequential | up to 3 files of up to 2 words | `OutputRight`: the output of a finished run has the right line for each key, but for lines whose writing failed |
| `mapreduce`, nparallel | 3 workers, any number of calls | `ParallelSeen`, `CountedRanTogether` |

`TypeOK` is checked for `LabRPC`, where it says also that a running handler has an
instance to run on, and for `ApplyChecker`; their proofs need it. In
the other modules it documents the values of the variables and no run has it.

Deadlock is not checked where the system may stop: a failed test ends, the
tester and the callers are free to do nothing more, and a check that has
returned is over.

Fairness. `LabRPC` assumes weak fairness of each goroutine's next step: Go's
scheduler runs every runnable goroutine and timers fire. Nothing forces the
tester to act, a caller to start, or a hanging handler (`Hanging`) to return.
`CheckParallel` and `CheckSingle` assume it of the caller and of each search.
In the select of `checkParallel` the timeout is one of the caller's choices;
nothing depends on its being taken.
The clerks assume weak fairness of their own goroutine and that each Call
returns (`labrpc_liveness` shows it for handlers that return). Strong fairness
is assumed of one server, `Good`, and of the network to it: when it is asked
again and again it executes as the leader, and a reply gets through, some time.
This is the assumption under which the code's loops are meant to end, that a
majority elects a leader and messages are only sometimes lost. `ShardKvClerk`
also assumes that the groups take over the shards a configuration gives them
(`Handover`), and that configurations stop changing because there are finitely
many. `LabGob` assumes weak fairness of each goroutine.

## Proofs

Every theorem holds for all values of the constants that satisfy the named
assumptions of the modules, not only for the instances of the runs.

`LabRPCProofs`, for all sets of calls, end names, server names and instances,
from `ConstantsAssumption` (Nil is none of them):

* `TypeCorrect`, `NoStaleAckHolds`, `Refinement`. `NoStaleAck` is not inductive:
  `IInv` adds which phases of the three goroutines go together (`Phases`), that
  the locals of processReq name existing `*Server` objects and the Network only
  registers existing ones (`Targets`), and the heart of it (`Freshness`): a
  finished handler whose `*Server` is registered *now* finished while it was
  registered, because no `*Server` is registered a second time. So the second
  `isServerDead` is enough. `Refinement` maps each step to a step of
  `RpcService` or to a stutter, using `Phases`.
* `AccountingHolds`. Each counter is the size of a set of Calls; a step adds one
  Call to one of these sets exactly when it increments the counter, and all
  other steps leave both alone.

`RaftHarnessProofs`, for any number of servers, instances, Calls and procedures,
from `HarnessAssumption` and `NilAssumption` (the constants are numbers and sets
of the right kind, Nil is no server and no instance):

* `TypesHold`, `AckedDurableHolds`, `InSyncHolds`, `OldInstanceSilencedHolds`,
  `WiredHolds`, `NothingLostHolds`. Two things make this the longest proof. The
  tester's procedures are sequences of steps with everything else in between, so
  the invariant must say, for every step still to be taken, what it will find;
  and the network below is `LabRPC` itself, not an abstraction of it.
* The network part is taken over: `NetStep` shows that every step of the harness
  is a step of `LabRPC` or leaves the network alone, so `IInv` of `LabRPCProofs`
  holds here, and with it `Phases` and `Freshness`.
* The harness part, `ConfigInv`, has eight conjuncts: types (`ConfigTypes`); the
  order of the pending steps and how far make_config is (`Progress`); that an end
  disagrees with `cfg.connected` only while the step that will switch it is
  pending, and only the newest names of a server can be enabled (`Links`); which
  Persister belongs to which instance (`Owners`); where crash1 and start1 are
  (`Crashing`: the server is unregistered before its Persister is superseded, and
  no instance writes to the one the next instance will get); that state and
  snapshot in a Persister agree, and agree with the instance that writes them
  (`Contained`); that a registered instance is the latest one and writes to the
  kept Persister (`Registered`); and what a running or finished handler has saved
  where (`Handlers`). `AckedDurable` follows from `Handlers` and `Freshness`: the
  handler of an acknowledged Call finished while its instance was registered,
  and from then on nothing makes the kept Persister smaller. TLC checked the
  whole invariant on the instance of `raft_harness` before it was proved.
* The lemmas `RankIs`, `ConcatOrdered`, `LoopOrdered` and the `...Procedure`
  ones say what the sequences `crash1(i)`, `start1(i)`, `connect(i)` and
  `disconnect(i)` contain and in which order; one lemma per action says that it
  keeps `ConfigInv`.

`ApplyCheckerProofs`, for any number of servers, instances, indices, commands
and requests, from `ApplyAssumption`:

* `TypeCorrect`, with the invariant that counting is at most as far as the loop
  (`TesterLocals`) and that appliers not yet started are off (`Unstarted`).
* `DetectedHolds`, `ContiguousHolds`, with and without snapshots. An alarm is
  never taken back (`AlarmStays`, which needs `Unstarted`), so only steps without
  an alarm matter; for these `checkLogs` found no conflicting and no missing
  entry.
* `CountSoundHolds`, for tests that use `applier`. The invariant says that as
  many servers as were counted hold the command, which stays true because without
  snapshots an entry, once delivered, is only ever overwritten by an equal one or
  under an alarm. With snapshots it does not: an installed snapshot may replace
  the entry, which is the finding of `apply_checker_install`.
* `LeaderChecksSoundHolds`, for any number of servers,
  terms and rounds: what the tester saw in a round was claimed during the round
  (`SeenClaimed`), and a server that did not change is as it was seen
  (`SeenSteady`).

`CheckSingleProofs`, for histories of any length over any set of invocations,
from `OpsAssumption`:

* `SearchCorrect`: `ResultCorrect`, `EntriesIntact`, `PartialsReplay` and
  `LongestIsLongest` together, from one inductive invariant, `SearchInv`. It says
  that the entries are an arrangement of the history (each operation's call before
  its return), that the list links exactly the entries of operations that are not
  linearized, and that the stack is a legal sequence whose state is the current
  one. The restored links are the point of `unlift`: the links a lifted node has
  kept are those that were right at its level of the stack, so undoing the
  topmost lift makes the list of that level again.
* What pruning may lose is said per level of the stack. Each call that the walk
  has passed at a level does not fit there or leads to a configuration that is in
  the cache (`Passed`, `Refused`; a call that was tried and taken back is of the
  second kind). A configuration in the cache is on the stack, or all that can be
  reached from it has been recorded (`Done`): every legal sequence through it is
  no longer than what `longest` holds for its operations (`Bounded`). When the
  search backtracks, the level it leaves becomes `Done`, and when the stack is
  empty and the walk is stuck, so is the start: no linearization was missed.
* Legal sequences are defined by a recursive function (the state after k
  operations). Facts about it are proved from its defining equation and by least
  counterexample, with `LeastExists`, since the induction theorems cannot be
  instantiated.

`PorcupineProofs`, for `MCPorcupine` with any finite set of partitions, width of a
word, number of members, of cached sets and of operations, from `OpsAssumption`
and `SizeAssumption`:

* `SoundVerdictHolds`, `NoRaceHolds`. The invariant says that searches end with
  the truth until the caller sets kill, that the caller sets it only when it
  leaves its loop, and that it uses no result received later (`ParallelInv`).
* `VerdictHolds`, `ListHolds`, `PartialsHold`: what `SearchCorrect` says, in the
  composition.
* `BitsetHolds`. Every member has a bit of its own (`IndexFacts`), so the words hold
  exactly the members of the stack (`Packed`). A cached bitset has an address of
  its own, which no step writes to, and is found in the bucket of its hash, and
  the cached ones are exactly what was explored (`Stored`); collisions make a
  bucket longer and nothing else.
* `LargestHolds`. The state of the replay is the one after j - 1 operations
  (`ReplayAt`), which are legal, so the model accepts the next one; and an
  operation that was passed has the index of a partial linearization that contains
  it and is no shorter than any passed so far (`Recording`).

`ProgressProofs`, for any types (recursive ones too), values, goroutines and
operations, from `WellFormed` (fields have types, a value of a basic kind has no
parts):

* `ReportsHold`. A field is pending only with the goroutine that entered its type,
  at one place of its list, and only as long as it was not complained about
  (`FieldsOnce`); what was asked for is checked or pending, with all that hangs
  below it (`GoesOn`), so that when nothing is pending the table is closed under
  the field relation and contains all that can occur; an error counted is a
  complaint or the one warning (`Counting`); and before a value is decoded into,
  each of its parts that is not zero is in reach of an earlier task of the same
  list, or an error has been counted (`CountedAhead`, `DecodedCounted`). TLC
  checked `GobInv` on the instance of `progress`. All steps replace the first task
  of a list by some others, so the lemmas are about that (`Replaces`).

`NParallelProofs`, for any set of workers, of which any may be killed at any
moment:

* `ParallelSeenHolds`, `CountedRanTogetherHolds`. The invariant says which file
  belongs to whom (`Filed`: a file without a running owner was left by a dead
  worker), that of two workers that have both listed the directory the later one
  found the earlier one's file (`OneSees`, the heart of it: each writes before it
  lists and removes only after its sleep), and that a worker found alive overlaps
  the call (`Overlapping`).

`LabsProofs`, for any number of clerks, servers, groups, shards, configurations,
updates and Calls, from `LabSizes` (the `Sizes` of the components):

* `ReturnedExecutedHolds`, `ReadsFreshHolds`. For the controller's clerk the
  invariant says that a Call begins with the zero reply (`FreshReplies`, without
  which what gob decodes into the reply could be a mixture) and that whatever a
  clerk would accept vouches for its present operation (`Vouched`): it was
  executed, and a Query's answer was computed on all that had returned before.
  For the sharded clerk `Answered` says the same, with `before` among the updates
  of the key that are executed.

The part of `LabsProofs` on the testers is for any odd number of kvraft servers (the
tests use 3, 5 and 7; `make_partition` is only meant for these), any number of
groups, instances, Calls and procedures:

* `AckedDurableHolds`, `NothingLostHolds`, `LinksAsAskedHolds`,
  `LeaderInMinorityHolds`, `OldInstanceSilencedHolds`, `FrozenWhileDownHolds`, each
  for all testers at once.
* What happens to Persisters is proved once for the three testers. `Disks` says
  that the registered instance of a server writes to the Persister the tester
  keeps (`Registered`), that what a handler has saved stays in the Persister of
  its instance, and that what was acknowledged is in the kept one (`Written`).
  One lemma for each effect the testers' steps are made of, from `NetKeeps` to
  `QuietKeeps`, shows that it keeps `Disks` and makes no kept Persister smaller.
  `CopyKeeps` needs the server to be unregistered: this is the comment in
  ShutdownServer.
* The testers of shardctrler and shardkv have a place, `at`. Their invariants,
  `CtrlerInv` and `ShardInv`, add what has been done to a server at each place
  (`CtrlerStage`, `ShardStage`) and which ends are enabled there (`CtrlerEnds`,
  `ShardEnds`), and for the first how far make_config is (`CtrlerConfig`).
* The tester of kvraft has a list of steps to take, so `KvInv` speaks of the list:
  steps of one server are in order (`InOrder`, by `Rank`); every step will find
  what it assumes, because it is so now or an earlier step of the list will make
  it so (`KvStage`); all servers have names before anything is cut or shut down,
  which is why the test of `endnames[j]` instead of `endnames[from[j]]` in
  disconnectUnlocked does no harm (`KvNamed`); instances run when they are
  connected (`KvUp`); and for every two servers, the steps of the list leave the
  link between them as `sides` asks for: cut and not joined later, or joined and
  not cut later (`KvLinks`, with `CutBy` and `JoinedBy`), and cut whenever an
  instance is killed or renamed, which keeps `OldInstanceSilenced`. `StepKeeps`
  shows that taking the first step keeps all this, whatever step it is.
  `HealKeeps`, `PartitionKeeps`, `RestartKeeps` and `KvInit` show that each
  procedure begins with a list that satisfies it; they rest on lemmas about which
  step stands at which place (`ConnectSteps` to `PartitionSteps`). When the list
  is empty `KvLinks` is `Partitioned`.
* `FrozenWhileDown` adds `DownInv`. No two servers share a Persister, and only
  instances of a server write to the one kept for it (`Apart`); nobody writes to the
  kept one of a server that is down (`Superseded`), since in each ShutdownServer
  the copy comes before the kill: by the tester's place for shardctrler and
  shardkv, and for kvraft because every kill in the list comes after a copy of the
  same server (`Kills`, `CopiesFirst`). A copy and a start give a server a
  Persister nobody has (`CopyApart`, `StartApart`), and a step of the network
  saves only where an instance writes (`NetStill`).
* `LeaderInMinority` adds that make_partition of n = 2h + 1 servers gives h to the
  leader's side and h + 1 to the other (`MakePartition`), and counts them.
* TLC checked `TesterInv`, all three invariants together, on the instance of
  `kv_labs` with one procedure after make_config.

Left to TLC:

* Liveness (`CallReturns`, `HungCallFreed`, `NoGoroutineLeak`, `CheckEnds`,
  `KeepsTrying`, `ChecksEnd`): the prover does not do fairness or ENABLED.
* `HistorySound`: that checking key by key is enough needs a linear order of all
  operations made from one order per key, for any number of operations, and that
  renumbered events lead to the same verdict compares two recursive conversions;
  both are inductions over the data.
* `OutputRight`: it compares sorted sequences and cardinalities with the input
  files; what `SortSeq` returns for sequences of any length is an induction over
  the data, too.

## Findings

* `apply_checker_isolated`: `applierSnap` looks up `cfg.rafts[i]` for each
  message. The applier of a killed instance, whose last messages may still be
  on their way, so calls `Snapshot` or `CondInstallSnapshot` of the successor,
  or of nil; an instance that applies during `Make` finds nil, too.
* `apply_checker_install`: the entry of an installed snapshot is not compared
  with the other servers' logs, so a Raft whose snapshots disagree can pass.
* `check_empty_history`: `checkParallel` tests `count >= len(history)` only
  after receiving a result. `KvModel.Partition` returns no partition for an
  empty history, so `CheckOperations(KvModel, nil)` never returns.
* `shard_harness_send`: `ShutdownServer` of shardkv/config.go disables the ends
  in `endnames` and `mendnames` to "prevent this server from sending", but the
  ends that servers make with `make_end` are kept nowhere and stay enabled. A
  server that was shut down can still send to other groups.

Seen while modelling, without a run of their own: `checkDefault` of labgob looks
three levels deep, and the pointer given to Decode is one of them, so a
non-default `Config.Num` in a reused `QueryReply` is not warned about;
`GetCount` panics for a name whose server was deleted; `longDelays` is read
without the lock; mrsequential drops the errors of os.Create and Fprintf, so that it
can end well (test-mr.sh asks with `|| exit 1`) with lines missing from mr-out-0,
which is why `OutputRight` excepts `lost`; and shardkv's `make_config` and
`makeClient` index arrays of n and of nctrlers elements with each other's
indices, which the tests hide by using three of each.

## Not modelled

* The student skeletons (raft.go, the servers, mr/coordinator.go, mr/worker.go):
  their handlers are empty, so there is no behaviour. How the framework uses
  them is in the models, marked external.
* mrapps/jobcount.go and early_exit.go: they only say something of how a
  coordinator assigns tasks.
* The HTML page and the descriptions of the visualization, statistics printed by
  begin, op and end, formatting.
* The operations of shardctrler/config.go that are copies of kvraft's and that
  none of its tests calls (partition, make_partition, Leader, connecting and
  disconnecting clients).
* The old lab daemons (their packages are not in the repository) and the Java
  and Go snippets of the blog posts.
