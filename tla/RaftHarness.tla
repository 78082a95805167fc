---------------------------- MODULE RaftHarness ----------------------------
(***************************************************************************)
(* The tester's side of the Raft labs (raft/config.go with                 *)
(* raft/persister.go) on top of LabRPC: servers are crashed, restarted,    *)
(* attached to and detached from the network while their Calls are under   *)
(* way.  A crashed server cannot really be killed: its instance keeps      *)
(* running, holding its ClientEnds and its Persister.                      *)
(*                                                                         *)
(* The tester is one goroutine; todo holds the steps it still has to take, *)
(* each of them a region under one lock, so the handlers and the network   *)
(* run in between.  The handler of a server is external (the student's     *)
(* Raft): it adds its request to its state, saves state and snapshot in    *)
(* one SaveStateAndSnapshot and then returns.                              *)
(***************************************************************************)
EXTENDS Naturals, Sequences, FiniteSets

CONSTANTS N,            \* cfg.n
          Unreliable,   \* make_config's argument
          MaxStarts,    \* bound: start1 calls per server
          MaxPicks,     \* bound: procedures the tester runs after make_config
          Victims,      \* bound: the servers it runs them on
          Calls, Nil

ASSUME HarnessAssumption ==
  /\ N \in Nat \ {0} /\ MaxStarts \in Nat \ {0} /\ MaxPicks \in Nat
  /\ Victims \subseteq 1..N /\ Unreliable \in BOOLEAN

Servers == 1..N
Gens    == 1..MaxStarts

ASSUME NilAssumption ==
  Nil \notin Servers /\ Nil \notin Servers \X Gens /\ Nil \notin Servers \X Gens \X Servers

VARIABLES
  \* LabRPC's Network and the goroutines of each Call
  reliable, longReordering, ends, enabled, connections, servers, rpcCount, bytes,
  done, netLoop, allocated, count, client, callEnd, proc, handler, draining,
  target, server, wasReliable, wasReordering, finishedLive,
  \* the config object
  connected,   \* whether each server is on the net
  gen,         \* endnames[i] is the gen[i]-th set of names, nil when 0
  saved,       \* index in heap of the Persister of each server, nil when 0
  rafts,       \* the instance cfg knows of, nil when 0
  todo,        \* the steps the tester has still to take
  picks,       \* how many procedures it has begun, those of make_config first
  raftlog,     \* crash1's local of that name
  \* the Persister objects, and what each instance has
  heap, disk, mem,
  saving       \* the Calls whose handler has saved its update

Net == INSTANCE LabRPC WITH
         EndNames <- Servers \X Gens \X Servers, ServerNames <- Servers,
         Instances <- Servers \X Gens, Hanging <- {}

netVars  == <<reliable, longReordering, ends, enabled, connections, servers, rpcCount,
              bytes, done, netLoop, allocated, count, client, callEnd, proc, handler,
              draining, target, server, wasReliable, wasReordering, finishedLive>>
cfgVars  == <<connected, gen, saved, rafts, raftlog, picks>>
diskVars == <<heap, disk, mem, saving>>
vars     == <<netVars, cfgVars, todo, diskVars>>

Contents == [state : SUBSET Calls, snapshot : SUBSET Calls]

TypeOK ==
  /\ Net!TypeOK
  /\ connected \in [Servers -> BOOLEAN]
  /\ gen \in [Servers -> 0..MaxStarts] /\ rafts \in [Servers -> 0..MaxStarts]
  /\ heap \in Seq(Contents)
  /\ saved \in [Servers -> 0..Len(heap)]
  /\ disk \in [Servers \X Gens -> 0..Len(heap)]
  /\ mem \in [Servers \X Gens -> SUBSET Calls]
  /\ saving \subseteq Calls
  /\ raftlog \subseteq Calls /\ picks \in 0..(2*N + MaxPicks)
  /\ \A k \in DOMAIN todo : todo[k][2] \in Servers /\ todo[k][3] \in Servers

-----------------------------------------------------------------------------
(* The tester's procedures, as the steps they take: <<step, i, j>>.        *)

ForEach(step, i) == [j \in Servers |-> <<step, i, j>>]

disconnect(i) == << <<"offline", i, i>> >> \o ForEach("disableOut", i)
                                           \o ForEach("disableIn", i)

connect(i) == << <<"online", i, i>> >> \o ForEach("enableOut", i)
                                       \o ForEach("enableIn", i)

crash1(i) == disconnect(i) \o << <<"delete", i, i>>, <<"copy", i, i>>, <<"kill", i, i>>,
                                 <<"readState", i, i>>, <<"replace", i, i>> >>

MakeEnds(i) == [k \in 1..2*N |->
                  <<IF k % 2 = 1 THEN "makeEnd" ELSE "wire", i, (k + 1) \div 2>>]

start1(i) == crash1(i) \o << <<"names", i, i>> >>
                       \o MakeEnds(i)
                       \o << <<"fresh", i, i>>, <<"make", i, i>>, <<"add", i, i>> >>

Init ==
  /\ Net!Init
  /\ connected = [i \in Servers |-> FALSE]
  /\ gen = [i \in Servers |-> 0]
  /\ saved = [i \in Servers |-> 0]
  /\ rafts = [i \in Servers |-> 0]
  /\ todo = << <<"setunreliable", 1, 1>> >>
  /\ picks = 0 /\ raftlog = {}
  /\ heap = <<>>
  /\ disk = [inst \in Servers \X Gens |-> 0]
  /\ mem = [inst \in Servers \X Gens |-> {}]
  /\ saving = {}

-----------------------------------------------------------------------------
(* The tester begins its next procedure.                                   *)

Begin(procedure) ==
  /\ todo = <<>> /\ picks' = picks + 1
  /\ todo' = procedure
  /\ UNCHANGED <<netVars, connected, gen, saved, rafts, raftlog, diskVars>>

\* make_config creates a full set of Rafts, then connects everyone.
MakeConfig ==
  \/ picks < N /\ Begin(start1(picks + 1))
  \/ picks \in N..(2*N - 1) /\ Begin(connect(picks + 1 - N))

\* make_config has returned, and so has the procedure the test called last.
Idle == todo = <<>> /\ picks >= 2*N

\* The tests attach and crash only servers they have running.
Pick(i) ==
  /\ Idle /\ ~done /\ picks < 2*N + MaxPicks
  /\ \/ rafts[i] # 0 /\ Begin(crash1(i))
     \/ gen[i] < MaxStarts /\ Begin(start1(i))
     \/ Begin(disconnect(i))
     \/ rafts[i] # 0 /\ Begin(connect(i))

\* setlongreordering and cleanup are single steps; the tests only switch it on.
Setlongreordering ==
  /\ Idle /\ ~longReordering
  /\ Net!LongReordering(TRUE)
  /\ UNCHANGED <<cfgVars, todo, diskVars>>

Cleanup ==
  /\ Idle
  /\ Net!Cleanup
  /\ UNCHANGED <<cfgVars, todo, diskVars>>

-----------------------------------------------------------------------------
(* The steps of the procedures.                                            *)

Step(name) == todo # <<>> /\ Head(todo)[1] = name /\ todo' = Tail(todo)
I == Head(todo)[2]
J == Head(todo)[3]

EndName(i, j) == <<i, gen[i], j>>

Setunreliable ==
  /\ Step("setunreliable")
  /\ Net!Reliable(~Unreliable)
  /\ UNCHANGED <<cfgVars, diskVars>>

SetConnected ==
  /\ \/ Step("online")  /\ connected' = [connected EXCEPT ![I] = TRUE]
     \/ Step("offline") /\ connected' = [connected EXCEPT ![I] = FALSE]
  /\ UNCHANGED <<netVars, gen, saved, rafts, raftlog, picks, diskVars>>

\* Mutant: connect enables the outgoing ends only.
EnableOutgoingOnly ==
  /\ \/ Step("enableOut") /\ connected[J] /\ Net!Enable(EndName(I, J), TRUE)
     \/ Step("enableOut") /\ ~connected[J] /\ UNCHANGED netVars
     \/ Step("enableIn") /\ UNCHANGED netVars
  /\ UNCHANGED <<cfgVars, diskVars>>

\* connect's loops: skip a peer that is not connected.
EnableEnd ==
  /\ \/ Step("enableOut") /\ connected[J] /\ Net!Enable(EndName(I, J), TRUE)
     \/ Step("enableIn")  /\ connected[J] /\ Net!Enable(EndName(J, I), TRUE)
     \/ (Step("enableOut") \/ Step("enableIn")) /\ ~connected[J] /\ UNCHANGED netVars
  /\ UNCHANGED <<cfgVars, diskVars>>

\* Mutant: disconnect forgets the outgoing ends.
DisableIncomingOnly ==
  /\ \/ Step("disableOut") /\ UNCHANGED netVars
     \/ Step("disableIn")  /\ gen[J] # 0 /\ Net!Enable(EndName(J, I), FALSE)
     \/ Step("disableIn")  /\ gen[J] = 0 /\ UNCHANGED netVars
  /\ UNCHANGED <<cfgVars, diskVars>>

\* disconnect's loops: skip a server that was never started.
DisableEnd ==
  /\ \/ Step("disableOut") /\ gen[I] # 0 /\ Net!Enable(EndName(I, J), FALSE)
     \/ Step("disableIn")  /\ gen[J] # 0 /\ Net!Enable(EndName(J, I), FALSE)
     \/ Step("disableOut") /\ gen[I] = 0 /\ UNCHANGED netVars
     \/ Step("disableIn")  /\ gen[J] = 0 /\ UNCHANGED netVars
  /\ UNCHANGED <<cfgVars, diskVars>>

DeleteServer ==
  /\ Step("delete")
  /\ Net!DeleteServer(I)
  /\ UNCHANGED <<cfgVars, diskVars>>

\* saved[i] becomes a new Persister with the given content.
Supersede(i, content) ==
  /\ heap' = Append(heap, content)
  /\ saved' = [saved EXCEPT ![i] = Len(heap) + 1]

Copy(k) == heap[k]

\* Mutant: crash1 keeps the Persister the old instance writes to.
CopySkipped ==
  /\ Step("copy")
  /\ UNCHANGED <<netVars, cfgVars, diskVars>>

\* cfg.saved[i] = cfg.saved[i].Copy()
CopySaved ==
  /\ Step("copy")
  /\ IF saved[I] # 0 THEN Supersede(I, Copy(saved[I])) ELSE UNCHANGED <<heap, saved>>
  /\ UNCHANGED <<netVars, connected, gen, rafts, raftlog, picks, disk, mem, saving>>

\* rf.Kill() only asks the instance to stop.
Kill ==
  /\ Step("kill")
  /\ rafts' = [rafts EXCEPT ![I] = 0]
  /\ UNCHANGED <<netVars, connected, gen, saved, raftlog, picks, diskVars>>

\* Two calls on the Persister, each under its lock: ReadRaftState ...
ReadRaftState ==
  /\ Step("readState")
  /\ raftlog' = IF saved[I] # 0 THEN heap[saved[I]].state ELSE raftlog
  /\ UNCHANGED <<netVars, connected, gen, saved, rafts, picks, diskVars>>

\* ... and ReadSnapshot, then a new Persister with what was read.
ReplaceSaved ==
  /\ Step("replace")
  /\ IF saved[I] # 0
       THEN Supersede(I, [state |-> raftlog, snapshot |-> heap[saved[I]].snapshot])
       ELSE UNCHANGED <<heap, saved>>
  /\ UNCHANGED <<netVars, connected, gen, rafts, raftlog, picks, disk, mem, saving>>

FreshEndnames ==
  /\ Step("names")
  /\ gen' = [gen EXCEPT ![I] = @ + 1]
  /\ UNCHANGED <<netVars, connected, saved, rafts, raftlog, picks, diskVars>>

MakeEnd ==
  /\ \/ Step("makeEnd") /\ Net!MakeEnd(EndName(I, J))
     \/ Step("wire") /\ Net!Connect(EndName(I, J), J)
  /\ UNCHANGED <<cfgVars, diskVars>>

\* Mutant: always MakePersister().
EmptyPersister ==
  /\ Step("fresh")
  /\ Supersede(I, [state |-> {}, snapshot |-> {}])
  /\ UNCHANGED <<netVars, connected, gen, rafts, raftlog, picks, disk, mem, saving>>

\* A copy of the saved Persister, or MakePersister() the first time.
FreshPersister ==
  /\ Step("fresh")
  /\ Supersede(I, IF saved[I] # 0 THEN Copy(saved[I])
                                  ELSE [state |-> {}, snapshot |-> {}])
  /\ UNCHANGED <<netVars, connected, gen, rafts, raftlog, picks, disk, mem, saving>>

\* Make(ends, i, cfg.saved[i], applyCh): the instance reads its Persister.
Make ==
  /\ Step("make")
  /\ rafts' = [rafts EXCEPT ![I] = gen[I]]
  /\ disk' = [disk EXCEPT ![<<I, gen[I]>>] = saved[I]]
  /\ mem' = [mem EXCEPT ![<<I, gen[I]>>] = heap[saved[I]].state]
  /\ UNCHANGED <<netVars, connected, gen, saved, raftlog, picks, heap, saving>>

AddServer ==
  /\ Step("add")
  /\ Net!AddServer(I, <<I, gen[I]>>)
  /\ UNCHANGED <<cfgVars, diskVars>>

-----------------------------------------------------------------------------
(* The servers (external) and the network.                                 *)

\* An instance, killed or not, calls a peer.
Call(c) ==
  /\ \E i, j \in Servers, g \in Gens :
       disk[<<i, g>>] # 0 /\ i # j /\ Net!Call(c, <<i, g, j>>)
  /\ UNCHANGED <<cfgVars, todo, diskVars>>

\* The handler, under the instance's lock: update the state and save it.
SaveStateAndSnapshot(c) ==
  /\ handler[c] = "running" /\ c \notin saving
  /\ saving' = saving \cup {c}
  /\ LET inst == server[c]
         new  == mem[inst] \cup {c}
     IN  /\ mem' = [mem EXCEPT ![inst] = new]
         /\ heap' = [heap EXCEPT ![disk[inst]] = [state |-> new, snapshot |-> new]]
  /\ UNCHANGED <<netVars, cfgVars, todo, disk>>

Finish(c) ==
  /\ c \in saving
  /\ Net!Finish(c)
  /\ UNCHANGED <<cfgVars, todo, diskVars>>

Network ==
  /\ \/ Net!NetLoopExit
     \/ \E c \in Calls : \/ Net!AcceptReq(c) \/ Net!AbortCall(c)
                         \/ Net!ProcessReq(c)
                         \/ Net!Dispatch(c) \/ Net!Drain(c)
  /\ UNCHANGED <<cfgVars, todo, diskVars>>

Tester ==
  \/ MakeConfig \/ \E i \in Victims : Pick(i)
  \/ Setlongreordering \/ Cleanup \/ Setunreliable
  \/ SetConnected \/ EnableEnd \/ DisableEnd \/ DeleteServer
  \/ CopySaved \/ Kill \/ ReadRaftState \/ ReplaceSaved
  \/ FreshEndnames \/ MakeEnd \/ FreshPersister \/ Make \/ AddServer

Next == Tester \/ Network \/ \E c \in Calls : Call(c) \/ SaveStateAndSnapshot(c) \/ Finish(c)

Spec == Init /\ [][Next]_vars

-----------------------------------------------------------------------------
(* What makes a crash test meaningful.                                     *)

(* A caller told true has its update in the Persister that the next        *)
(* instance will read, wherever crash1 and start1 are: DeleteServer comes  *)
(* before the Persister is superseded, and processReq checks again.        *)
AckedDurable ==
  \A c \in Calls : client[c] = "ok" =>
    /\ saved[target[c]] # 0
    /\ c \in heap[saved[target[c]]].state

(* crash1 reads raft state and snapshot in two calls, yet the Persister    *)
(* the next instance gets holds a pair that was saved together.            *)
InSync == \A i \in Servers :
  saved[i] # 0 => heap[saved[i]].state = heap[saved[i]].snapshot

(* "a fresh set of outgoing ClientEnd names. so that old crashed           *)
(* instance's ClientEnds can't send": no end of an old instance is ever    *)
(* enabled again, whatever connect and disconnect do later.                *)
OldInstanceSilenced ==
  \A i, j \in Servers, g \in Gens : g < gen[i] => ~enabled[<<i, g, j>>]

(* Between two procedures of the tester the link from i to j works exactly *)
(* when both are connected, after any sequence of connect, disconnect,     *)
(* crash1 and start1.                                                      *)
Wired ==
  Idle => \A i, j \in Servers :
            enabled[EndName(i, j)] <=> connected[i] /\ connected[j]

(* "we always pass Make() the last persisted state": superseding a         *)
(* Persister never loses an update, and an old instance that still writes  *)
(* never overwrites what its successor persisted.                          *)
NothingLost ==
  [][\A i \in Servers : saved[i] # 0 =>
        heap[saved[i]].state \subseteq heap'[saved'[i]].state]_vars
=============================================================================
