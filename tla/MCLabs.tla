------------------------------- MODULE MCLabs -------------------------------
(***************************************************************************)
(* The testers of kvraft, shardctrler and shardkv, and the clerks of the   *)
(* last two, side by side for TLC.  part says which of them a behaviour is *)
(* about; its variables take their course and all others are off.          *)
(* Variables of the same name are shared.                                  *)
(***************************************************************************)
EXTENDS Naturals, Sequences, TLC

CONSTANTS N, MaxStarts, MaxPicks, Victims, Nil,
          Calls1, Calls2,         \* one request, and two
          Users, Mck,             \* clerks of the testers
          Gids, NGroup, NCtrlers,                             \* ShardHarness
          Clerks, NServers, CtrlerUpdates,                    \* CtrlerClerk
          Keys, NShards, Configs, GroupSize, KvUpdates        \* ShardKvClerk

VARIABLES part,
          enabled, servers, caller, handler, via, inst, heap, disk, saved,
          gen, clerks, at, pc,                                \* of several
          kvservers, todo, picks, sides,                      \* kvraft/config.go
          endnames, up, order, i, attempt, accepted,          \* shardctrler/config.go
          running,                                            \* shardkv/config.go
          args, answer, abandoned, returned, before,          \* both clerks
          srv, ok, reply, executed,                           \* shardctrler/client.go
          si, config, num, serving, store                     \* shardkv/client.go

net    == <<enabled, servers, caller, handler, via, inst, heap, disk, saved>>
kv     == <<kvservers, todo, picks, sides>>
ctrler == <<endnames, up, order, i, attempt, accepted>>
clerk  == <<args, answer, abandoned, returned, before>>
ctrlerClerk == <<srv, ok, reply, executed>>
shardClerk  == <<si, config, num, serving, store>>
all == <<part, net, gen, clerks, at, pc, kv, ctrler, running, clerk, ctrlerClerk, shardClerk>>

Servers == 0..N-1
GroupsAndCtrlers == (Gids \X (0..NGroup-1)) \cup ({0} \X (0..NCtrlers-1))

JoinAndMove == {[kind |-> "Join", n |-> 1], [kind |-> "Move", n |-> 1]}
SameKey     == {[op |-> "Put", key |-> 0, n |-> 1], [op |-> "Append", key |-> 0, n |-> 1]}

\* Both shards with one group, then one moves and the other has none.
Moves == << [s \in 0..1 |-> 1], [s \in 0..1 |-> IF s = 0 THEN 2 ELSE 0] >>

Kv     == INSTANCE KvHarness WITH Names <- Servers, Clerks <- Users, Calls <- Calls1
Ctrler == INSTANCE CtrlerHarness WITH Names <- Servers, Clerks <- Users, Calls <- Calls2
Shard  == INSTANCE ShardHarness WITH
            Names <- GroupsAndCtrlers, N <- NGroup, Clerks <- Users, Calls <- Calls1
CClerk == INSTANCE CtrlerClerk WITH Good <- NServers, Updates <- CtrlerUpdates
SClerk == INSTANCE ShardKvClerk WITH Good <- GroupSize, Updates <- KvUpdates

ASSUME LabSizes ==
  Kv!Sizes /\ Ctrler!Sizes /\ Shard!Sizes /\ CClerk!Sizes /\ SClerk!Sizes

-----------------------------------------------------------------------------
NetOff == /\ enabled = {} /\ servers = <<>> /\ caller = <<>> /\ handler = <<>>
          /\ via = <<>> /\ inst = <<>> /\ heap = <<>> /\ disk = <<>> /\ saved = <<>>
KvOff     == kvservers = "off" /\ todo = "off" /\ picks = "off" /\ sides = "off"
CtrlerOff == /\ endnames = "off" /\ up = "off" /\ order = "off" /\ i = "off"
             /\ attempt = "off" /\ accepted = "off"
ClerkOff  == /\ args = "off" /\ answer = "off" /\ abandoned = "off"
             /\ returned = "off" /\ before = "off"
CtrlerClerkOff == srv = "off" /\ ok = "off" /\ reply = "off" /\ executed = "off"
ShardClerkOff  == /\ si = "off" /\ config = "off" /\ num = "off"
                  /\ serving = "off" /\ store = "off"

AnyInit ==
  \/ /\ part = "kvraft" /\ Kv!Init
     /\ at = "off" /\ pc = "off" /\ running = "off"
     /\ CtrlerOff /\ ClerkOff /\ CtrlerClerkOff /\ ShardClerkOff
  \/ /\ part = "shardctrler" /\ Ctrler!Init
     /\ gen = "off" /\ running = "off"
     /\ KvOff /\ ClerkOff /\ CtrlerClerkOff /\ ShardClerkOff
  \/ /\ part = "shardkv" /\ Shard!Init
     /\ pc = "off"
     /\ KvOff /\ CtrlerOff /\ ClerkOff /\ CtrlerClerkOff /\ ShardClerkOff
  \/ /\ part = "shardctrler clerks" /\ CClerk!MakeClerk
     /\ gen = "off" /\ clerks = "off" /\ at = "off" /\ running = "off"
     /\ NetOff /\ KvOff /\ CtrlerOff /\ ShardClerkOff
  \/ /\ part = "shardkv clerks" /\ SClerk!MakeClerk
     /\ gen = "off" /\ clerks = "off" /\ at = "off" /\ running = "off"
     /\ NetOff /\ KvOff /\ CtrlerOff /\ CtrlerClerkOff

AnyNext ==
  /\ UNCHANGED part
  /\ \/ /\ part = "kvraft" /\ Kv!Next
        /\ UNCHANGED <<at, pc, running, ctrler, clerk, ctrlerClerk, shardClerk>>
     \/ /\ part = "shardctrler" /\ Ctrler!Next
        /\ UNCHANGED <<gen, running, kv, clerk, ctrlerClerk, shardClerk>>
     \/ /\ part = "shardkv" /\ Shard!Next
        /\ UNCHANGED <<pc, kv, ctrler, clerk, ctrlerClerk, shardClerk>>
     \/ /\ part = "shardctrler clerks" /\ CClerk!Next
        /\ UNCHANGED <<net, gen, clerks, at, running, kv, ctrler, shardClerk>>
     \/ /\ part = "shardkv clerks" /\ SClerk!Next
        /\ UNCHANGED <<net, gen, clerks, at, running, kv, ctrler, ctrlerClerk>>

AnySpec == AnyInit /\ [][AnyNext]_all

Symmetry == Permutations(Calls2)

-----------------------------------------------------------------------------
(* AckedDurable of CrashNet and ReturnedDurable of CtrlerHarness: at every *)
(* point of ShutdownServer and StartServer an acknowledged update is in    *)
(* the Persister that the next instance gets, and a clerk that goes round  *)
(* meanwhile returns only on such an answer.                               *)
AckedDurable ==
  /\ part = "kvraft" => Kv!AckedDurable
  /\ part = "shardctrler" => Ctrler!AckedDurable /\ Ctrler!ReturnedDurable
  /\ part = "shardkv" => Shard!AckedDurable

(* NothingLost of CrashNet, for the three testers: no shutdown, no start   *)
(* and no write of an old instance makes a server's Persister lose an      *)
(* update.                                                                 *)
NothingLost == [][/\ part = "kvraft" => Kv!Keeps
                  /\ part = "shardctrler" => Ctrler!Keeps
                  /\ part = "shardkv" => Shard!Keeps]_all

(* Frozen of CrashNet, for the three testers: from the moment a server's   *)
(* instance is taken off the tester's list until the next one is started,  *)
(* no late handler of an old instance, and no step of the tester, changes  *)
(* what the next instance will find in its Persister.                      *)
FrozenWhileDown == [][/\ part = "kvraft" => Kv!Frozen(kvservers)
                      /\ part = "shardctrler" => Ctrler!Frozen(up)
                      /\ part = "shardkv" => Shard!Frozen(running)]_all

(* Partitioned of KvHarness, Reconnected of CtrlerHarness, GroupWired of   *)
(* ShardHarness: whatever partitions, shutdowns and starts came before,    *)
(* servers that are up reach each other exactly as the tester asked for.   *)
LinksAsAsked ==
  /\ part = "kvraft" => Kv!Partitioned
  /\ part = "shardctrler" => Ctrler!Reconnected
  /\ part = "shardkv" => Shard!GroupWired

(* LeaderInMinority of KvHarness: after make_partition and partition the   *)
(* leader reaches no majority and a majority of the others is connected.   *)
LeaderInMinority == part = "kvraft" => Kv!LeaderInMinority

(* OldInstanceSilenced of KvHarness and CtrlerHarness, GivenEndsSilenced   *)
(* of ShardHarness: an instance that was shut down can never again use an  *)
(* end that StartServer gave it.                                           *)
OldInstanceSilenced ==
  /\ part = "kvraft" => Kv!OldInstanceSilenced
  /\ part = "shardctrler" => Ctrler!OldInstanceSilenced
  /\ part = "shardkv" => Shard!GivenEndsSilenced

(* ReturnedExecuted of both clerks: an update returns only after it was    *)
(* executed, whatever failed, was lost or went to the wrong group before.  *)
ReturnedExecuted ==
  /\ part = "shardctrler clerks" => CClerk!ReturnedExecuted
  /\ part = "shardkv clerks" => SClerk!ReturnedExecuted

(* QueryFresh of CtrlerClerk and GetFresh of ShardKvClerk: a Query or Get  *)
(* shows every update that had returned to any clerk before it was called, *)
(* also when attempts failed or the shard moved meanwhile.                 *)
ReadsFresh ==
  /\ part = "shardctrler clerks" => CClerk!QueryFresh
  /\ part = "shardkv clerks" => SClerk!GetFresh
=============================================================================
