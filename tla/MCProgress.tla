----------------------------- MODULE MCProgress -----------------------------
(***************************************************************************)
(* What has to end: the loops of a shard controller's clerk and of a       *)
(* sharded key/value clerk, and the checks of labgob, side by side for     *)
(* TLC.  part says which of them a behaviour is about; the others stay     *)
(* idle, where none of the steps they are fair to is enabled.              *)
(***************************************************************************)
EXTENDS LabGob

CONSTANTS Clerks, NServers, GroupSize, NShards

VARIABLES part,
          pc, args, answer, abandoned, returned, before,      \* shardctrler/client.go
          srv, ok, reply, executed,
          place, kvArgs, kvReply, givenUp, kvReturned,        \* shardkv/client.go
          kvBefore, si, config, num, serving, store

ctrler == <<pc, args, answer, abandoned, returned, before, srv, ok, reply, executed>>
shard  == <<place, kvArgs, kvReply, givenUp, kvReturned, kvBefore, si, config, num,
            serving, store>>
all == <<part, ctrler, shard, vars>>

OneOfEach == {[kind |-> "Join", n |-> 1],
              [kind |-> "Leave", n |-> 1], [kind |-> "Move", n |-> 1]}

TwoUpdates == {[op |-> "Put", key |-> 0, n |-> 1], [op |-> "Append", key |-> 1, n |-> 1]}

\* Both shards with one group, then one moves and one has none, then swapped.
Moves == << [s \in 0..1 |-> 1], [s \in 0..1 |-> IF s = 0 THEN 2 ELSE 0], [s \in 0..1 |-> 2 - s] >>

\* A recursive type whose last field has a lower-case name (Node), with a value
\* of it, and the QueryReply of the shard controller, whose Config is a struct
\* inside it.
SomeTypes == [Ptr |-> <<"Node">>, Node |-> <<"Ptr", "Int">>, Int |-> <<>>,
              ReplyPtr |-> <<"Reply">>, Reply |-> <<"Int", "Config">>, Config |-> <<"Int">>]
LowerFields == {<<"Node", 2>>}
SomeValues == [reply |-> <<"QueryReply">>, QueryReply |-> <<"WrongLeader", "Config">>,
               WrongLeader |-> <<>>, Config |-> <<"Num">>, Num |-> <<>>,
               node |-> <<"Node">>, Node |-> <<"next", "data">>, next |-> <<>>, data |-> <<>>]
BasicValues == {"WrongLeader", "Num", "data"}
TargetTypes == [reply |-> "ReplyPtr", node |-> "Ptr"]

Ctrler == INSTANCE CtrlerClerk WITH Good <- NServers, Updates <- OneOfEach
Shard  == INSTANCE ShardKvClerk WITH
            Keys <- {0, 1}, Configs <- Moves, Good <- GroupSize, Updates <- TwoUpdates,
            pc <- place, args <- kvArgs, answer <- kvReply, abandoned <- givenUp,
            returned <- kvReturned, before <- kvBefore

ASSUME Ctrler!Sizes /\ Shard!Sizes

-----------------------------------------------------------------------------
AnyInit ==
  /\ Ctrler!MakeClerk /\ Shard!MakeClerk /\ Init
  /\ part \in {"shardctrler", "shardkv", "labgob"}
  /\ part # "labgob" => nonDefault = {}

AnyNext ==
  /\ UNCHANGED part
  /\ \/ part = "shardctrler" /\ Ctrler!Next /\ UNCHANGED <<shard, vars>>
     \/ part = "shardkv" /\ Shard!Next /\ UNCHANGED <<ctrler, vars>>
     \/ part = "labgob" /\ Next /\ UNCHANGED <<ctrler, shard>>

AnySpec == AnyInit /\ [][AnyNext]_all
           /\ Ctrler!Fairness /\ Shard!Fairness /\ Fairness

-----------------------------------------------------------------------------
(* KeepsTrying of both clerks: every operation on the shard controller     *)
(* returns as long as one server keeps answering, and every Get, Put and   *)
(* Append once the shards are assigned for good and the group has such a   *)
(* server, from any cached configuration.                                  *)
KeepsTrying == Ctrler!KeepsTrying /\ Shard!KeepsTrying

(* ComplainOnce and WarnsFirst of LabGob: however many goroutines check    *)
(* the same types at the same time, each lower-case field is reported      *)
(* exactly once, checkDefault warns once, of the first error, and every    *)
(* non-default variable that is decoded into is counted.                   *)
ReportsRight == ComplainOnce /\ WarnsFirst
=============================================================================
