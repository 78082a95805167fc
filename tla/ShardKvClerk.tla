---------------------------- MODULE ShardKvClerk ----------------------------
(***************************************************************************)
(* The clerk of the sharded key/value service (shardkv/client.go): it      *)
(* sends an operation to the group that its cached configuration names for *)
(* the key's shard, goes through that group's servers, and asks the        *)
(* controller for the latest configuration when none of them helped.       *)
(*                                                                         *)
(* External, as the code uses them: the controller (configurations come    *)
(* one after the other, Query(-1) returns the latest), the groups (at any  *)
(* time one group serves a shard, later than the configuration says so),   *)
(* and the network of RpcService.                                          *)
(***************************************************************************)
EXTENDS Naturals, Sequences

CONSTANTS Clerks, Keys,
          NShards,      \* shardctrler.NShards
          Configs,      \* the configurations the controller goes through:
                        \* each a function from shards to gids, 0 for none
          GroupSize,    \* servers per group
          Good,         \* the index of a server that keeps answering as leader
          Updates       \* Puts and Appends: [op, key, n]

Sizes ==
  /\ Keys \subseteq Nat /\ NShards \in Nat \ {0} /\ Good \in 1..GroupSize
  /\ \A u \in Updates : u.key \in Keys /\ u.op \in {"Put", "Append"}

Gets   == [op : {"Get"}, key : Keys, n : {0}]
NoArgs == CHOOSE g \in Gets : TRUE

VARIABLES pc, args, si,      \* place in the loop, arguments, server index
          config,            \* ck.config: its number, 0 for the zero Config
          answer,            \* the server's reply, or Pending
          num, serving,      \* the controller's latest number; who serves a shard
          store,             \* the updates executed, on which a key's value depends
          abandoned,         \* updates with an attempt that may still be executed
          returned, before   \* updates that returned, and those before the operation

vars == <<pc, args, si, config, answer, num, serving, store, abandoned, returned, before>>
ext  == <<num, serving>>

key2shard(key) == key % NShards

Pending == [Err |-> "pending", Value |-> {}]
Lost    == [Err |-> "lost", Value |-> {}]
Answers == [Err : {"pending", "lost", "OK", "ErrNoKey", "ErrWrongGroup", "ErrWrongLeader"},
            Value : SUBSET Updates]

TypeOK ==
  /\ pc \in [Clerks -> {"idle", "loop", "waiting", "refresh"}]
  /\ args \in [Clerks -> Updates \cup Gets] /\ si \in [Clerks -> 1..GroupSize]
  /\ config \in [Clerks -> 0..Len(Configs)] /\ num \in 0..Len(Configs)
  /\ answer \in [Clerks -> Answers]
  /\ serving \in [0..NShards-1 -> Nat]
  /\ store \subseteq Updates /\ abandoned \subseteq Updates /\ returned \subseteq Updates
  /\ before \in [Clerks -> SUBSET Updates]

MakeClerk ==
  /\ pc = [ck \in Clerks |-> "idle"] /\ args = [ck \in Clerks |-> NoArgs]
  /\ si = [ck \in Clerks |-> 1] /\ config = [ck \in Clerks |-> 0]
  /\ answer = [ck \in Clerks |-> Pending]
  /\ num = 0 /\ serving = [s \in 0..NShards-1 |-> 0]
  /\ store = {} /\ abandoned = {} /\ returned = {} /\ before = [ck \in Clerks |-> {}]

Begin(ck, a) ==
  /\ pc[ck] = "idle"
  /\ a \in Updates => a \notin returned /\ \A c2 \in Clerks : args[c2] # a
  /\ pc' = [pc EXCEPT ![ck] = "loop"]
  /\ args' = [args EXCEPT ![ck] = a]
  /\ before' = [before EXCEPT ![ck] = {u \in returned : u.key = a.key}]
  /\ UNCHANGED <<si, config, answer, ext, store, abandoned, returned>>

Get(ck)    == \E g \in Gets : Begin(ck, g)
Put(ck)    == \E u \in Updates : u.op = "Put" /\ Begin(ck, u)
AppendTo(ck) == \E u \in Updates : u.op = "Append" /\ Begin(ck, u)

\* Config.Shards[key2shard(key)]; 0 is in no Groups.
Gid(ck) == IF config[ck] = 0 THEN 0 ELSE Configs[config[ck]][key2shard(args[ck].key)]

\* make_end and Call for servers[si] of the group.
Call(ck) ==
  /\ pc[ck] = "loop" /\ Gid(ck) # 0
  /\ pc' = [pc EXCEPT ![ck] = "waiting"]
  /\ UNCHANGED <<args, si, config, answer, ext, store, abandoned, returned, before>>

NoGroup(ck) ==
  /\ pc[ck] = "loop" /\ Gid(ck) = 0
  /\ pc' = [pc EXCEPT ![ck] = "refresh"]
  /\ UNCHANGED <<args, si, config, answer, ext, store, abandoned, returned, before>>

-----------------------------------------------------------------------------
(* The servers, the network and the controller.                            *)

OnKey(ck) == {u \in store : u.key = args[ck].key}

Answer(ck, err, val) ==
  /\ pc[ck] = "waiting" /\ answer[ck] = Pending
  /\ answer' = [answer EXCEPT ![ck] = [Err |-> err, Value |-> val]]
  /\ UNCHANGED <<pc, args, si, config, ext, abandoned, returned, before>>

\* The group's leader executes the operation if the group serves the shard.
Execute(ck) ==
  IF serving[key2shard(args[ck].key)] # Gid(ck)
    THEN Answer(ck, "ErrWrongGroup", {}) /\ UNCHANGED store
    ELSE IF args[ck].op = "Get"
      THEN Answer(ck, IF OnKey(ck) = {} THEN "ErrNoKey" ELSE "OK", OnKey(ck)) /\ UNCHANGED store
      ELSE Answer(ck, "OK", {}) /\ store' = store \cup {args[ck]}

WrongLeader(ck) == Answer(ck, "ErrWrongLeader", {}) /\ UNCHANGED store

Fail(ck) ==
  /\ pc[ck] = "waiting" /\ answer[ck] # Lost
  /\ answer' = [answer EXCEPT ![ck] = Lost]
  /\ abandoned' = abandoned \cup ({args[ck]} \cap Updates)
  /\ UNCHANGED <<pc, args, si, config, ext, store, returned, before>>

ExecuteLate ==
  /\ \E u \in abandoned \ store : serving[key2shard(u.key)] # 0 /\ store' = store \cup {u}
  /\ UNCHANGED <<pc, args, si, config, answer, ext, abandoned, returned, before>>

Reconfigure ==
  /\ num < Len(Configs)
  /\ num' = num + 1
  /\ UNCHANGED <<pc, args, si, config, answer, serving, store, abandoned, returned, before>>

\* The shards reach the groups that the latest configuration names.
Handover ==
  /\ num # 0 /\ serving # Configs[num]
  /\ serving' = Configs[num]
  /\ UNCHANGED <<pc, args, si, config, answer, num, store, abandoned, returned, before>>

-----------------------------------------------------------------------------
(* The rest of the loop.                                                   *)

\* Mutant: any reply but the two errors counts.
AcceptUnlessError(ck) == answer[ck].Err \notin {"pending", "ErrWrongGroup", "ErrWrongLeader"}

Accept(ck) == \/ answer[ck].Err = "OK"
              \/ answer[ck].Err = "ErrNoKey" /\ args[ck].op = "Get"

\* The method returns (a Get with answer.Value) and its variables are gone.
Return(ck) ==
  /\ pc[ck] = "waiting" /\ Accept(ck)
  /\ pc' = [pc EXCEPT ![ck] = "idle"]
  /\ si' = [si EXCEPT ![ck] = 1]
  /\ returned' = returned \cup ({args[ck]} \cap Updates)
  /\ args' = [args EXCEPT ![ck] = NoArgs]
  /\ answer' = [answer EXCEPT ![ck] = Pending]
  /\ before' = [before EXCEPT ![ck] = {}]
  /\ UNCHANGED <<config, ext, store, abandoned>>

\* The next server, or out of the loop after the last one or ErrWrongGroup.
GoOn(ck) ==
  /\ pc[ck] = "waiting" /\ answer[ck] # Pending /\ ~Accept(ck)
  /\ IF answer[ck].Err # "ErrWrongGroup" /\ si[ck] < GroupSize
       THEN pc' = [pc EXCEPT ![ck] = "loop"] /\ si' = [si EXCEPT ![ck] = @ + 1]
       ELSE pc' = [pc EXCEPT ![ck] = "refresh"] /\ si' = [si EXCEPT ![ck] = 1]
  /\ answer' = [answer EXCEPT ![ck] = Pending]
  /\ UNCHANGED <<args, config, ext, store, abandoned, returned, before>>

\* Mutant: the configuration is fetched only once.
RefreshOnce(ck) ==
  /\ pc[ck] = "refresh"
  /\ pc' = [pc EXCEPT ![ck] = "loop"]
  /\ config' = [config EXCEPT ![ck] = IF @ = 0 THEN num ELSE @]
  /\ UNCHANGED <<args, si, answer, ext, store, abandoned, returned, before>>

\* ck.config = ck.sm.Query(-1)
Refresh(ck) ==
  /\ pc[ck] = "refresh"
  /\ pc' = [pc EXCEPT ![ck] = "loop"]
  /\ config' = [config EXCEPT ![ck] = num]
  /\ UNCHANGED <<args, si, answer, ext, store, abandoned, returned, before>>

Next ==
  \/ ExecuteLate \/ Reconfigure \/ Handover
  \/ \E ck \in Clerks :
       \/ Get(ck) \/ Put(ck) \/ AppendTo(ck)
       \/ Call(ck) \/ NoGroup(ck) \/ Execute(ck) \/ WrongLeader(ck) \/ Fail(ck)
       \/ Return(ck) \/ GoOn(ck) \/ Refresh(ck)

\* The clerk's goroutine runs, Calls and Query return, groups take over their
\* shards, and the Good server executes what it is asked again and again.
Fairness ==
  /\ WF_vars(Handover)
  /\ \A ck \in Clerks :
       /\ WF_vars(Call(ck) \/ NoGroup(ck) \/ Return(ck) \/ GoOn(ck) \/ Refresh(ck))
       /\ WF_vars(Execute(ck) \/ WrongLeader(ck) \/ Fail(ck))
       /\ SF_vars(si[ck] = Good /\ Execute(ck))
       /\ SF_vars(si[ck] = Good /\ Return(ck))

Spec == MakeClerk /\ [][Next]_vars /\ Fairness

-----------------------------------------------------------------------------

(* Put and Append return only after some group that served the shard has   *)
(* executed them, however stale the clerk's configuration was.             *)
ReturnedExecuted == returned \subseteq store

(* A Get returns a value that reflects every Put and Append on the key     *)
(* that had returned before it was called, also when the shard moved and   *)
(* the clerk went to the wrong group first.                                *)
GetFresh == \A ck \in Clerks :
  pc[ck] = "waiting" /\ Accept(ck) /\ args[ck].op = "Get" => before[ck] \subseteq answer[ck].Value

(* "keeps trying forever in the face of all other errors": once the        *)
(* controller has a configuration that assigns the shard for good and the  *)
(* group has a server that keeps answering, every operation returns, from  *)
(* any cached configuration.                                               *)
KeepsTrying ==
  LET assigned == num # 0 /\ \A s \in 0..NShards-1 : Configs[num][s] # 0
  IN  <>[]assigned => \A ck \in Clerks : pc[ck] # "idle" ~> pc[ck] = "idle"
=============================================================================
