---------------------------- MODULE ShardHarness ----------------------------
(***************************************************************************)
(* The tester of the sharded key/value labs (shardkv/config.go): groups of *)
(* servers that are shut down and started one by one, in any order, and    *)
(* controllers that stay up.  Unlike in the other labs a server's ends are *)
(* enabled from the start, ShutdownServer leaves the ends of the others    *)
(* alone, and servers and clerks make more ends on the fly with make_end.  *)
(*                                                                         *)
(* Names are <<gid, i>>, with gid 0 for the controllers.  An end from      *)
(* endnames or mendnames has an instance <<name, g>> as its owner, one     *)
(* from make_end has <<name, g, "made">>.                                  *)
(***************************************************************************)
EXTENDS CrashNet

CONSTANTS Gids,         \* the groups' gids, not 0
          N, NCtrlers,  \* cfg.n, cfg.nctrlers
          Clerks,       \* clerks made by makeClient, and
          Mck           \* the tester's controller clerk

Group(gid) == {gid} \X (0..N-1)
Shards     == UNION {Group(gid) : gid \in Gids}
Ctrlers    == {0} \X (0..NCtrlers-1)

Sizes ==
  /\ N \in Nat \ {0} /\ NCtrlers \in Nat \ {0} /\ Gids \subseteq Nat \ {0}
  /\ Names = Shards \cup Ctrlers
  /\ NetSizes /\ (Clerks \cup {Mck}) \cap Instances = {}

VARIABLES gen,       \* endnames[i] and mendnames[i] are the gen-th sets, nil when 0
          running,   \* the instances gg.servers[i] # nil and the controllers
          clerks,    \* cfg.clerks
          at         \* where the tester is with each server

cfgVars == <<gen, running, clerks, at>>
vars    == <<crashVars, cfgVars>>

TypeOK ==
  /\ NetTypes
  /\ gen \in [Shards -> 0..MaxStarts] /\ running \subseteq Names /\ clerks \subseteq Clerks
  /\ at \in [Shards -> {"down", "named", "persister", "started", "up",
                        "silenced", "deleted", "copied"}]

Init ==
  /\ CrashInit
  /\ gen = [s \in Shards |-> 0]
  /\ running = {} /\ clerks = {}
  /\ at = [s \in Shards |-> "down"]

-----------------------------------------------------------------------------
(* The tester: one server at a time.                                       *)

\* ctrlerservers first; their ends are never disabled.
StartCtrlerserver(s) ==
  /\ s \notin running
  /\ running' = running \cup {s}
  /\ servers' = [servers EXCEPT ![s] = <<s, 1>>]
  /\ enabled' = enabled \cup ({<<s, 1>>} \X Ctrlers)
  /\ Supersede(s, {})
  /\ disk' = [disk EXCEPT ![<<s, 1>>] = Len(heap) + 1]
  /\ UNCHANGED <<callVars, gen, clerks, at>>

\* cfg.mck = cfg.shardclerk()
shardclerk ==
  /\ Ctrlers \subseteq running /\ <<Mck, <<0, 0>>>> \notin enabled
  /\ enabled' = enabled \cup ({Mck} \X Ctrlers)
  /\ UNCHANGED <<servers, callVars, heap, disk, saved, cfgVars>>

Configured == \A s \in Shards : gen[s] # 0
Busy == \E s \in Shards : at[s] \notin {"up", "down"}

Goto(s, from, to) == at[s] = from /\ at' = [at EXCEPT ![s] = to]

Inst(s) == <<s, gen[s]>>

\* The ends of endnames[i] and mendnames[i].
Outgoing(x) == {x} \X (Group(x[1][1]) \cup Ctrlers)

\* ShutdownServer(gi, i): "prevent this server from sending", ...
Silence(s) ==
  /\ Configured /\ ~Busy /\ Goto(s, "up", "silenced")
  /\ enabled' = enabled \ Outgoing(Inst(s))
  /\ UNCHANGED <<servers, callVars, heap, disk, saved, gen, running, clerks>>

\* ... DeleteServer, ...
DeleteServer(s) ==
  /\ Goto(s, "silenced", "deleted")
  /\ servers' = [servers EXCEPT ![s] = Nil]
  /\ UNCHANGED <<enabled, callVars, heap, disk, saved, gen, running, clerks>>

\* ... a copy of the Persister, ...
CopySaved(s) ==
  /\ Goto(s, "deleted", "copied")
  /\ IF saved[s] # 0 THEN Supersede(s, Copy(saved[s])) ELSE UNCHANGED <<heap, saved>>
  /\ UNCHANGED <<enabled, servers, callVars, disk, gen, running, clerks>>

\* ... and Kill() without the lock, servers[i] = nil.
Kill(s) ==
  /\ Goto(s, "copied", "down")
  /\ running' = running \ {s}
  /\ UNCHANGED <<crashVars, gen, clerks>>

\* StartServer(gi, i): fresh ends, enabled at once, ...
FreshEnds(s) ==
  /\ ~Busy /\ Goto(s, "down", "named")
  /\ <<Mck, <<0, 0>>>> \in enabled /\ gen[s] < MaxStarts
  /\ gen' = [gen EXCEPT ![s] = @ + 1]
  /\ enabled' = enabled \cup Outgoing(<<s, gen[s] + 1>>)
  /\ UNCHANGED <<servers, callVars, heap, disk, saved, running, clerks>>

\* ... a fresh Persister, ...
FreshPersister(s) ==
  /\ Goto(s, "named", "persister")
  /\ Supersede(s, Copy(saved[s]))
  /\ UNCHANGED <<enabled, servers, callVars, disk, gen, running, clerks>>

\* ... the instance, ...
StartServer(s) ==
  /\ Goto(s, "persister", "started")
  /\ disk' = [disk EXCEPT ![Inst(s)] = saved[s]]
  /\ running' = running \cup {s}
  /\ UNCHANGED <<enabled, servers, callVars, heap, saved, gen, clerks>>

\* ... and its registration.
AddServer(s) ==
  /\ Goto(s, "started", "up")
  /\ servers' = [servers EXCEPT ![s] = Inst(s)]
  /\ UNCHANGED <<enabled, callVars, heap, disk, saved, gen, running, clerks>>

-----------------------------------------------------------------------------
(* Clerks and servers.                                                     *)

\* makeClient: a clerk with ends to the controllers.
makeClient(ck) ==
  /\ Configured /\ ~Busy /\ ck \notin clerks /\ ({ck} \X Ctrlers) \cap enabled = {}
  /\ clerks' = clerks \cup {ck}
  /\ enabled' = enabled \cup ({ck} \X Ctrlers)
  /\ UNCHANGED <<servers, callVars, heap, disk, saved, gen, running, at>>

\* deleteClient forgets the clerk; its ends stay enabled.
deleteClient(ck) ==
  /\ ck \in clerks
  /\ clerks' = clerks \ {ck}
  /\ UNCHANGED <<crashVars, gen, running, at>>

Started == {x \in Instances : x[1] \in Shards /\ disk[x] # 0}
Made(x) == <<x[1], x[2], "made">>

\* An instance, shut down or not, calls through the ends StartServer gave it.
ServerCalls(c) ==
  /\ \E x \in Started : \E e \in Outgoing(x) : e[2] # x[1] /\ Call(c, e)
  /\ UNCHANGED cfgVars

\* A clerk or the tester (join, leave) calls a controller.
CtrlerCalls(c) ==
  /\ \E ck \in clerks \cup {Mck} : \E e \in {ck} \X Ctrlers : e \in enabled /\ Call(c, e)
  /\ UNCHANGED cfgVars

\* The closures given to MakeClerk and StartServer, MakeEnd, Connect and
\* Enable for a fresh name, and a Call through that end.
make_end(c) ==
  /\ \E owner \in clerks \cup {Made(x) : x \in Started}, s \in Shards :
       Send(c, <<owner, s>>) /\ enabled' = enabled \cup {<<owner, s>>}
  /\ UNCHANGED cfgVars

Next ==
  \/ \E s \in Ctrlers : StartCtrlerserver(s)
  \/ shardclerk
  \/ \E s \in Shards :
       \/ Silence(s) \/ DeleteServer(s) \/ CopySaved(s) \/ Kill(s)
       \/ FreshEnds(s) \/ FreshPersister(s) \/ StartServer(s) \/ AddServer(s)
  \/ \E ck \in Clerks : makeClient(ck) \/ deleteClient(ck)
  \/ \E c \in Calls : ServerCalls(c) \/ CtrlerCalls(c) \/ make_end(c)
  \/ Network /\ UNCHANGED cfgVars

Spec == Init /\ [][Next]_vars

-----------------------------------------------------------------------------

(* Once a server is up again its group works without any reconnecting:     *)
(* every running server's end to every running peer is enabled and leads   *)
(* to the instance that was started last.                                  *)
GroupWired == \A gid \in Gids : \A s, p \in Group(gid) :
  at[s] = "up" /\ at[p] = "up" => <<Inst(s), p>> \in enabled /\ servers[p] = Inst(p)

(* An instance that was shut down can use none of the ends StartServer     *)
(* gave it, neither to its group nor to the controllers.                   *)
GivenEndsSilenced == \A s \in Shards : \A g \in 1..gen[s] :
  g < gen[s] \/ at[s] \in {"silenced", "deleted", "copied", "down"} =>
    Outgoing(<<s, g>>) \cap enabled = {}

(* "prevent this server from sending": once ShutdownServer has returned,   *)
(* no end of the instance is enabled, those from make_end included.        *)
CannotSend == \A x \in Instances, s \in Names :
  <<Made(x), s>> \in enabled => x[2] = gen[x[1]] /\ at[x[1]] # "down"
=============================================================================
