----------------------------- MODULE KvHarness -----------------------------
(***************************************************************************)
(* The tester of the key/value labs (kvraft/config.go): servers are put    *)
(* into partitions, shut down and started again while clerks and servers   *)
(* call each other.  As in GenericTest, the partitioner is stopped before  *)
(* servers are shut down, so tester and partitioner are one sequence of    *)
(* steps, todo; each step is a call that takes the network's lock (or a    *)
(* loop of Enables on ends of one server), and clerks, handlers and the    *)
(* network run in between.  Client goroutines make and delete their clerks *)
(* at any time; a new clerk's ends are unknown to all others until         *)
(* makeClient returns, which makes it one step.                            *)
(***************************************************************************)
EXTENDS CrashNet

CONSTANTS N,            \* cfg.n
          Clerks,       \* the clerks the client goroutines may make
          MaxPicks      \* bound: procedures after make_config

Servers == 0..N-1

\* The tests run 3, 5 or 7 servers: make_partition is only right for odd n.
Sizes ==
  /\ NetSizes /\ N \in Nat /\ N % 2 = 1 /\ N > 1 /\ Names = Servers /\ MaxPicks \in Nat
  /\ Clerks \cap (Names \X (0..MaxStarts)) = {}

VARIABLES gen,          \* endnames[i] is the gen[i]-th set of names, nil when 0
          kvservers,    \* the servers cfg knows an instance of
          clerks,       \* cfg.clerks: the clerks that exist
          todo, picks,
          sides         \* the two lists given to the last partition, or All and none

kvVars == <<gen, kvservers, clerks, picks, sides>>
vars   == <<crashVars, kvVars, todo>>

ToSet(s) == {s[k] : k \in DOMAIN s}

TypeOK ==
  /\ NetTypes
  /\ gen \in [Servers -> 0..MaxStarts]
  /\ kvservers \subseteq Servers /\ clerks \subseteq Clerks /\ picks \in 0..MaxPicks
  /\ \A k \in DOMAIN todo : todo[k].i \in Servers /\ ToSet(todo[k].to) \subseteq Servers

-----------------------------------------------------------------------------
(* The procedures, as the steps they take.                                 *)

Do(op, i, to) == [op |-> op, i |-> i, to |-> to]
All == [k \in 1..N |-> k - 1]

ConnectAll == [k \in 1..N |-> Do("connect", All[k], All)]

\* Mutant: sides are only joined, not separated.
JoinSide(p, q) == [k \in 1..Len(p) |-> Do("connect", p[k], p)]

\* One of the two loops of partition: each server of p leaves q and joins p.
Side(p, q) == [k \in 1..2 * Len(p) |->
  IF k % 2 = 1 THEN Do("disconnect", p[(k + 1) \div 2], q) ELSE Do("connect", p[k \div 2], p)]

partition(p1, p2) == Side(p1, p2) \o Side(p2, p1)

\* Mutant: the new Persister before the server is unregistered.
CopyThenDelete(i) == << Do("disconnect", i, All), Do("copy", i, <<>>),
                        Do("delete", i, <<>>), Do("kill", i, <<>>) >>

ShutdownServer(i) == << Do("disconnect", i, All), Do("delete", i, <<>>),
                        Do("copy", i, <<>>), Do("kill", i, <<>>) >>

StartServer(i) == << Do("names", i, <<>>), Do("persister", i, <<>>),
                     Do("start", i, <<>>), Do("add", i, <<>>) >>

\* The loops over all servers.
ShutdownAll == [k \in 1..4 * N |-> ShutdownServer((k - 1) \div 4)[((k - 1) % 4) + 1]]
StartAll    == [k \in 1..4 * N |-> StartServer((k - 1) \div 4)[((k - 1) % 4) + 1]]

\* The servers but l, in order.
Others(l) == [k \in 1..N-1 |-> IF k <= l THEN k - 1 ELSE k]

\* Mutant: halves of equal size, the leader's one server larger.
EvenHalves(l) ==
  << SubSeq(Others(l), 1, N \div 2), SubSeq(Others(l), N \div 2 + 1, N - 1) \o <<l>> >>

\* p1 has n/2+1 elements, p2 n/2, the last of which is the leader.
make_partition(l) ==
  << SubSeq(Others(l), 1, N \div 2 + 1), SubSeq(Others(l), N \div 2 + 2, N - 1) \o <<l>> >>

make_config == StartAll \o ConnectAll

Init ==
  /\ CrashInit
  /\ gen = [i \in Servers |-> 0]
  /\ kvservers = {} /\ clerks = {} /\ picks = 0
  /\ sides = <<All, <<>>>>
  /\ todo = make_config

-----------------------------------------------------------------------------
(* What the tester runs next; all servers are up between procedures.       *)

Begin(steps, s) ==
  /\ todo = <<>> /\ picks < MaxPicks
  /\ picks' = picks + 1 /\ todo' = steps /\ sides' = s
  /\ UNCHANGED <<crashVars, gen, kvservers, clerks>>

\* The servers of P, in order.
Lists(P) == {p \in [1..Cardinality(P) -> P] :
               ToSet(p) = P /\ \A k, l \in DOMAIN p : k < l => p[k] < p[l]}

\* The partitioner's random sides, and the fixed ones of the snapshot test.
Repartition == todo = <<>> /\ \E P \in SUBSET Servers :
  \E p1 \in Lists(P), p2 \in Lists(Servers \ P) : Begin(partition(p1, p2), <<p1, p2>>)

PartitionLeader == Begin(<<Do("look", 0, <<>>)>>, sides)

Heal == Begin(ConnectAll, <<All, <<>>>>)

\* GenericTest's crash: heal, shut down all, start all, heal.
Restart ==
  /\ \A i \in Servers : gen[i] < MaxStarts
  /\ Begin(ConnectAll \o ShutdownAll \o StartAll \o ConnectAll, <<All, <<>>>>)

-----------------------------------------------------------------------------
(* The steps.                                                              *)

Step(op) == todo # <<>> /\ Head(todo).op = op
Advance  == todo' = Tail(todo)
I == Head(todo).i
To == Head(todo).to

Out(i, to) == {<< <<i, gen[i]>>, to[k]>> : k \in DOMAIN to}

connectUnlocked ==
  /\ Step("connect") /\ Advance
  /\ enabled' = enabled \cup Out(I, To)
                        \cup {<< <<To[k], gen[To[k]]>>, I>> : k \in DOMAIN To}
  /\ UNCHANGED <<servers, callVars, heap, disk, saved, kvVars>>

\* Mutant: the outgoing ends are forgotten.
DisconnectIncoming ==
  /\ Step("disconnect") /\ Advance
  /\ enabled' = enabled \ {<< <<To[k], gen[To[k]]>>, I>> : k \in DOMAIN To}
  /\ UNCHANGED <<servers, callVars, heap, disk, saved, kvVars>>

\* The incoming loop tests endnames[j], not endnames[from[j]].
disconnectUnlocked ==
  /\ Step("disconnect") /\ Advance
  /\ enabled' = enabled \ ( (IF gen[I] # 0 THEN Out(I, To) ELSE {}) \cup
                            {<< <<To[k], gen[To[k]]>>, I>> :
                               k \in {k \in DOMAIN To : gen[k-1] # 0}} )
  /\ UNCHANGED <<servers, callVars, heap, disk, saved, kvVars>>

DeleteServer ==
  /\ Step("delete") /\ Advance
  /\ servers' = [servers EXCEPT ![I] = Nil]
  /\ UNCHANGED <<enabled, callVars, heap, disk, saved, kvVars>>

\* Mutant: the old Persister is kept, StartServer copies it anyway.
KeepSaved ==
  /\ Step("copy") /\ Advance
  /\ UNCHANGED <<crashVars, kvVars>>

CopySaved ==
  /\ Step("copy") /\ Advance
  /\ IF saved[I] # 0 THEN Supersede(I, Copy(saved[I])) ELSE UNCHANGED <<heap, saved>>
  /\ UNCHANGED <<enabled, servers, callVars, disk, kvVars>>

\* kv.Kill() without cfg.mu, then kvservers[i] = nil.
KillServer ==
  /\ Step("kill") /\ Advance
  /\ kvservers' = kvservers \ {I}
  /\ UNCHANGED <<crashVars, gen, clerks, picks, sides>>

\* endnames[i] is replaced; the new ends are not enabled yet.
FreshEnds ==
  /\ Step("names") /\ Advance
  /\ gen' = [gen EXCEPT ![I] = @ + 1]
  /\ UNCHANGED <<crashVars, kvservers, clerks, picks, sides>>

\* Mutant: always MakePersister().
EmptyPersister ==
  /\ Step("persister") /\ Advance
  /\ Supersede(I, {})
  /\ UNCHANGED <<enabled, servers, callVars, disk, kvVars>>

FreshPersister ==
  /\ Step("persister") /\ Advance
  /\ Supersede(I, Copy(saved[I]))
  /\ UNCHANGED <<enabled, servers, callVars, disk, kvVars>>

StartKVServer ==
  /\ Step("start") /\ Advance
  /\ disk' = [disk EXCEPT ![<<I, gen[I]>>] = saved[I]]
  /\ kvservers' = kvservers \cup {I}
  /\ UNCHANGED <<enabled, servers, callVars, heap, saved, gen, clerks, picks, sides>>

AddServer ==
  /\ Step("add") /\ Advance
  /\ servers' = [servers EXCEPT ![I] = <<I, gen[I]>>]
  /\ UNCHANGED <<enabled, callVars, heap, disk, saved, kvVars>>

\* Leader's loop, one rf.GetState() a step: the server says it leads, or the
\* next is asked; after the last, (false, 0) makes server 0 the "leader".
Leader ==
  /\ Step("look")
  /\ \E l \in {I} \cup (IF I = N - 1 THEN {0} ELSE {}) :
       sides' = make_partition(l)
  /\ todo' = partition(sides'[1], sides'[2])
  /\ UNCHANGED <<crashVars, gen, kvservers, clerks, picks>>

LookOn ==
  /\ Step("look") /\ I < N - 1
  /\ todo' = <<Do("look", I + 1, <<>>)>>
  /\ UNCHANGED <<crashVars, kvVars>>

-----------------------------------------------------------------------------
(* Clerks and servers.                                                     *)

Ends(ck, to) == {<<ck, j>> : j \in to}

\* makeClient(to) ends with ConnectClientUnlocked(ck, to); there is a cfg to call
\* it on once make_config has returned, whatever the tester is doing then.
makeClient(ck) ==
  /\ picks > 0 \/ todo = <<>>
  /\ ck \notin clerks /\ Ends(ck, Servers) \cap enabled = {}
  /\ clerks' = clerks \cup {ck}
  /\ \E to \in {ToSet(All), ToSet(sides[1]), ToSet(sides[2])} :
       enabled' = enabled \cup Ends(ck, to)
  /\ UNCHANGED <<servers, callVars, heap, disk, saved, gen, kvservers, picks, sides, todo>>

ConnectClient(ck) ==
  /\ todo = <<>> /\ ck \in clerks
  /\ enabled' = enabled \cup Ends(ck, Servers)
  /\ UNCHANGED <<servers, callVars, heap, disk, saved, kvVars, todo>>

DisconnectClient(ck) ==
  /\ todo = <<>> /\ ck \in clerks
  /\ enabled' = enabled \ Ends(ck, Servers)
  /\ UNCHANGED <<servers, callVars, heap, disk, saved, kvVars, todo>>

\* deleteClient forgets the clerk; its ends stay as they are.
deleteClient(ck) ==
  /\ ck \in clerks
  /\ clerks' = clerks \ {ck}
  /\ UNCHANGED <<crashVars, gen, kvservers, picks, sides, todo>>

ClerkCalls(c) ==
  /\ \E ck \in clerks, j \in Servers : Call(c, <<ck, j>>)
  /\ UNCHANGED <<kvVars, todo>>

\* An instance, killed or not, calls a peer.
ServerCalls(c) ==
  /\ \E x \in Instances, j \in Servers : disk[x] # 0 /\ x[1] # j /\ Call(c, <<x, j>>)
  /\ UNCHANGED <<kvVars, todo>>

Tester ==
  \/ Repartition \/ PartitionLeader \/ Heal \/ Restart
  \/ connectUnlocked \/ disconnectUnlocked \/ DeleteServer \/ CopySaved \/ KillServer
  \/ FreshEnds \/ FreshPersister \/ StartKVServer \/ AddServer \/ Leader \/ LookOn

Next ==
  \/ Tester
  \/ \E ck \in Clerks : \/ makeClient(ck) \/ deleteClient(ck)
                         \/ ConnectClient(ck) \/ DisconnectClient(ck)
  \/ \E c \in Calls : ClerkCalls(c) \/ ServerCalls(c)
  \/ Network /\ UNCHANGED <<kvVars, todo>>

Spec == Init /\ [][Next]_vars

-----------------------------------------------------------------------------
(* What the tests rely on.                                                 *)

Link(i, j) == << <<i, gen[i]>>, j>> \in enabled
Together(i, j) == \E k \in {1, 2} : {i, j} \subseteq ToSet(sides[k])

(* Between procedures, the running instances of two servers reach each     *)
(* other exactly when the last partition put them on one side, whatever    *)
(* partitions, restarts and heals came before.                             *)
Partitioned == todo = <<>> => \A i, j \in Servers : Link(i, j) <=> Together(i, j)

(* The ends of an instance that was shut down stay disabled for good, so   *)
(* that it cannot send, although cfg.endnames keeps naming them until      *)
(* StartServer.                                                            *)
OldInstanceSilenced ==
  \A e \in enabled : e[1] \in Instances => e[1][1] \in kvservers /\ e[1][2] = gen[e[1][1]]

(* "Partition servers into 2 groups and put current leader in minority":   *)
(* after make_partition and partition the server that Leader found, the    *)
(* last of the second list, reaches no majority, and a majority of the     *)
(* others is fully connected.                                              *)
LeaderInMinority ==
  todo = <<>> /\ sides \in {make_partition(l) : l \in Servers} =>
    LET l == sides[2][Len(sides[2])]
    IN  /\ 2 * Cardinality({j \in Servers : Link(l, j) \/ Link(j, l)}) < N
        /\ \E M \in SUBSET (Servers \ {l}) :
             2 * Cardinality(M) > N /\ \A i, j \in M : Link(i, j)
=============================================================================
