--------------------------- MODULE CtrlerHarness ---------------------------
(***************************************************************************)
(* The shard controller's clerks (shardctrler/client.go) against its       *)
(* tester (shardctrler/config.go), which shuts one server down at a time   *)
(* and starts it again while the others go on, as the historical queries   *)
(* of TestBasic do.  at is the tester's place: the last thing it did to    *)
(* the server i it is working on.  Every attempt of a clerk is one Call.   *)
(***************************************************************************)
EXTENDS CrashNet

CONSTANTS N,            \* cfg.n
          Clerks,       \* the clerks that may be made
          Victims       \* bound: the servers that are shut down

Servers == 0..N-1

Sizes ==
  /\ NetSizes /\ N \in Nat \ {0} /\ Names = Servers /\ Victims \subseteq Servers
  /\ Clerks \cap Instances = {}

VARIABLES endnames,     \* number of the set of names each server has, 0 when nil
          up,           \* the i with cfg.servers[i] # nil
          clerks,       \* cfg.clerks, and
          order,        \* the order of each one's ends, from random_handles
          at, i,        \* the tester's place, and the server it works on
          pc,           \* each clerk: "idle", or the index of the server it tries
          attempt,      \* the Call it waits for, or Nil
          accepted      \* the Calls that made an operation return

cfgVars   == <<endnames, up, at, i>>
clerkVars == <<clerks, order, pc, attempt, accepted>>
vars      == <<crashVars, cfgVars, clerkVars>>

Orders == {f \in [1..N -> Servers] : \A s \in Servers : \E k \in 1..N : f[k] = s}

TypeOK ==
  /\ NetTypes
  /\ endnames \in [Servers -> 0..MaxStarts] /\ up \subseteq Servers
  /\ at \in {"stopped", "named", "persister", "started", "added", "connected",
             "isolated", "deleted", "copied"}
  /\ i \in Servers
  /\ clerks \subseteq Clerks /\ order \in [Clerks -> Orders]
  /\ pc \in [Clerks -> 0..N] /\ attempt \in [Clerks -> Calls \cup {Nil}]
  /\ accepted \subseteq Calls

Init ==
  /\ CrashInit
  /\ endnames = [s \in Servers |-> 0] /\ up = {}
  /\ at = "stopped" /\ i = 0
  /\ clerks = {} /\ order \in [Clerks -> Orders]
  /\ pc = [ck \in Clerks |-> 0] /\ attempt = [ck \in Clerks |-> Nil]
  /\ accepted = {}

-----------------------------------------------------------------------------
(* The tester.                                                             *)

Goto(from, to) == at = from /\ at' = to

End(s, j) == << <<s, endnames[s]>>, j>>
Ends(s)   == {End(s, j) : j \in Servers}

\* ShutdownServer(s): disconnectUnlocked(s, All), ...
Shutdown(s) ==
  /\ Goto("connected", "isolated") /\ i' = s /\ endnames[s] < MaxStarts
  /\ enabled' = enabled \ (Ends(s) \cup {End(j, s) : j \in {j \in Servers : endnames[j] # 0}})
  /\ UNCHANGED <<servers, callVars, heap, disk, saved, endnames, up, clerkVars>>

\* ... net.DeleteServer(i), ...
DeleteServer ==
  /\ Goto("isolated", "deleted")
  /\ servers' = [servers EXCEPT ![i] = Nil]
  /\ UNCHANGED <<enabled, callVars, heap, disk, saved, endnames, up, i, clerkVars>>

\* ... saved[i].Copy(), ...
CopySaved ==
  /\ Goto("deleted", "copied")
  /\ IF saved[i] # 0 THEN Supersede(i, Copy(saved[i])) ELSE UNCHANGED <<heap, saved>>
  /\ UNCHANGED <<enabled, servers, callVars, disk, endnames, up, i, clerkVars>>

\* ... Kill() with the lock released, servers[i] = nil.
Kill ==
  /\ Goto("copied", "stopped")
  /\ up' = up \ {i}
  /\ UNCHANGED <<crashVars, endnames, i, clerkVars>>

\* StartServer(i): fresh names and ends, ...
FreshEnds ==
  /\ Goto("stopped", "named")
  /\ endnames' = [endnames EXCEPT ![i] = @ + 1]
  /\ UNCHANGED <<crashVars, up, i, clerkVars>>

\* ... a fresh Persister, ...
FreshPersister ==
  /\ Goto("named", "persister")
  /\ Supersede(i, Copy(saved[i]))
  /\ UNCHANGED <<enabled, servers, callVars, disk, endnames, up, i, clerkVars>>

\* ... the new instance, without the lock, ...
StartServer ==
  /\ Goto("persister", "started")
  /\ disk' = [disk EXCEPT ![<<i, endnames[i]>>] = saved[i]]
  /\ up' = up \cup {i}
  /\ UNCHANGED <<enabled, servers, callVars, heap, saved, endnames, i, clerkVars>>

\* ... and net.AddServer; make_config goes on with the next server.
AddServer ==
  /\ at = "started"
  /\ servers' = [servers EXCEPT ![i] = <<i, endnames[i]>>]
  /\ IF \E s \in Servers : endnames[s] = 0
       THEN at' = "stopped" /\ i' = i + 1
       ELSE at' = "added" /\ UNCHANGED i
  /\ UNCHANGED <<enabled, callVars, heap, disk, saved, endnames, up, clerkVars>>

ConnectAll ==
  /\ Goto("added", "connected")
  /\ enabled' = enabled \cup UNION {Ends(s) : s \in Servers}
  /\ UNCHANGED <<servers, callVars, heap, disk, saved, endnames, up, i, clerkVars>>

-----------------------------------------------------------------------------
(* Clerks and servers.                                                     *)

ClerkEnds(ck) == {<<ck, s>> : s \in Servers}

makeClient(ck) ==
  /\ at = "connected" /\ ck \notin clerks
  /\ clerks' = clerks \cup {ck}
  /\ enabled' = enabled \cup ClerkEnds(ck)
  /\ UNCHANGED <<servers, callVars, heap, disk, saved, cfgVars, order, pc, attempt, accepted>>

Begin(ck) ==
  /\ ck \in clerks /\ pc[ck] = 0
  /\ pc' = [pc EXCEPT ![ck] = 1]
  /\ UNCHANGED <<crashVars, cfgVars, clerks, order, attempt, accepted>>

\* srv.Call for the server whose turn it is.
Attempt(ck, c) ==
  /\ pc[ck] # 0 /\ attempt[ck] = Nil
  /\ Call(c, <<ck, order[ck][pc[ck]]>>)
  /\ attempt' = [attempt EXCEPT ![ck] = c]
  /\ UNCHANGED <<cfgVars, clerks, order, pc, accepted>>

\* ok && reply.WrongLeader == false
Accept(c) == caller[c] = "ok" /\ handler[c] = "saved"

Return(ck) ==
  /\ attempt[ck] # Nil /\ Accept(attempt[ck])
  /\ accepted' = accepted \cup {attempt[ck]}
  /\ attempt' = [attempt EXCEPT ![ck] = Nil]
  /\ pc' = [pc EXCEPT ![ck] = 0]
  /\ UNCHANGED <<crashVars, cfgVars, clerks, order>>

TryNext(ck) ==
  /\ attempt[ck] # Nil /\ caller[attempt[ck]] \in {"ok", "fail"} /\ ~Accept(attempt[ck])
  /\ attempt' = [attempt EXCEPT ![ck] = Nil]
  /\ pc' = [pc EXCEPT ![ck] = (@ % N) + 1]
  /\ UNCHANGED <<crashVars, cfgVars, clerks, order, accepted>>

\* An instance, shut down or not, calls a peer.
ServerCalls(c) ==
  /\ \E x \in Instances, j \in Servers : disk[x] # 0 /\ x[1] # j /\ Call(c, <<x, j>>)
  /\ UNCHANGED <<cfgVars, clerkVars>>

Next ==
  \/ \E s \in Victims : Shutdown(s)
  \/ DeleteServer \/ CopySaved \/ Kill \/ FreshEnds \/ FreshPersister \/ StartServer
  \/ AddServer \/ ConnectAll
  \/ \E ck \in Clerks : makeClient(ck) \/ Begin(ck) \/ Return(ck) \/ TryNext(ck)
                        \/ \E c \in Calls : Attempt(ck, c)
  \/ \E c \in Calls : ServerCalls(c)
  \/ Network /\ UNCHANGED <<cfgVars, clerkVars>>

Spec == Init /\ [][Next]_vars

-----------------------------------------------------------------------------

(* An operation returns to its caller only on an answer whose update is in *)
(* the Persister that the server has now or will be started with: a clerk  *)
(* that goes round while servers are shut down never takes the answer of   *)
(* an instance that could not save it for good.                            *)
ReturnedDurable == \A c \in accepted : c \in Copy(saved[via[c][2]])

(* No instance that was shut down can send again, although ConnectAll      *)
(* enables every end cfg.endnames knows of.                                *)
OldInstanceSilenced == \A x \in Instances :
  (\E j \in Servers : <<x, j>> \in enabled) => x[1] \in up /\ x[2] = endnames[x[1]]

(* While a server is shut down the other servers still reach each other,   *)
(* and once it has been started and ConnectAll has run everyone reaches    *)
(* everyone: a restart leaves no link behind.                              *)
Reconnected ==
  LET configuring == endnames[i] = (IF at = "stopped" THEN 0 ELSE 1)
                     /\ at \in {"stopped", "named", "persister", "started", "added"}
  IN  ~configuring => \A s, j \in Servers :
                        at = "connected" \/ i \notin {s, j} => End(s, j) \in enabled
=============================================================================
