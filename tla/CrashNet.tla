------------------------------ MODULE CrashNet ------------------------------
(***************************************************************************)
(* What the testers of kvraft, shardctrler and shardkv share: the network  *)
(* as LabRPC provides it, coarser, and the Persisters of servers that are  *)
(* shut down and started again.                                            *)
(*                                                                         *)
(* An end is <<owner, name>>: the clerk or server instance that holds it   *)
(* and the server it is connected to (each MakeEnd is followed by Connect  *)
(* before anyone can use the end).  An instance is <<name, g>>, the g-th   *)
(* the tester started under that name; it is never really killed.          *)
(* Handlers are the student's: one saves its request in the Persister of   *)
(* its instance or refuses it (wrong leader, wrong group), then returns.   *)
(***************************************************************************)
EXTENDS Naturals, Sequences, FiniteSets

CONSTANTS Names,        \* names of servers on the network
          MaxStarts,    \* bound: instances of each
          Calls, Nil

Instances == Names \X (1..MaxStarts)

\* Every server is started at least once, and Nil is not an instance.
NetSizes == MaxStarts \in Nat \ {0} /\ Nil \notin Instances

VARIABLES enabled,   \* the ends that are enabled
          servers,   \* the instance registered under each name
          caller,    \* the goroutine of each Call
          handler,   \* the goroutine of its handler
          via,       \* the end it uses
          inst,      \* the instance that got it
          heap,      \* contents of the Persister objects
          disk,      \* the Persister each instance was given, 0 before
          saved      \* the Persister the tester keeps for each name, 0 when nil

callVars  == <<caller, handler, via, inst>>
crashVars == <<enabled, servers, callVars, heap, disk, saved>>

NetTypes ==
  /\ \A e \in enabled : e[2] \in Names
  /\ servers \in [Names -> Instances \cup {Nil}]
  /\ caller \in [Calls -> {"idle", "pending", "ok", "fail"}]
  /\ handler \in [Calls -> {"none", "running", "saved", "refused"}]
  /\ inst \in [Calls -> Instances \cup {Nil}]
  /\ \A k \in DOMAIN heap : heap[k] \subseteq Calls
  /\ disk \in [Instances -> 0..Len(heap)]
  /\ saved \in [Names -> 0..Len(heap)]

CrashInit ==
  /\ enabled = {}
  /\ servers = [s \in Names |-> Nil]
  /\ caller = [c \in Calls |-> "idle"] /\ handler = [c \in Calls |-> "none"]
  /\ via = [c \in Calls |-> Nil] /\ inst = [c \in Calls |-> Nil]
  /\ heap = <<>>
  /\ disk = [x \in Instances |-> 0]
  /\ saved = [s \in Names |-> 0]

-----------------------------------------------------------------------------
(* The network and the handlers.                                           *)

Send(c, e) ==
  /\ caller[c] = "idle"
  /\ caller' = [caller EXCEPT ![c] = "pending"]
  /\ via' = [via EXCEPT ![c] = e]
  /\ UNCHANGED <<servers, handler, inst, heap, disk, saved>>

Call(c, e) == Send(c, e) /\ UNCHANGED enabled

Deliver(c) ==
  /\ caller[c] = "pending" /\ handler[c] = "none"
  /\ via[c] \in enabled /\ servers[via[c][2]] # Nil
  /\ handler' = [handler EXCEPT ![c] = "running"]
  /\ inst' = [inst EXCEPT ![c] = servers[via[c][2]]]
  /\ UNCHANGED <<enabled, servers, caller, via, heap, disk, saved>>

\* The handler, whether or not its instance has been shut down since.
Save(c) ==
  /\ handler[c] = "running"
  /\ handler' = [handler EXCEPT ![c] = "saved"]
  /\ heap' = [heap EXCEPT ![disk[inst[c]]] = @ \cup {c}]
  /\ UNCHANGED <<enabled, servers, caller, via, inst, disk, saved>>

Refuse(c) ==
  /\ handler[c] = "running"
  /\ handler' = [handler EXCEPT ![c] = "refused"]
  /\ UNCHANGED <<enabled, servers, caller, via, inst, heap, disk, saved>>

Handled(c) == handler[c] \in {"saved", "refused"}

IsServerDead(c) == via[c] \notin enabled \/ servers[via[c][2]] # inst[c]

Reply(c) ==
  /\ caller[c] = "pending" /\ Handled(c) /\ ~IsServerDead(c)
  /\ caller' = [caller EXCEPT ![c] = "ok"]
  /\ UNCHANGED <<enabled, servers, handler, via, inst, heap, disk, saved>>

\* Request or reply lost, nobody reachable, or the server found dead.
Fail(c) ==
  /\ caller[c] = "pending"
  /\ handler[c] = "running" => IsServerDead(c)
  /\ caller' = [caller EXCEPT ![c] = "fail"]
  /\ UNCHANGED <<enabled, servers, handler, via, inst, heap, disk, saved>>

Network == \E c \in Calls : Deliver(c) \/ Save(c) \/ Refuse(c) \/ Reply(c) \/ Fail(c)

\* Effects the testers' steps are made of.
Copy(k) == IF k = 0 THEN {} ELSE heap[k]

Supersede(s, content) ==
  /\ heap' = Append(heap, content)
  /\ saved' = [saved EXCEPT ![s] = Len(heap) + 1]

-----------------------------------------------------------------------------
(* "it's important to do this before creating the new Persister in         *)
(* saved[i], to avoid the possibility of the server returning a positive   *)
(* reply to an Append but persisting the result in the superseded          *)
(* Persister": an acknowledged update is in the Persister that the next    *)
(* instance of the server gets, wherever the tester is.                    *)
AckedDurable == \A c \in Calls :
  caller[c] = "ok" /\ handler[c] = "saved" => c \in Copy(saved[via[c][2]])

(* "we always pass Make() the last persisted state": shutting down and     *)
(* starting never loses an update, and an old instance that still writes   *)
(* never overwrites what its successor saved.                              *)
Keeps == \A s \in Names : saved[s] # 0 => heap[saved[s]] \subseteq heap'[saved'[s]]
NothingLost == [][Keeps]_crashVars

(* "a fresh persister, in case old instance continues to update the       *)
(* Persister": while a server is not among alive, the tester's running     *)
(* instances, what the tester keeps for it does not change at all, however *)
(* late its old instances still execute and save requests.                 *)
Frozen(alive) == \A s \in Names \ alive :
  saved[s] # 0 => heap'[saved'[s]] = heap[saved[s]]
=============================================================================
