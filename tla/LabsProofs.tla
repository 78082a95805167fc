----------------------------- MODULE LabsProofs -----------------------------
(***************************************************************************)
(* Proofs about the clerks of shardctrler and shardkv, and about the       *)
(* testers of kvraft, shardctrler and shardkv, for every number of         *)
(* servers, groups, instances, shards, clerks, configurations, updates and *)
(* Calls.                                                                  *)
(***************************************************************************)
EXTENDS MCLabs, TLAPS, SequenceTheorems, FiniteSetTheorems

-----------------------------------------------------------------------------
(* The clerk of the shard controller.                                      *)

\* An answer waits for nobody but a Call that has not returned, and that Call
\* began with the zero reply.
FreshReplies == \A ck \in Clerks :
  /\ pc[ck] # "waiting" => answer[ck] = CClerk!None
  /\ pc[ck] = "waiting" => reply[ck] = CClerk!NoReply

\* What a leader's reply r promises about the operation of ck.
Vouches(ck, r) ==
  /\ args[ck] = CClerk!QueryOp \/ args[ck] \in executed
  /\ args[ck] = CClerk!QueryOp => before[ck] \subseteq r.Config

Vouched == \A ck \in Clerks :
  /\ answer[ck] # CClerk!None /\ ~answer[ck].WrongLeader => Vouches(ck, answer[ck])
  /\ pc[ck] = "answered" /\ CClerk!Accepted(ck) => Vouches(ck, reply[ck])

\* The inductive invariant.
CtrlerClerkInv ==
  /\ CClerk!TypeOK /\ FreshReplies /\ Vouched
  /\ returned \subseteq executed
  /\ \A ck \in Clerks : before[ck] \subseteq executed

\* Clerks begin idle, with nothing returned.
LEMMA CtrlerClerkInit == CClerk!MakeClerk => CtrlerClerkInv
BY LabSizes DEF CtrlerClerkInv, CClerk!Sizes, CClerk!MakeClerk, CClerk!TypeOK, FreshReplies,
   Vouched, Vouches, CClerk!Accepted, CClerk!NoReply, CClerk!Replies

\* Every step of a clerk, a server or the network keeps it.
LEMMA CtrlerClerkNext ==
  ASSUME CtrlerClerkInv, CClerk!Next PROVE CtrlerClerkInv'
<1> USE LabSizes DEF CClerk!Sizes, CtrlerClerkInv, CClerk!TypeOK, FreshReplies, Vouched, Vouches,
        CClerk!Accepted
<1>1. CASE CClerk!ExecuteLate
  BY <1>1 DEF CClerk!ExecuteLate
<1>2. ASSUME NEW ck \in Clerks, NEW o \in CtrlerUpdates \cup {CClerk!QueryOp}, CClerk!Begin(ck, o)
      PROVE  CtrlerClerkInv'
  BY <1>2 DEF CClerk!Begin
<1>3. ASSUME NEW ck \in Clerks, CClerk!Call(ck) PROVE CtrlerClerkInv'
  BY <1>3 DEF CClerk!Call, CClerk!NoReply, CClerk!Replies
<1>4. ASSUME NEW ck \in Clerks, CClerk!ExecuteAsLeader(ck) PROVE CtrlerClerkInv'
  BY <1>4 DEF CClerk!ExecuteAsLeader, CClerk!Replies
<1>5. ASSUME NEW ck \in Clerks, CClerk!WrongLeader(ck) PROVE CtrlerClerkInv'
  BY <1>5 DEF CClerk!WrongLeader, CClerk!Replies
<1>6. ASSUME NEW ck \in Clerks, CClerk!ReturnTrue(ck) PROVE CtrlerClerkInv'
  BY <1>6 DEF CClerk!ReturnTrue, CClerk!Decode, CClerk!NoReply, CClerk!Replies
<1>7. ASSUME NEW ck \in Clerks, CClerk!ReturnFalse(ck) PROVE CtrlerClerkInv'
  BY <1>7 DEF CClerk!ReturnFalse
<1>8. ASSUME NEW ck \in Clerks, CClerk!Return(ck) PROVE CtrlerClerkInv'
  BY <1>8 DEF CClerk!Return, CClerk!NoReply, CClerk!Replies
<1>9. ASSUME NEW ck \in Clerks, CClerk!TryNext(ck) PROVE CtrlerClerkInv'
  BY <1>9 DEF CClerk!TryNext
<1> QED
  BY <1>1, <1>2, <1>3, <1>4, <1>5, <1>6, <1>7, <1>8, <1>9
     DEF CClerk!Next, CClerk!Query, CClerk!Join, CClerk!Leave, CClerk!Move

-----------------------------------------------------------------------------
(* The clerk of the sharded key/value service.                             *)

ShardClerkTypes ==
  /\ pc \in [Clerks -> {"idle", "loop", "waiting", "refresh"}]
  /\ DOMAIN args = Clerks
  /\ \A ck \in Clerks : pc[ck] # "idle" => args[ck] \in KvUpdates \cup SClerk!Gets
  /\ answer \in [Clerks -> SClerk!Answers]
  /\ before \in [Clerks -> SUBSET KvUpdates]
  /\ store \subseteq KvUpdates /\ abandoned \subseteq KvUpdates

\* What a clerk would accept from a server answers its present operation.
Answered == \A ck \in Clerks :
  /\ pc[ck] # "waiting" => answer[ck] = SClerk!Pending
  /\ SClerk!Accept(ck) => IF args[ck].op = "Get" THEN before[ck] \subseteq answer[ck].Value
                                                 ELSE args[ck] \in store

\* The inductive invariant.
ShardClerkInv ==
  /\ ShardClerkTypes /\ Answered
  /\ returned \subseteq store
  /\ \A ck \in Clerks : before[ck] \subseteq SClerk!OnKey(ck)

\* Clerks begin idle, with nothing returned.
LEMMA ShardClerkInit == SClerk!MakeClerk => ShardClerkInv
BY DEF ShardClerkInv, SClerk!MakeClerk, ShardClerkTypes, Answered, SClerk!Accept, SClerk!Pending,
   SClerk!Answers

\* Every step of a clerk, a group, the controller or the network keeps it.
LEMMA ShardClerkNext ==
  ASSUME ShardClerkInv, SClerk!Next PROVE ShardClerkInv'
<1> USE LabSizes DEF SClerk!Sizes, ShardClerkInv, ShardClerkTypes, Answered, SClerk!Accept,
        SClerk!OnKey, SClerk!ext
<1>1. CASE SClerk!ExecuteLate
  BY <1>1 DEF SClerk!ExecuteLate
<1>2. CASE SClerk!Reconfigure \/ SClerk!Handover
  BY <1>2 DEF SClerk!Reconfigure, SClerk!Handover
<1>3. ASSUME NEW ck \in Clerks, NEW a \in KvUpdates \cup SClerk!Gets, SClerk!Begin(ck, a)
      PROVE  ShardClerkInv'
  BY <1>3 DEF SClerk!Begin, SClerk!Pending
<1>4. ASSUME NEW ck \in Clerks, SClerk!Call(ck) \/ SClerk!NoGroup(ck) PROVE ShardClerkInv'
  BY <1>4 DEF SClerk!Call, SClerk!NoGroup
<1>5. ASSUME NEW ck \in Clerks, SClerk!Execute(ck) PROVE ShardClerkInv'
  <2> USE <1>5 DEF SClerk!Answer, SClerk!Answers
  <2>1. pc[ck] = "waiting" /\ args[ck] \in KvUpdates \cup SClerk!Gets
    BY DEF SClerk!Execute
  <2>2. CASE SClerk!Answer(ck, "ErrWrongGroup", {}) /\ UNCHANGED store
    BY <2>2
  <2>3. CASE args[ck].op = "Get" /\ UNCHANGED store
             /\ \E err \in {"ErrNoKey", "OK"} : SClerk!Answer(ck, err, SClerk!OnKey(ck))
    BY <2>1, <2>3
  <2>4. CASE args[ck].op # "Get" /\ SClerk!Answer(ck, "OK", {}) /\ store' = store \cup {args[ck]}
    BY <2>1, <2>4 DEF SClerk!Gets
  <2> QED
    BY <2>2, <2>3, <2>4 DEF SClerk!Execute
<1>6. ASSUME NEW ck \in Clerks, SClerk!WrongLeader(ck) PROVE ShardClerkInv'
  BY <1>6 DEF SClerk!WrongLeader, SClerk!Answer, SClerk!Answers
<1>7. ASSUME NEW ck \in Clerks, SClerk!Fail(ck) PROVE ShardClerkInv'
  BY <1>7 DEF SClerk!Fail, SClerk!Lost, SClerk!Answers
<1>8. ASSUME NEW ck \in Clerks, SClerk!Return(ck) PROVE ShardClerkInv'
  BY <1>8 DEF SClerk!Return, SClerk!Pending, SClerk!Answers
<1>9. ASSUME NEW ck \in Clerks, SClerk!GoOn(ck) PROVE ShardClerkInv'
  BY <1>9 DEF SClerk!GoOn, SClerk!Pending, SClerk!Answers
<1>10. ASSUME NEW ck \in Clerks, SClerk!Refresh(ck) PROVE ShardClerkInv'
  BY <1>10 DEF SClerk!Refresh
<1> QED
  BY <1>1, <1>2, <1>3, <1>4, <1>5, <1>6, <1>7, <1>8, <1>9, <1>10
     DEF SClerk!Next, SClerk!Get, SClerk!Put, SClerk!AppendTo

-----------------------------------------------------------------------------
(* The Calls of the testers' networks.                                     *)

\* All that a step can do to a Call.
CallStep(c) ==
  \/ /\ caller[c] = "idle"
     /\ caller' = [caller EXCEPT ![c] = "pending"] /\ UNCHANGED handler
  \/ /\ caller[c] = "pending" /\ handler[c] = "none"
     /\ handler' = [handler EXCEPT ![c] = "running"] /\ UNCHANGED caller
  \/ /\ handler[c] = "running"
     /\ \E h \in {"saved", "refused"} : handler' = [handler EXCEPT ![c] = h]
     /\ UNCHANGED caller
  \/ /\ caller[c] = "pending" /\ handler[c] \in {"saved", "refused"}
     /\ caller' = [caller EXCEPT ![c] = "ok"] /\ UNCHANGED handler
  \/ /\ caller[c] = "pending"
     /\ caller' = [caller EXCEPT ![c] = "fail"] /\ UNCHANGED handler

\* A handler runs only for a Call that was made, and a Call is answered only
\* when its handler has finished.
CallsOf(X) ==
  /\ caller \in [X -> {"idle", "pending", "ok", "fail"}]
  /\ handler \in [X -> {"none", "running", "saved", "refused"}]
  /\ \A c \in X : /\ caller[c] = "idle" => handler[c] = "none"
                  /\ caller[c] = "ok" => handler[c] \in {"saved", "refused"}

\* Such a step keeps the invariant of the Calls.
LEMMA CallStepKeeps ==
  ASSUME NEW X, CallsOf(X), NEW c \in X, CallStep(c) PROVE CallsOf(X)'
BY DEF CallsOf, CallStep

-----------------------------------------------------------------------------
(* The theorems.                                                           *)

\* The inductive invariant of what is proved here.
LabsInv ==
  /\ part = "shardctrler clerks" => CtrlerClerkInv
  /\ part = "shardkv clerks" => ShardClerkInv

\* Whichever part runs, it begins in a state of the invariant ...
LEMMA InitLabs == AnyInit => LabsInv
BY CtrlerClerkInit, ShardClerkInit DEF AnyInit, LabsInv

\* ... and every step keeps it.
LEMMA NextLabs == LabsInv /\ [AnyNext]_all => LabsInv'
<1> SUFFICES ASSUME LabsInv, [AnyNext]_all PROVE LabsInv'
  OBVIOUS
<1>1. CASE UNCHANGED all
  <2> USE <1>1 DEF all, clerk, ctrlerClerk, shardClerk
  <2>1. CtrlerClerkInv => CtrlerClerkInv'
    BY DEF CtrlerClerkInv, CClerk!TypeOK, FreshReplies, Vouched, Vouches, CClerk!Accepted
  <2>2. ShardClerkInv => ShardClerkInv'
    BY DEF ShardClerkInv, ShardClerkTypes, Answered, SClerk!Accept, SClerk!OnKey
  <2> QED
    BY <2>1, <2>2 DEF LabsInv
<1>2. CASE AnyNext
  BY <1>2, CtrlerClerkNext, ShardClerkNext DEF AnyNext, LabsInv
<1> QED
  BY <1>1, <1>2

\* It holds in every state.
LEMMA LabsInvariant == AnySpec => []LabsInv
BY InitLabs, NextLabs, PTL DEF AnySpec

(* The Join, Leave, Move, Put or Append of a clerk returns only after it   *)
(* was executed: client.go of shardctrler and shardkv never take a failed  *)
(* Call, a wrong leader or a wrong group for success.                      *)
THEOREM ReturnedExecutedHolds == AnySpec => []ReturnedExecuted
<1>1. LabsInv => ReturnedExecuted
  BY DEF LabsInv, ReturnedExecuted, CtrlerClerkInv, ShardClerkInv,
     CClerk!ReturnedExecuted, SClerk!ReturnedExecuted
<1> QED
  BY <1>1, LabsInvariant, PTL

(* A Query or Get returns a reply that shows every update that had         *)
(* returned before it was called: what the loops of client.go accept is    *)
(* never the reply of an attempt for an earlier operation.                 *)
THEOREM ReadsFreshHolds == AnySpec => []ReadsFresh
<1>1. LabsInv => ReadsFresh
  BY DEF LabsInv, ReadsFresh, CtrlerClerkInv, Vouched, Vouches, ShardClerkInv, Answered,
     CClerk!QueryFresh, SClerk!GetFresh
<1> QED
  BY <1>1, LabsInvariant, PTL

-----------------------------------------------------------------------------
(* The testers: what shutting servers down and starting them again does to *)
(* their Persisters and their links.                                       *)

Starts == 1..MaxStarts
Holds(k) == IF k = 0 THEN {} ELSE heap[k]

-----------------------------------------------------------------------------
(* Persisters, registrations and handlers, with Z the names of servers and *)
(* X the Calls.                                                            *)

DiskTypes(Z, X) ==
  /\ heap \in Seq(SUBSET X)
  /\ saved \in [Z -> 0..Len(heap)]
  /\ disk \in [Z \X Starts -> 0..Len(heap)]
  /\ servers \in [Z -> (Z \X Starts) \cup {Nil}]
  /\ DOMAIN via = X /\ DOMAIN inst = X
  /\ \A c \in X : caller[c] # "idle" => via[c][2] \in Z
  /\ \A c \in X : handler[c] # "none" => inst[c] \in Z \X Starts /\ disk[inst[c]] # 0

\* The registered instance writes to the Persister that the tester keeps.
Registered(Z) == \A s \in Z :
  servers[s] # Nil => servers[s] \in Z \X Starts /\ saved[s] # 0 /\ disk[servers[s]] = saved[s]

\* What a handler has saved is in the Persister of its instance for good, and
\* what was acknowledged is in the one that the tester keeps.
Written(X) == \A c \in X : handler[c] = "saved" =>
  /\ c \in heap[disk[inst[c]]]
  /\ caller[c] = "ok" => c \in Holds(saved[via[c][2]])

Disks(Z, X) == CallsOf(X) /\ DiskTypes(Z, X) /\ Registered(Z) /\ Written(X)

\* No server's Persister loses an update in this step.
Kept(Z) == \A s \in Z : saved[s] # 0 => heap[saved[s]] \subseteq heap'[saved'[s]]

\* The steps of the network and the handlers.
NetStep(c) ==
  /\ UNCHANGED <<enabled, servers, via, disk, saved>>
  /\ \/ /\ caller[c] = "pending" /\ handler[c] = "none" /\ servers[via[c][2]] # Nil
        /\ handler' = [handler EXCEPT ![c] = "running"]
        /\ inst' = [inst EXCEPT ![c] = servers[via[c][2]]]
        /\ UNCHANGED <<caller, heap>>
     \/ /\ handler[c] = "running"
        /\ handler' = [handler EXCEPT ![c] = "saved"]
        /\ heap' = [heap EXCEPT ![disk[inst[c]]] = @ \cup {c}]
        /\ UNCHANGED <<caller, inst>>
     \/ /\ handler[c] = "running"
        /\ handler' = [handler EXCEPT ![c] = "refused"]
        /\ UNCHANGED <<caller, inst, heap>>
     \/ /\ caller[c] = "pending" /\ handler[c] \in {"saved", "refused"}
        /\ servers[via[c][2]] = inst[c]
        /\ caller' = [caller EXCEPT ![c] = "ok"]
        /\ UNCHANGED <<handler, inst, heap>>
     \/ /\ caller[c] = "pending"
        /\ caller' = [caller EXCEPT ![c] = "fail"]
        /\ UNCHANGED <<handler, inst, heap>>

\* A Call to the server named s.
SendStep(c, s) ==
  /\ caller[c] = "idle"
  /\ caller' = [caller EXCEPT ![c] = "pending"]
  /\ \E e : e[2] = s /\ via' = [via EXCEPT ![c] = e]
  /\ UNCHANGED <<servers, handler, inst, heap, disk, saved>>

\* The steps of a tester that matter here: DeleteServer, a new Persister with
\* the content of the old one, a new instance, AddServer.
DeleteStep(s) ==
  /\ servers' = [servers EXCEPT ![s] = Nil]
  /\ UNCHANGED <<caller, handler, via, inst, heap, disk, saved>>

CopyStep(s) ==
  /\ heap' = Append(heap, Holds(saved[s]))
  /\ saved' = [saved EXCEPT ![s] = Len(heap) + 1]
  /\ UNCHANGED <<servers, caller, handler, via, inst, disk>>

StartStep(s, g) ==
  /\ disk' = [disk EXCEPT ![<<s, g>>] = saved[s]]
  /\ UNCHANGED <<servers, caller, handler, via, inst, heap, saved>>

AddStep(s, g) ==
  /\ servers' = [servers EXCEPT ![s] = <<s, g>>]
  /\ UNCHANGED <<caller, handler, via, inst, heap, disk, saved>>

QuietStep == UNCHANGED <<servers, caller, handler, via, inst, heap, disk, saved>>

\* No step of the network or of a handler breaks Disks or loses an update:
\* an instance that was shut down writes to a Persister of its own.
LEMMA NetKeeps ==
  ASSUME NEW Z, Nil \notin Z \X Starts, NEW X, Disks(Z, X), NEW c \in X, NetStep(c)
  PROVE  Disks(Z, X)' /\ Kept(Z)
<1> USE DEF Disks, DiskTypes, Registered, Written, Holds, Kept
<1>1. CallsOf(X)'
  BY CallStepKeeps DEF NetStep, CallStep
<1>2. CASE /\ caller[c] = "pending" /\ handler[c] = "none" /\ servers[via[c][2]] # Nil
           /\ handler' = [handler EXCEPT ![c] = "running"]
           /\ inst' = [inst EXCEPT ![c] = servers[via[c][2]]]
           /\ UNCHANGED <<caller, heap>>
  <2>1. via[c][2] \in Z
    BY <1>2
  <2> QED
    BY <1>1, <1>2, <2>1 DEF CallsOf, NetStep
<1>3. CASE /\ handler[c] = "running"
           /\ handler' = [handler EXCEPT ![c] = "saved"]
           /\ heap' = [heap EXCEPT ![disk[inst[c]]] = @ \cup {c}]
           /\ UNCHANGED <<caller, inst>>
  <2>1. disk[inst[c]] \in 1..Len(heap) /\ caller[c] # "ok"
    <3>1. inst[c] \in Z \X Starts /\ disk[inst[c]] # 0 /\ Len(heap) \in Nat
      BY <1>3
    <3>2. disk[inst[c]] \in 0..Len(heap)
      BY <3>1
    <3>3. caller[c] # "ok"
      BY <1>3 DEF CallsOf
    <3> QED
      BY <3>1, <3>2, <3>3
  <2>2. /\ Len(heap') = Len(heap) /\ heap' \in Seq(SUBSET X)
        /\ \A k \in 1..Len(heap) : heap[k] \subseteq heap'[k]
        /\ c \in heap'[disk[inst[c]]]
    <3> DEFINE k == disk[inst[c]]
    <3>1. heap \in Seq(SUBSET X) /\ k \in 1..Len(heap) /\ heap' = [heap EXCEPT ![k] = @ \cup {c}]
      BY <1>3, <2>1
    <3> HIDE DEF k, DiskTypes
    <3>2. heap[k] \cup {c} \in SUBSET X
      BY <3>1
    <3>3. heap' \in Seq(SUBSET X) /\ Len(heap') = Len(heap)
      BY <3>1, <3>2
    <3>4. /\ \A j \in 1..Len(heap) : heap[j] \subseteq heap'[j]
          /\ c \in heap'[k]
      BY <3>1
    <3> QED
      BY <3>3, <3>4 DEF k
  <2>3. DiskTypes(Z, X)' /\ Registered(Z)' /\ Kept(Z)
    BY <1>3, <2>2 DEF CallsOf, NetStep
  <2>4. Written(X)'
    BY <1>3, <2>1, <2>2 DEF CallsOf, NetStep
  <2> QED
    BY <1>1, <2>3, <2>4
<1>4. CASE /\ handler[c] = "running"
           /\ handler' = [handler EXCEPT ![c] = "refused"]
           /\ UNCHANGED <<caller, inst, heap>>
  BY <1>1, <1>4 DEF CallsOf, NetStep
<1>5. CASE /\ caller[c] = "pending" /\ handler[c] \in {"saved", "refused"}
           /\ servers[via[c][2]] = inst[c]
           /\ caller' = [caller EXCEPT ![c] = "ok"]
           /\ UNCHANGED <<handler, inst, heap>>
  <2>1. via[c][2] \in Z /\ inst[c] # Nil
    BY <1>5
  <2>2. saved[via[c][2]] # 0 /\ disk[inst[c]] = saved[via[c][2]]
    BY <1>5, <2>1
  <2>3. DiskTypes(Z, X)' /\ Registered(Z)' /\ Kept(Z)
    BY <1>5, <2>1 DEF CallsOf, NetStep
  <2>4. Written(X)'
    BY <1>5, <2>2 DEF CallsOf, NetStep
  <2> QED
    BY <1>1, <2>3, <2>4
<1>6. CASE /\ caller[c] = "pending"
           /\ caller' = [caller EXCEPT ![c] = "fail"]
           /\ UNCHANGED <<handler, inst, heap>>
  BY <1>1, <1>6 DEF CallsOf, NetStep
<1> QED
  BY <1>2, <1>3, <1>4, <1>5, <1>6 DEF NetStep

\* Nor does a Call that is sent.
LEMMA SendKeeps ==
  ASSUME NEW Z, NEW X, Disks(Z, X), NEW c \in X, NEW s \in Z, SendStep(c, s)
  PROVE  Disks(Z, X)' /\ Kept(Z)
<1>1. CallsOf(X)'
  BY CallStepKeeps DEF SendStep, CallStep, Disks
<1>2. handler[c] = "none"
  BY DEF SendStep, Disks, CallsOf
<1> QED
  BY <1>1, <1>2 DEF SendStep, Disks, DiskTypes, Registered, Written, Holds, Kept, CallsOf

\* Nor does DeleteServer.
LEMMA DeleteKeeps ==
  ASSUME NEW Z, NEW X, Disks(Z, X), NEW s \in Z, DeleteStep(s)
  PROVE  Disks(Z, X)' /\ Kept(Z)
BY DEF DeleteStep, Disks, DiskTypes, Registered, Written, Holds, Kept, CallsOf

\* Nor does a new Persister with the content of the old one, made while the
\* server is not registered.
LEMMA CopyKeeps ==
  ASSUME NEW Z, NEW X, Disks(Z, X), NEW s \in Z, servers[s] = Nil, CopyStep(s)
  PROVE  Disks(Z, X)' /\ Kept(Z)
<1> USE DEF Disks, DiskTypes, CopyStep
<1>1. Holds(saved[s]) \in SUBSET X
  BY DEF Holds
<1>2. /\ Len(heap') = Len(heap) + 1 /\ heap' \in Seq(SUBSET X) /\ Len(heap) \in Nat
      /\ \A k \in 1..Len(heap) : heap'[k] = heap[k]
      /\ heap'[Len(heap) + 1] = Holds(saved[s])
  BY <1>1
<1>3. /\ saved'[s] = Len(heap) + 1 /\ \A k \in 0..Len(heap) : k # Len(heap) + 1
      /\ \A p \in Z : p # s => saved'[p] = saved[p]
  BY <1>2
<1>4. \A p \in Z : Holds(saved[p]) \subseteq Holds(saved[p])'
  BY <1>2, <1>3 DEF Holds
<1>5. DiskTypes(Z, X)'
  BY <1>2 DEF CallsOf
<1>6. Kept(Z)
  BY <1>2, <1>3 DEF Kept, Holds
<1>7. Registered(Z)'
  BY <1>2, <1>3 DEF Registered
<1>8. Written(X)'
  BY <1>2, <1>4 DEF Written, CallsOf
<1> QED
  BY <1>5, <1>6, <1>7, <1>8 DEF CallsOf

\* Nor does starting an instance with the Persister that the tester keeps.
LEMMA StartKeeps ==
  ASSUME NEW Z, NEW X, Disks(Z, X), NEW s \in Z, NEW g \in Starts, disk[<<s, g>>] = 0, StartStep(s, g)
  PROVE  Disks(Z, X)' /\ Kept(Z)
BY DEF StartStep, Disks, DiskTypes, Registered, Written, Holds, Kept, CallsOf

\* Nor does registering an instance that has the Persister that the tester
\* keeps.
LEMMA AddKeeps ==
  ASSUME NEW Z, NEW X, Disks(Z, X), NEW s \in Z, NEW g \in Starts,
         saved[s] # 0, disk[<<s, g>>] = saved[s], AddStep(s, g)
  PROVE  Disks(Z, X)' /\ Kept(Z)
BY DEF AddStep, Disks, DiskTypes, Registered, Written, Holds, Kept, CallsOf

\* Nor does a step that leaves Persisters, registrations and Calls alone.
LEMMA QuietKeeps ==
  ASSUME NEW Z, NEW X, Disks(Z, X), QuietStep
  PROVE  Disks(Z, X)' /\ Kept(Z)
BY DEF QuietStep, Disks, DiskTypes, Registered, Written, Holds, Kept, CallsOf

-----------------------------------------------------------------------------
(* The tester of shardctrler.                                              *)

CtrlerTypes ==
  /\ endnames \in [Servers -> 0..MaxStarts] /\ i \in Servers /\ up \subseteq Servers
  /\ at \in {"stopped", "named", "persister", "started", "added", "connected",
             "isolated", "deleted", "copied"}
  /\ order \in [Users -> Ctrler!Orders] /\ pc \in [Users -> 0..N]
  /\ attempt \in [Users -> Calls2 \cup {Nil}]
  /\ accepted \subseteq Calls2
  /\ \A c \in accepted : caller[c] = "ok" /\ handler[c] = "saved"

\* make_config starts the servers in turn.
CtrlerConfig ==
  /\ (\E s \in Servers : endnames[s] = 0) =>
       /\ at \in {"stopped", "named", "persister", "started"}
       /\ endnames[i] = (IF at = "stopped" THEN 0 ELSE 1)
       /\ \A s \in Servers : s > i => endnames[s] = 0
       /\ \A s \in Servers : s < i => endnames[s] # 0
  /\ at # "stopped" => endnames[i] # 0
  /\ at \in {"isolated", "deleted", "copied", "stopped"} => endnames[i] < MaxStarts

\* What ShutdownServer and StartServer have done to server i so far.
CtrlerStage ==
  /\ at \in {"deleted", "copied", "stopped", "named", "persister", "started"} => servers[i] = Nil
  /\ at \in {"persister", "started"} => saved[i] # 0
  /\ at = "started" => disk[<<i, endnames[i]>>] = saved[i]
  /\ \A s \in Servers, g \in Starts : disk[<<s, g>>] # 0 =>
       g <= endnames[s] /\ (s = i /\ g = endnames[s] => at \notin {"named", "persister"})
  /\ \A s \in Servers : servers[s] # Nil => servers[s] = <<s, endnames[s]>>
  /\ \A s \in Servers : endnames[s] # 0 /\ s # i => s \in up
  /\ at \in {"started", "added", "connected", "isolated", "deleted", "copied"} => i \in up

\* Only the newest ends of a server are enabled, and those of server i only
\* when the tester is done with it.
CtrlerEnds == \A x \in Servers \X Starts, j \in Servers :
  <<x, j>> \in enabled => x[2] = endnames[x[1]] /\ (x[1] = i => at = "connected")

CtrlerInv ==
  /\ Disks(Servers, Calls2) /\ CtrlerTypes /\ CtrlerConfig /\ CtrlerStage /\ CtrlerEnds
  /\ Ctrler!Reconnected

\* What LabSizes says about this tester.
LEMMA CtrlerFacts ==
  /\ MaxStarts \in Nat \ {0} /\ N \in Nat \ {0} /\ Nil \notin Servers \X Starts
  /\ Ctrler!Servers = Servers /\ Ctrler!Instances = Servers \X Starts
  /\ Victims \subseteq Servers /\ Users \cap (Servers \X Starts) = {}
BY LabSizes DEF Ctrler!Sizes, Ctrler!NetSizes, Ctrler!Servers, Servers, Ctrler!Instances, Starts

\* The invariant holds at first.
LEMMA CtrlerInit == Ctrler!Init => CtrlerInv
<1> SUFFICES ASSUME Ctrler!Init PROVE CtrlerInv
  OBVIOUS
<1> USE CtrlerFacts DEF Ctrler!Init, Ctrler!CrashInit, Servers
<1>1. Disks(Servers, Calls2)
  <2>1. heap = <<>> /\ Len(heap) = 0 /\ heap \in Seq(SUBSET Calls2)
    OBVIOUS
  <2> QED
    BY <2>1 DEF Disks, CallsOf, DiskTypes, Registered, Written
<1>2. CtrlerTypes
  BY DEF CtrlerTypes
<1>3. CtrlerConfig /\ CtrlerStage /\ CtrlerEnds /\ Ctrler!Reconnected
  BY DEF CtrlerConfig, CtrlerStage, CtrlerEnds, Ctrler!Reconnected
<1> QED
  BY <1>1, <1>2, <1>3 DEF CtrlerInv

\* Every step keeps the invariant, and no Persister loses an update: one
\* case for each action of CtrlerHarness.
LEMMA CtrlerNext == CtrlerInv /\ Ctrler!Next => CtrlerInv' /\ Kept(Servers)
<1> SUFFICES ASSUME CtrlerInv, Ctrler!Next PROVE CtrlerInv' /\ Kept(Servers)
  OBVIOUS
<1> DEFINE D == Disks(Servers, Calls2)' /\ Kept(Servers)
           R == CtrlerTypes' /\ CtrlerConfig' /\ CtrlerStage' /\ CtrlerEnds' /\ Ctrler!Reconnected'
<1> SUFFICES D /\ R
  BY DEF CtrlerInv
<1>0. Disks(Servers, Calls2) /\ Nil \notin Servers \X Starts
  BY CtrlerFacts DEF CtrlerInv
<1> USE CtrlerFacts DEF CtrlerInv, CtrlerTypes, CtrlerConfig, CtrlerStage, CtrlerEnds,
        Ctrler!Reconnected, Ctrler!Goto, Ctrler!callVars, Ctrler!crashVars, Ctrler!cfgVars,
        Ctrler!clerkVars, Ctrler!End, Ctrler!Ends, Servers
<1>1. ASSUME NEW s \in Victims, Ctrler!Shutdown(s) PROVE D /\ R
  <2>1. D
    BY <1>0, <1>1, QuietKeeps DEF QuietStep, Ctrler!Shutdown
  <2>2. R
    BY <1>1 DEF Ctrler!Shutdown
  <2> QED
    BY <2>1, <2>2
<1>2. CASE Ctrler!DeleteServer
  <2>1. D
    BY <1>0, <1>2, DeleteKeeps DEF DeleteStep, Ctrler!DeleteServer
  <2>2. R
    BY <1>2 DEF Ctrler!DeleteServer, Disks, DiskTypes
  <2> QED
    BY <2>1, <2>2
<1>3. CASE Ctrler!CopySaved
  <2>1. D
    <3>1. CASE saved[i] # 0
      BY <1>0, <1>3, <3>1, CopyKeeps
         DEF CopyStep, Holds, Ctrler!CopySaved, Ctrler!Supersede, Ctrler!Copy
    <3>2. CASE saved[i] = 0
      BY <1>0, <1>3, <3>2, QuietKeeps DEF QuietStep, Ctrler!CopySaved
    <3> QED
      BY <3>1, <3>2
  <2>2. R
    BY <1>3 DEF Ctrler!CopySaved
  <2> QED
    BY <2>1, <2>2
<1>4. CASE Ctrler!Kill
  <2>1. D
    BY <1>0, <1>4, QuietKeeps DEF QuietStep, Ctrler!Kill
  <2>2. R
    BY <1>4 DEF Ctrler!Kill
  <2> QED
    BY <2>1, <2>2
<1>5. CASE Ctrler!FreshEnds
  <2>1. D
    BY <1>0, <1>5, QuietKeeps DEF QuietStep, Ctrler!FreshEnds
  <2>2. CtrlerTypes' /\ CtrlerConfig'
    BY <1>5 DEF Ctrler!FreshEnds, Starts
  <2>3. CtrlerStage'
    BY <1>5 DEF Ctrler!FreshEnds, Starts
  <2>4. CtrlerEnds'
    BY <1>5 DEF Ctrler!FreshEnds, Starts
  <2>5. Ctrler!Reconnected'
    BY <1>5 DEF Ctrler!FreshEnds, Starts
  <2> QED
    BY <2>1, <2>2, <2>3, <2>4, <2>5
<1>6. CASE Ctrler!FreshPersister
  <2>1. D
    BY <1>0, <1>6, CopyKeeps DEF CopyStep, Holds, Ctrler!FreshPersister, Ctrler!Supersede, Ctrler!Copy
  <2>2. CtrlerTypes' /\ CtrlerConfig'
    BY <1>6 DEF Ctrler!FreshPersister, Ctrler!Supersede, Disks, DiskTypes
  <2>3. CtrlerStage'
    BY <1>6 DEF Ctrler!FreshPersister, Ctrler!Supersede, Disks, DiskTypes
  <2>4. CtrlerEnds'
    BY <1>6 DEF Ctrler!FreshPersister, Ctrler!Supersede, Disks, DiskTypes
  <2>5. Ctrler!Reconnected'
    BY <1>6 DEF Ctrler!FreshPersister, Ctrler!Supersede, Disks, DiskTypes
  <2> QED
    BY <2>1, <2>2, <2>3, <2>4, <2>5
<1>7. CASE Ctrler!StartServer
  <2>0. /\ i \in Servers /\ endnames[i] \in Starts /\ <<i, endnames[i]>> \in Servers \X Starts
        /\ disk[<<i, endnames[i]>>] = 0 /\ at = "persister"
        /\ disk \in [Servers \X Starts -> 0..Len(heap)]
    BY <1>7 DEF Ctrler!StartServer, Starts, Disks, DiskTypes
  <2>1. D
    <3>1. StartStep(i, endnames[i])
      BY <1>7 DEF StartStep, Ctrler!StartServer
    <3> QED
      BY <1>0, <2>0, <3>1, StartKeeps
  <2>2. CtrlerTypes' /\ CtrlerConfig'
    BY <1>7, <2>0 DEF Ctrler!StartServer
  <2>3. CtrlerStage'
    BY <1>7, <2>0 DEF Ctrler!StartServer
  <2>4. CtrlerEnds'
    BY <1>7, <2>0 DEF Ctrler!StartServer
  <2>5. Ctrler!Reconnected'
    BY <1>7, <2>0 DEF Ctrler!StartServer
  <2> QED
    BY <2>1, <2>2, <2>3, <2>4, <2>5
<1>8. CASE Ctrler!AddServer
  <2>0. /\ i \in Servers /\ endnames[i] \in Starts /\ at = "started"
        /\ saved[i] # 0 /\ disk[<<i, endnames[i]>>] = saved[i]
    BY <1>8 DEF Ctrler!AddServer, Starts
  <2>1. D
    <3>1. AddStep(i, endnames[i])
      BY <1>8 DEF AddStep, Ctrler!AddServer
    <3> QED
      BY <1>0, <2>0, <3>1, AddKeeps
  <2>2. servers' = [servers EXCEPT ![i] = <<i, endnames[i]>>] /\ DOMAIN servers = Servers
    BY <1>8 DEF Ctrler!AddServer, Disks, DiskTypes
  <2>3. CASE \E s \in Servers : endnames[s] = 0
    <3>1. at' = "stopped" /\ i' = i + 1 /\ endnames[i] = 1 /\ i + 1 \in Servers /\ endnames[i + 1] = 0
      <4>1. PICK s \in Servers : endnames[s] = 0
        BY <2>3
      <4>2. i < s
        BY <2>0, <4>1 DEF Starts
      <4>3. i + 1 \in Servers /\ i + 1 > i
        BY <2>0, <4>1, <4>2
      <4>4. endnames[i] = 1 /\ endnames[i + 1] = 0
        BY <2>0, <2>3, <4>3
      <4>5. at' = "stopped" /\ i' = i + 1
        BY <1>8, <2>3 DEF Ctrler!AddServer
      <4> QED
        BY <4>3, <4>4, <4>5
    <3>2. CtrlerTypes' /\ CtrlerConfig'
      BY <1>8, <2>0, <2>3, <3>1 DEF Ctrler!AddServer
    <3>3. CtrlerStage'
      <4>1. servers[i + 1] = Nil
        BY <3>1, <1>0 DEF Disks, DiskTypes, Starts
      <4>2. i + 1 # i
        BY <2>0
      <4> QED
        BY <1>8, <2>0, <2>2, <3>1, <4>1, <4>2 DEF Ctrler!AddServer, Starts
    <3>4. CtrlerEnds'
      BY <1>8, <2>0, <3>1 DEF Ctrler!AddServer, Starts
    <3>5. Ctrler!Reconnected'
      BY <1>8, <3>1 DEF Ctrler!AddServer
    <3> QED
      BY <2>1, <3>2, <3>3, <3>4, <3>5
  <2>4. CASE \A s \in Servers : endnames[s] # 0
    <3>1. at' = "added" /\ i' = i
      BY <1>8, <2>4 DEF Ctrler!AddServer
    <3>2. CtrlerTypes' /\ CtrlerConfig'
      BY <1>8, <2>0, <2>4, <3>1 DEF Ctrler!AddServer
    <3>3. CtrlerStage'
      BY <1>8, <2>0, <2>2, <3>1 DEF Ctrler!AddServer
    <3>4. CtrlerEnds' /\ Ctrler!Reconnected'
      BY <1>8, <2>0, <3>1 DEF Ctrler!AddServer
    <3> QED
      BY <2>1, <3>2, <3>3, <3>4
  <2> QED
    BY <2>3, <2>4
<1>9. CASE Ctrler!ConnectAll
  <2>1. D
    BY <1>0, <1>9, QuietKeeps DEF QuietStep, Ctrler!ConnectAll
  <2>2. CtrlerTypes' /\ CtrlerConfig'
    BY <1>9 DEF Ctrler!ConnectAll
  <2>3. CtrlerStage'
    BY <1>9 DEF Ctrler!ConnectAll
  <2>4. CtrlerEnds'
    BY <1>9 DEF Ctrler!ConnectAll
  <2>5. Ctrler!Reconnected'
    BY <1>9 DEF Ctrler!ConnectAll
  <2> QED
    BY <2>1, <2>2, <2>3, <2>4, <2>5
<1>10. ASSUME NEW ck \in Users, Ctrler!makeClient(ck) \/ Ctrler!Begin(ck) \/ Ctrler!Return(ck)
                                \/ Ctrler!TryNext(ck)
       PROVE  D /\ R
  <2>1. D
    BY <1>0, <1>10, QuietKeeps
       DEF QuietStep, Ctrler!makeClient, Ctrler!Begin, Ctrler!Return, Ctrler!TryNext
  <2>2. CASE Ctrler!makeClient(ck)
    BY <2>1, <2>2 DEF Ctrler!makeClient, Ctrler!ClerkEnds
  <2>3. CASE Ctrler!Begin(ck)
    BY <2>1, <2>3 DEF Ctrler!Begin
  <2>4. CASE Ctrler!Return(ck)
    BY <2>1, <2>4 DEF Ctrler!Return, Ctrler!Accept
  <2>5. CASE Ctrler!TryNext(ck)
    BY <2>1, <2>5 DEF Ctrler!TryNext
  <2> QED
    BY <1>10, <2>2, <2>3, <2>4, <2>5
<1>11. ASSUME NEW c \in Calls2, Ctrler!ServerCalls(c) \/ \E ck \in Users : Ctrler!Attempt(ck, c)
       PROVE  D /\ R
  <2>1. \E s \in Servers : SendStep(c, s)
    <3>1. CASE Ctrler!ServerCalls(c)
      BY <3>1 DEF Ctrler!ServerCalls, SendStep, Ctrler!Call, Ctrler!Send
    <3>2. ASSUME NEW ck \in Users, Ctrler!Attempt(ck, c) PROVE \E s \in Servers : SendStep(c, s)
      <4>1. order[ck][pc[ck]] \in Servers
        BY <3>2 DEF Ctrler!Attempt, Ctrler!Orders
      <4> QED
        BY <3>2, <4>1 DEF Ctrler!Attempt, SendStep, Ctrler!Call, Ctrler!Send
    <3> QED
      BY <1>11, <3>1, <3>2
  <2>2. D
    BY <1>0, <2>1, SendKeeps
  <2>3. /\ UNCHANGED <<servers, handler, disk, saved, enabled, Ctrler!cfgVars, order, pc, accepted>>
        /\ caller[c] = "idle" /\ caller' = [caller EXCEPT ![c] = "pending"]
        /\ attempt' \in [Users -> Calls2 \cup {Nil}]
    <3>1. CASE Ctrler!ServerCalls(c)
      BY <3>1 DEF Ctrler!ServerCalls, Ctrler!Call, Ctrler!Send
    <3>2. ASSUME NEW ck \in Users, Ctrler!Attempt(ck, c)
          PROVE  /\ UNCHANGED <<servers, handler, disk, saved, enabled, Ctrler!cfgVars, order, pc,
                                accepted>>
                 /\ caller[c] = "idle" /\ caller' = [caller EXCEPT ![c] = "pending"]
                 /\ attempt' = [attempt EXCEPT ![ck] = c]
      BY <3>2 DEF Ctrler!Attempt, Ctrler!Call, Ctrler!Send
    <3> QED
      BY <1>11, <3>1, <3>2
  <2>4. CtrlerTypes'
    BY <1>0, <2>3 DEF Disks, CallsOf
  <2>5. CtrlerConfig' /\ CtrlerStage' /\ CtrlerEnds' /\ Ctrler!Reconnected'
    BY <2>3
  <2> QED
    BY <2>2, <2>4, <2>5
<1>12. ASSUME NEW c \in Calls2, UNCHANGED <<Ctrler!cfgVars, Ctrler!clerkVars>>,
              Ctrler!Deliver(c) \/ Ctrler!Save(c) \/ Ctrler!Refuse(c) \/ Ctrler!Reply(c) \/ Ctrler!Fail(c)
       PROVE  D /\ R
  <2>1. NetStep(c)
    BY <1>12 DEF NetStep, Ctrler!Deliver, Ctrler!Save, Ctrler!Refuse, Ctrler!Reply, Ctrler!Fail,
       Ctrler!Handled, Ctrler!IsServerDead
  <2>2. D
    BY <1>0, <2>1, NetKeeps
  <2>3. R
    BY <1>0, <1>12, <2>1 DEF NetStep, Disks, CallsOf
  <2> QED
    BY <2>2, <2>3
<1> QED
  BY <1>1, <1>2, <1>3, <1>4, <1>5, <1>6, <1>7, <1>8, <1>9, <1>10, <1>11, <1>12
     DEF Ctrler!Next, Ctrler!Network

-----------------------------------------------------------------------------
(* The tester of shardkv.                                                  *)

ShardTypes ==
  /\ gen \in [Shard!Shards -> 0..MaxStarts] /\ clerks \subseteq Users
  /\ at \in [Shard!Shards -> {"down", "named", "persister", "started", "up",
                              "silenced", "deleted", "copied"}]

\* What ShutdownServer and StartServer have done to each server so far.
ShardStage == \A s \in Shard!Shards :
  /\ at[s] \in {"deleted", "copied", "down", "named", "persister", "started"} => servers[s] = Nil
  /\ at[s] # "down" => gen[s] # 0
  /\ at[s] \in {"persister", "started"} => saved[s] # 0
  /\ at[s] = "started" => disk[<<s, gen[s]>>] = saved[s]
  /\ at[s] = "up" => servers[s] = <<s, gen[s]>>
  /\ \A g \in Starts : disk[<<s, g>>] # 0 =>
       g <= gen[s] /\ (g = gen[s] => at[s] \notin {"named", "persister"})

\* A controller that was not started has no Persister and no instance.
CtrlersOff == \A s \in Shard!Ctrlers : s \notin running => saved[s] = 0 /\ disk[<<s, 1>>] = 0

\* The ends of endnames and mendnames are enabled exactly until the server is
\* shut down.
ShardEnds == \A s \in Shard!Shards :
  at[s] \in {"named", "persister", "started", "up"} => Shard!Outgoing(<<s, gen[s]>>) \subseteq enabled

ShardInv ==
  /\ Disks(GroupsAndCtrlers, Calls1) /\ ShardTypes /\ ShardStage /\ CtrlersOff /\ ShardEnds
  /\ Shard!GivenEndsSilenced

\* What LabSizes says about this tester.
LEMMA ShardFacts ==
  /\ MaxStarts \in Nat \ {0} /\ Nil \notin GroupsAndCtrlers \X Starts
  /\ Shard!Instances = GroupsAndCtrlers \X Starts
  /\ Users \cap (GroupsAndCtrlers \X Starts) = {} /\ Mck \notin GroupsAndCtrlers \X Starts
  /\ GroupsAndCtrlers = Shard!Shards \cup Shard!Ctrlers
  /\ \A s \in Shard!Shards : s \notin Shard!Ctrlers /\ Shard!Group(s[1]) \subseteq Shard!Shards
BY LabSizes DEF Shard!Sizes, Shard!NetSizes, Shard!Instances, Starts, Shard!Shards, Shard!Ctrlers,
   Shard!Group

\* The invariant holds at first.
LEMMA ShardInit == Shard!Init => ShardInv
<1> SUFFICES ASSUME Shard!Init PROVE ShardInv
  OBVIOUS
<1> USE ShardFacts DEF Shard!Init, Shard!CrashInit
<1>1. Disks(GroupsAndCtrlers, Calls1)
  <2>1. heap = <<>> /\ Len(heap) = 0 /\ heap \in Seq(SUBSET Calls1)
    OBVIOUS
  <2> QED
    BY <2>1 DEF Disks, CallsOf, DiskTypes, Registered, Written
<1>2. ShardTypes /\ ShardStage /\ CtrlersOff
  BY DEF ShardTypes, ShardStage, CtrlersOff, Starts
<1>3. ShardEnds /\ Shard!GivenEndsSilenced
  BY DEF ShardEnds, Shard!GivenEndsSilenced
<1> QED
  BY <1>1, <1>2, <1>3 DEF ShardInv

\* StartCtrlerserver, which does it all at once.
LEMMA CtrlerStartKeeps ==
  ASSUME NEW Z, NEW X, Disks(Z, X), NEW s \in Z, 1 \in Starts, saved[s] = 0, disk[<<s, 1>>] = 0,
         heap' = Append(heap, {}), saved' = [saved EXCEPT ![s] = Len(heap) + 1],
         disk' = [disk EXCEPT ![<<s, 1>>] = Len(heap) + 1],
         servers' = [servers EXCEPT ![s] = <<s, 1>>],
         UNCHANGED <<caller, handler, via, inst>>
  PROVE  Disks(Z, X)' /\ Kept(Z)
<1> USE DEF Disks, DiskTypes
<1>1. /\ Len(heap') = Len(heap) + 1 /\ heap' \in Seq(SUBSET X) /\ Len(heap) \in Nat
      /\ \A k \in 1..Len(heap) : heap'[k] = heap[k]
  OBVIOUS
<1>2. servers[s] = Nil
  BY DEF Registered
<1>3. /\ saved'[s] = Len(heap) + 1
      /\ \A p \in Z : p # s => saved'[p] = saved[p] /\ servers'[p] = servers[p]
      /\ disk'[<<s, 1>>] = Len(heap) + 1 /\ servers'[s] = <<s, 1>>
      /\ \A x \in Z \X Starts : x # <<s, 1>> => disk'[x] = disk[x]
  OBVIOUS
<1>4. \A p \in Z : Holds(saved[p]) \subseteq Holds(saved[p])'
  BY <1>1, <1>3 DEF Holds
<1>5. DiskTypes(Z, X)'
  BY <1>1, <1>3 DEF CallsOf
<1>6. Kept(Z)
  BY <1>1, <1>3 DEF Kept
<1>7. Registered(Z)'
  <2> SUFFICES ASSUME NEW p \in Z, servers'[p] # Nil
               PROVE  /\ servers'[p] \in Z \X Starts /\ saved'[p] # 0
                      /\ disk'[servers'[p]] = saved'[p]
    BY DEF Registered
  <2>1. CASE p = s
    BY <1>1, <1>3, <2>1
  <2>2. CASE p # s
    <3>1. /\ servers[p] \in Z \X Starts /\ saved[p] # 0 /\ disk[servers[p]] = saved[p]
          /\ servers'[p] = servers[p] /\ saved'[p] = saved[p]
      BY <1>3, <2>2 DEF Registered
    <3> QED
      BY <1>3, <3>1
  <2> QED
    BY <2>1, <2>2
<1>8. Written(X)'
  <2> SUFFICES ASSUME NEW c \in X, handler[c] = "saved"
               PROVE  /\ c \in heap'[disk'[inst[c]]]
                      /\ caller[c] = "ok" => c \in Holds(saved[via[c][2]])'
    BY DEF Written
  <2>1. /\ inst[c] \in Z \X Starts /\ disk[inst[c]] # 0 /\ c \in heap[disk[inst[c]]]
        /\ disk[inst[c]] \in 0..Len(heap)
    BY DEF Written
  <2>2. disk'[inst[c]] = disk[inst[c]]
    BY <1>3, <2>1
  <2>3. caller[c] = "ok" => via[c][2] \in Z /\ c \in Holds(saved[via[c][2]])
    BY DEF Written
  <2> QED
    BY <1>1, <1>4, <2>1, <2>2, <2>3
<1> QED
  BY <1>5, <1>6, <1>7, <1>8 DEF CallsOf

\* Ends that no instance owns are none of those StartServer gave to one.
LEMMA SilenceKept ==
  ASSUME ShardTypes, Shard!GivenEndsSilenced, UNCHANGED <<gen, at>>,
         \A e \in enabled' : e \in enabled \/ e[1] \notin GroupsAndCtrlers \X Starts
  PROVE  Shard!GivenEndsSilenced'
<1> SUFFICES ASSUME NEW s \in Shard!Shards, NEW g \in 1..gen[s],
                    g < gen[s] \/ at[s] \in {"silenced", "deleted", "copied", "down"},
                    NEW e \in Shard!Outgoing(<<s, g>>), e \in enabled'
             PROVE  FALSE
  BY DEF Shard!GivenEndsSilenced
<1>1. <<s, g>> \in GroupsAndCtrlers \X Starts
  BY ShardFacts DEF ShardTypes, Starts
<1>2. e[1] = <<s, g>>
  BY DEF Shard!Outgoing
<1>3. e \notin enabled
  BY DEF Shard!GivenEndsSilenced
<1> QED
  BY <1>1, <1>2, <1>3

\* Every step keeps the invariant, and no Persister loses an update: one
\* case for each action of ShardHarness.
LEMMA ShardNext == ShardInv /\ Shard!Next => ShardInv' /\ Kept(GroupsAndCtrlers)
<1> SUFFICES ASSUME ShardInv, Shard!Next PROVE ShardInv' /\ Kept(GroupsAndCtrlers)
  OBVIOUS
<1> DEFINE D == Disks(GroupsAndCtrlers, Calls1)' /\ Kept(GroupsAndCtrlers)
           R == /\ ShardTypes' /\ ShardStage' /\ CtrlersOff' /\ ShardEnds'
                /\ Shard!GivenEndsSilenced'
<1> SUFFICES D /\ R
  BY DEF ShardInv
<1>0. Disks(GroupsAndCtrlers, Calls1) /\ Nil \notin GroupsAndCtrlers \X Starts
  BY ShardFacts DEF ShardInv
<1> USE ShardFacts DEF ShardInv, ShardTypes, ShardStage, CtrlersOff, ShardEnds,
        Shard!GivenEndsSilenced, Shard!Goto, Shard!callVars, Shard!crashVars, Shard!cfgVars,
        Shard!Inst
<1>1. ASSUME NEW s \in Shard!Ctrlers, Shard!StartCtrlerserver(s) PROVE D /\ R
  <2>1. D
    <3>1. s \in GroupsAndCtrlers /\ 1 \in Starts /\ saved[s] = 0 /\ disk[<<s, 1>>] = 0
      BY <1>1 DEF Shard!StartCtrlerserver, Starts
    <3>2. /\ heap' = Append(heap, {}) /\ saved' = [saved EXCEPT ![s] = Len(heap) + 1]
          /\ disk' = [disk EXCEPT ![<<s, 1>>] = Len(heap) + 1]
          /\ servers' = [servers EXCEPT ![s] = <<s, 1>>]
          /\ UNCHANGED <<caller, handler, via, inst>>
      BY <1>1 DEF Shard!StartCtrlerserver, Shard!Supersede
    <3> QED
      BY <1>0, <3>1, <3>2, CtrlerStartKeeps
  <2>2. R
    BY <1>0, <1>1 DEF Shard!StartCtrlerserver, Shard!Supersede, Shard!Outgoing, Disks, DiskTypes
  <2> QED
    BY <2>1, <2>2
<1>2. CASE Shard!shardclerk
  <2>1. D
    BY <1>0, <1>2, QuietKeeps DEF QuietStep, Shard!shardclerk
  <2>2. ShardTypes' /\ ShardStage' /\ CtrlersOff' /\ ShardEnds'
    BY <1>2 DEF Shard!shardclerk
  <2>3. Shard!GivenEndsSilenced'
    <3>1. \A e \in enabled' : e \in enabled \/ e[1] = Mck
      BY <1>2 DEF Shard!shardclerk
    <3> QED
      BY <1>2, <3>1, SilenceKept DEF Shard!shardclerk
  <2> QED
    BY <2>1, <2>2, <2>3
<1>3. ASSUME NEW s \in Shard!Shards, Shard!Silence(s) PROVE D /\ R
  <2>1. D
    BY <1>0, <1>3, QuietKeeps DEF QuietStep, Shard!Silence
  <2>2. R
    BY <1>3 DEF Shard!Silence, Shard!Outgoing
  <2> QED
    BY <2>1, <2>2
<1>4. ASSUME NEW s \in Shard!Shards, Shard!DeleteServer(s) PROVE D /\ R
  <2>1. D
    BY <1>0, <1>4, DeleteKeeps DEF DeleteStep, Shard!DeleteServer
  <2>2. R
    BY <1>0, <1>4 DEF Shard!DeleteServer, Disks, DiskTypes
  <2> QED
    BY <2>1, <2>2
<1>5. ASSUME NEW s \in Shard!Shards, Shard!CopySaved(s) PROVE D /\ R
  <2>1. D
    <3>1. CASE saved[s] # 0
      BY <1>0, <1>5, <3>1, CopyKeeps
         DEF CopyStep, Holds, Shard!CopySaved, Shard!Supersede, Shard!Copy
    <3>2. CASE saved[s] = 0
      BY <1>0, <1>5, <3>2, QuietKeeps DEF QuietStep, Shard!CopySaved
    <3> QED
      BY <3>1, <3>2
  <2>2. R
    BY <1>0, <1>5 DEF Shard!CopySaved, Shard!Supersede, Disks, DiskTypes
  <2> QED
    BY <2>1, <2>2
<1>6. ASSUME NEW s \in Shard!Shards, Shard!Kill(s) PROVE D /\ R
  <2>1. D
    BY <1>0, <1>6, QuietKeeps DEF QuietStep, Shard!Kill
  <2>2. R
    BY <1>6 DEF Shard!Kill
  <2> QED
    BY <2>1, <2>2
<1>7. ASSUME NEW s \in Shard!Shards, Shard!FreshEnds(s) PROVE D /\ R
  <2>1. D
    BY <1>0, <1>7, QuietKeeps DEF QuietStep, Shard!FreshEnds
  <2>2. ShardTypes' /\ ShardStage' /\ CtrlersOff' /\ ShardEnds'
    BY <1>7 DEF Shard!FreshEnds, Starts
  <2>3. Shard!GivenEndsSilenced'
    BY <1>7 DEF Shard!FreshEnds, Shard!Outgoing, Starts
  <2> QED
    BY <2>1, <2>2, <2>3
<1>8. ASSUME NEW s \in Shard!Shards, Shard!FreshPersister(s) PROVE D /\ R
  <2>1. D
    BY <1>0, <1>8, CopyKeeps DEF CopyStep, Holds, Shard!FreshPersister, Shard!Supersede, Shard!Copy
  <2>2. R
    BY <1>0, <1>8 DEF Shard!FreshPersister, Shard!Supersede, Disks, DiskTypes
  <2> QED
    BY <2>1, <2>2
<1>9. ASSUME NEW s \in Shard!Shards, Shard!StartServer(s) PROVE D /\ R
  <2>0. /\ gen[s] \in Starts /\ <<s, gen[s]>> \in GroupsAndCtrlers \X Starts
        /\ disk[<<s, gen[s]>>] = 0 /\ at[s] = "persister"
        /\ disk \in [GroupsAndCtrlers \X Starts -> 0..Len(heap)]
    BY <1>0, <1>9 DEF Shard!StartServer, Starts, Disks, DiskTypes
  <2>1. D
    <3>1. StartStep(s, gen[s])
      BY <1>9 DEF StartStep, Shard!StartServer
    <3> QED
      BY <1>0, <2>0, <3>1, StartKeeps
  <2>2. ShardTypes' /\ CtrlersOff' /\ ShardEnds' /\ Shard!GivenEndsSilenced'
    BY <1>9, <2>0 DEF Shard!StartServer
  <2>3. ShardStage'
    <3>1. \A p \in Shard!Shards, g \in Starts :
            disk'[<<p, g>>] = IF p = s /\ g = gen[s] THEN saved[s] ELSE disk[<<p, g>>]
      BY <1>9, <2>0 DEF Shard!StartServer
    <3>2. UNCHANGED <<servers, saved, gen>> /\ at' = [at EXCEPT ![s] = "started"]
      BY <1>9 DEF Shard!StartServer
    <3>3. ASSUME NEW p \in Shard!Shards, at[p] = "started" PROVE gen[p] \in Starts
      <4>1. gen[p] \in 0..MaxStarts /\ gen[p] # 0
        BY <3>3
      <4> QED
        BY <4>1 DEF Starts
    <3> QED
      BY <2>0, <3>1, <3>2, <3>3
  <2> QED
    BY <2>1, <2>2, <2>3
<1>10. ASSUME NEW s \in Shard!Shards, Shard!AddServer(s) PROVE D /\ R
  <2>0. gen[s] \in Starts /\ saved[s] # 0 /\ disk[<<s, gen[s]>>] = saved[s]
    BY <1>10 DEF Shard!AddServer, Starts
  <2>1. D
    <3>1. AddStep(s, gen[s])
      BY <1>10 DEF AddStep, Shard!AddServer
    <3> QED
      BY <1>0, <2>0, <3>1, AddKeeps
  <2>2. R
    BY <1>0, <1>10 DEF Shard!AddServer, Disks, DiskTypes
  <2> QED
    BY <2>1, <2>2
<1>11. ASSUME NEW ck \in Users, Shard!makeClient(ck) \/ Shard!deleteClient(ck) PROVE D /\ R
  <2>1. D
    BY <1>0, <1>11, QuietKeeps DEF QuietStep, Shard!makeClient, Shard!deleteClient
  <2>2. ShardTypes' /\ ShardStage' /\ CtrlersOff' /\ ShardEnds'
    BY <1>11 DEF Shard!makeClient, Shard!deleteClient
  <2>3. Shard!GivenEndsSilenced'
    <3>1. \A e \in enabled' : e \in enabled \/ e[1] = ck
      BY <1>11 DEF Shard!makeClient, Shard!deleteClient
    <3>2. UNCHANGED <<gen, at>>
      BY <1>11 DEF Shard!makeClient, Shard!deleteClient
    <3>3. ck \notin GroupsAndCtrlers \X Starts
      OBVIOUS
    <3>4. \A e \in enabled' : e \in enabled \/ e[1] \notin GroupsAndCtrlers \X Starts
      BY <3>1, <3>3
    <3> QED
      BY <3>2, <3>4, SilenceKept
  <2> QED
    BY <2>1, <2>2, <2>3
<1>12. ASSUME NEW c \in Calls1, Shard!ServerCalls(c) \/ Shard!CtrlerCalls(c) PROVE D /\ R
  <2>1. \E s \in GroupsAndCtrlers : SendStep(c, s)
    BY <1>12 DEF SendStep, Shard!ServerCalls, Shard!CtrlerCalls, Shard!Call, Shard!Send,
       Shard!Outgoing, Shard!Started
  <2>2. D
    BY <1>0, <2>1, SendKeeps
  <2>3. R
    BY <1>12 DEF Shard!ServerCalls, Shard!CtrlerCalls, Shard!Call, Shard!Send
  <2> QED
    BY <2>2, <2>3
<1>13. ASSUME NEW c \in Calls1, Shard!make_end(c) PROVE D /\ R
  <2>1. PICK owner \in clerks \cup {Shard!Made(x) : x \in Shard!Started}, s \in Shard!Shards :
          Shard!Send(c, <<owner, s>>) /\ enabled' = enabled \cup {<<owner, s>>}
    BY <1>13 DEF Shard!make_end
  <2>2. owner \notin GroupsAndCtrlers \X Starts
    BY DEF Shard!Made
  <2>3. D
    <3>1. SendStep(c, s)
      BY <2>1 DEF SendStep, Shard!Send
    <3> QED
      BY <1>0, <3>1, SendKeeps
  <2>4. R
    BY <1>13, <2>1, <2>2 DEF Shard!make_end, Shard!Send, Shard!Outgoing, Starts
  <2> QED
    BY <2>3, <2>4
<1>14. ASSUME NEW c \in Calls1, UNCHANGED Shard!cfgVars,
              Shard!Deliver(c) \/ Shard!Save(c) \/ Shard!Refuse(c) \/ Shard!Reply(c) \/ Shard!Fail(c)
       PROVE  D /\ R
  <2>1. NetStep(c)
    BY <1>14 DEF NetStep, Shard!Deliver, Shard!Save, Shard!Refuse, Shard!Reply, Shard!Fail,
       Shard!Handled, Shard!IsServerDead
  <2>2. D
    BY <1>0, <2>1, NetKeeps
  <2>3. R
    BY <1>14, <2>1 DEF NetStep
  <2> QED
    BY <2>2, <2>3
<1> QED
  BY <1>1, <1>2, <1>3, <1>4, <1>5, <1>6, <1>7, <1>8, <1>9, <1>10, <1>11, <1>12, <1>13, <1>14
     DEF Shard!Next, Shard!Network
-----------------------------------------------------------------------------
(* The tester of kvraft.  Its invariant speaks about the steps that are    *)
(* still to be taken, todo.                                                *)

Op(l)  == todo[l].op
Who(l) == todo[l].i

KvOps == {"connect", "disconnect", "delete", "copy", "kill", "names", "persister",
          "start", "add", "look"}

KvTypes ==
  /\ gen \in [Servers -> 0..MaxStarts]
  /\ kvservers \subseteq Servers /\ clerks \subseteq Users
  /\ enabled \subseteq ((Servers \X (0..MaxStarts)) \cup Users) \X Servers
  /\ todo \in Seq([op : KvOps, i : Servers, to : Seq(Servers)])
  /\ \A l \in DOMAIN todo : Len(todo[l].to) <= N /\ (Op(l) = "look" => Len(todo) = 1)
  /\ sides \in Seq(Servers) \X Seq(Servers)

\* The steps of ShutdownServer and StartServer, in their order.
Rank(op) ==
  CASE op = "delete" -> 1 [] op = "copy" -> 2 [] op = "kill" -> 3 [] op = "names" -> 4
    [] op = "persister" -> 5 [] op = "start" -> 6 [] op = "add" -> 7 [] OTHER -> 0

InOrder == \A k, l \in DOMAIN todo :
  k < l /\ Who(k) = Who(l) /\ Rank(Op(k)) # 0 /\ Rank(Op(l)) # 0 => Rank(Op(k)) < Rank(Op(l))

\* Step op of server s comes before the l-th step.
Before(l, op, s) == \E k \in 1..l-1 : Op(k) = op /\ Who(k) = s

KvStage ==
  /\ \A l \in DOMAIN todo : Rank(Op(l)) > 1 => servers[Who(l)] = Nil \/ Before(l, "delete", Who(l))
  /\ \A l \in DOMAIN todo : Op(l) = "names" => gen[Who(l)] < MaxStarts
  /\ \A l \in DOMAIN todo : Op(l) = "start" =>
       /\ \/ Before(l, "names", Who(l))
          \/ gen[Who(l)] # 0 /\ disk[<<Who(l), gen[Who(l)]>>] = 0
       /\ saved[Who(l)] # 0 \/ Before(l, "persister", Who(l))
  /\ \A l \in DOMAIN todo : Op(l) = "add" =>
       \/ Before(l, "start", Who(l))
       \/ /\ gen[Who(l)] # 0 /\ saved[Who(l)] # 0
          /\ disk[<<Who(l), gen[Who(l)]>>] = saved[Who(l)]
          /\ \A k \in 1..l-1 : Who(k) = Who(l) => Rank(Op(k)) = 0
  /\ \A s \in Servers, g \in Starts : disk[<<s, g>>] # 0 => g <= gen[s]

\* Until make_config is done, no step assumes that all servers have names.
KvNamed == \A s \in Servers : gen[s] = 0 =>
  /\ \E l \in DOMAIN todo : Op(l) = "names" /\ Who(l) = s
  /\ \A l \in DOMAIN todo : Op(l) \notin {"look", "disconnect", "delete", "copy", "kill"}

\* An instance of s will be running when the l-th step is taken.
Runs(l, s) == Before(l, "start", s) \/ (s \in kvservers /\ ~Before(l, "kill", s))

KvUp ==
  /\ \A s \in Servers : Runs(Len(todo) + 1, s)
  /\ \A s \in kvservers : gen[s] # 0
  /\ \A l \in DOMAIN todo : Op(l) = "connect" =>
       Runs(l, Who(l)) /\ \A k \in DOMAIN todo[l].to : Runs(l, todo[l].to[k])

\* What the l-th step does to the link from a to b.
Covers(l, a, b) == \/ Who(l) = a /\ \E k \in DOMAIN todo[l].to : todo[l].to[k] = b
                   \/ Who(l) = b /\ \E k \in DOMAIN todo[l].to : todo[l].to[k] = a
Joins(l, a, b) == Op(l) = "connect" /\ Covers(l, a, b)
Cuts(l, a, b)  == \/ Op(l) = "disconnect" /\ Covers(l, a, b)
                  \/ Op(l) = "names" /\ Who(l) = a

\* There will be no link, or one, from a to b when the l-th step is taken.
CutBy(l, a, b) ==
  \/ ~Kv!Link(a, b) /\ \A m \in 1..l-1 : ~Joins(m, a, b)
  \/ \E k \in 1..l-1 : Cuts(k, a, b) /\ \A m \in k+1..l-1 : ~Joins(m, a, b)
JoinedBy(l, a, b) ==
  \/ Kv!Link(a, b) /\ \A m \in 1..l-1 : ~Cuts(m, a, b)
  \/ \E k \in 1..l-1 : Joins(k, a, b) /\ \A m \in k+1..l-1 : ~Cuts(m, a, b)

KvLinks ==
  /\ \A a, b \in Servers : IF Kv!Together(a, b) THEN JoinedBy(Len(todo) + 1, a, b)
                                                ELSE CutBy(Len(todo) + 1, a, b)
  /\ \A l \in DOMAIN todo : Op(l) \in {"kill", "names"} =>
       \A b \in Servers : CutBy(l, Who(l), b)

\* What the first step does, as far as the invariant is concerned.
KvStep(op, s) ==
  /\ todo # <<>> /\ op = Op(1) /\ s = Who(1) /\ op # "look"
  /\ todo' = Tail(todo) /\ UNCHANGED <<sides, clerks>>
  /\ gen' = [gen EXCEPT ![s] = IF op = "names" THEN @ + 1 ELSE @]
  /\ kvservers' = (IF op = "kill" THEN kvservers \ {s}
                   ELSE IF op = "start" THEN kvservers \cup {s} ELSE kvservers)
  /\ servers' = [servers EXCEPT ![s] = IF op = "delete" THEN Nil
                                       ELSE IF op = "add" THEN <<s, gen[s]>> ELSE @]
  /\ disk' = (IF op = "start" THEN [disk EXCEPT ![<<s, gen[s]>>] = saved[s]] ELSE disk)
  /\ op \notin {"copy", "persister"} => saved' = saved
  /\ \A p \in Servers : p # s => saved'[p] = saved[p]
  /\ saved[s] # 0 \/ op = "persister" => saved'[s] # 0
  /\ op \notin {"connect", "disconnect"} => enabled' = enabled
  /\ op \in {"connect", "disconnect"} => \A a, b \in Servers :
       Kv!Link(a, b)' <=> Joins(1, a, b) \/ (Kv!Link(a, b) /\ ~Cuts(1, a, b))
  /\ \A e \in enabled' : e \in enabled \/
       \E a, b \in Servers : Joins(1, a, b) /\ e = << <<a, gen[a]>>, b>>

KvInv ==
  /\ Disks(Servers, Calls1) /\ KvTypes /\ InOrder /\ KvStage /\ KvNamed /\ KvUp /\ KvLinks
  /\ Kv!OldInstanceSilenced

\* What LabSizes says about this tester.
LEMMA KvFacts ==
  /\ MaxStarts \in Nat \ {0} /\ N \in Nat \ {0} /\ N % 2 = 1 /\ Nil \notin Servers \X Starts
  /\ Kv!Servers = Servers /\ Kv!Instances = Servers \X Starts
  /\ Users \cap (Servers \X Starts) = {} /\ Users \cap (Servers \X (0..MaxStarts)) = {}
BY LabSizes DEF Kv!Sizes, Kv!NetSizes, Kv!Servers, Servers, Kv!Instances, Starts

\* Taking the first step away moves all others one place to the front, and
\* Before with them.
LEMMA Advances ==
  ASSUME KvTypes, todo # <<>>, todo' = Tail(todo)
  PROVE  /\ Head(todo) = todo[1] /\ 1 \in DOMAIN todo /\ DOMAIN todo = 1..Len(todo) /\ Len(todo) \in Nat
         /\ Len(todo') = Len(todo) - 1 /\ DOMAIN todo' = 1..Len(todo) - 1
         /\ todo' \in Seq([op : KvOps, i : Servers, to : Seq(Servers)])
         /\ \A l \in DOMAIN todo' : l + 1 \in DOMAIN todo /\ todo'[l] = todo[l + 1]
         /\ \A l \in 1..Len(todo) : \A op, s :
              Before(l, op, s)' <=> \E k \in 2..l : Op(k) = op /\ Who(k) = s
         /\ \A l \in 1..Len(todo) : \A op, s :
              Before(l + 1, op, s) <=> (Op(1) = op /\ Who(1) = s) \/ Before(l, op, s)'
<1>1. /\ Head(todo) = todo[1] /\ 1 \in DOMAIN todo /\ DOMAIN todo = 1..Len(todo) /\ Len(todo) \in Nat
      /\ Len(todo') = Len(todo) - 1 /\ DOMAIN todo' = 1..Len(todo) - 1
      /\ todo' \in Seq([op : KvOps, i : Servers, to : Seq(Servers)])
      /\ \A l \in DOMAIN todo' : l + 1 \in DOMAIN todo /\ todo'[l] = todo[l + 1]
  <2> DEFINE S == [op : KvOps, i : Servers, to : Seq(Servers)]
  <2>1. todo \in Seq(S) /\ todo # <<>>
    BY DEF KvTypes
  <2> HIDE DEF S
  <2> QED
    BY <2>1 DEF S
<1>2. ASSUME NEW l \in 1..Len(todo), NEW op, NEW s
      PROVE  Before(l, op, s)' <=> \E k \in 2..l : Op(k) = op /\ Who(k) = s
  <2>1. ASSUME NEW k \in 1..l-1, (Op(k) = op /\ Who(k) = s)' PROVE \E j \in 2..l : Op(j) = op /\ Who(j) = s
    BY <1>1, <2>1 DEF Op, Who
  <2>2. ASSUME NEW j \in 2..l, Op(j) = op /\ Who(j) = s PROVE \E k \in 1..l-1 : (Op(k) = op /\ Who(k) = s)'
    <3>1. j - 1 \in 1..l-1 /\ j - 1 \in DOMAIN todo' /\ (j - 1) + 1 = j
      BY <1>1
    <3>2. todo'[j-1] = todo[j]
      BY <1>1, <3>1
    <3> QED
      BY <2>2, <3>1, <3>2 DEF Op, Who
  <2> QED
    BY <2>1, <2>2 DEF Before
<1>3. ASSUME NEW l \in 1..Len(todo), NEW op, NEW s
      PROVE  Before(l + 1, op, s) <=> (Op(1) = op /\ Who(1) = s) \/ Before(l, op, s)'
  <2>1. Before(l + 1, op, s) <=> \E k \in 1..l : Op(k) = op /\ Who(k) = s
    BY DEF Before
  <2>2. \A k \in 1..l : k = 1 \/ k \in 2..l
    OBVIOUS
  <2>3. 1 \in 1..l /\ \A k \in 2..l : k \in 1..l
    BY <1>1
  <2> QED
    BY <1>2, <2>1, <2>2, <2>3
<1> QED
  BY <1>1, <1>2, <1>3

\* When the first step does to a link what Cuts and Joins say, the others
\* do to it what they were to do: CutBy and JoinedBy move one place to the
\* front.
LEMMA LinkAdvances ==
  ASSUME KvTypes, todo # <<>>, todo' = Tail(todo),
         NEW a \in Servers, NEW b \in Servers, NEW l \in 1..Len(todo),
         Cuts(1, a, b) => ~Kv!Link(a, b)', Joins(1, a, b) => Kv!Link(a, b)',
         ~Cuts(1, a, b) /\ ~Joins(1, a, b) => (Kv!Link(a, b)' <=> Kv!Link(a, b))
  PROVE  /\ CutBy(l + 1, a, b) => CutBy(l, a, b)'
         /\ JoinedBy(l + 1, a, b) => JoinedBy(l, a, b)'
<1>1. /\ Len(todo) \in Nat /\ DOMAIN todo' = 1..Len(todo) - 1
      /\ \A m \in 1..l-1 : m \in DOMAIN todo' /\ todo'[m] = todo[m + 1]
  BY Advances
<1>2. \A m \in 1..l-1 : /\ Joins(m, a, b)' <=> Joins(m + 1, a, b)
                        /\ Cuts(m, a, b)' <=> Cuts(m + 1, a, b)
  BY <1>1 DEF Joins, Cuts, Covers, Op, Who
<1>3. ~(Joins(1, a, b) /\ Cuts(1, a, b))
  BY DEF Joins, Cuts
<1>4. \A k \in 2..l : k - 1 \in 1..l-1 /\ (k - 1) + 1 = k
  OBVIOUS
<1>5. \A m \in 1..l-1 : m + 1 \in 2..l
  OBVIOUS
<1>6. ASSUME CutBy(l + 1, a, b) PROVE CutBy(l, a, b)'
  <2>1. CASE ~Kv!Link(a, b) /\ \A m \in 1..(l+1)-1 : ~Joins(m, a, b)
    <3>1. ~Kv!Link(a, b)'
      BY <2>1
    <3>2. \A m \in 1..l-1 : ~Joins(m, a, b)'
      BY <1>2, <1>5, <2>1
    <3> QED
      BY <3>1, <3>2 DEF CutBy
  <2>2. ASSUME NEW k \in 1..(l+1)-1, Cuts(k, a, b), \A m \in k+1..(l+1)-1 : ~Joins(m, a, b)
        PROVE  CutBy(l, a, b)'
    <3>1. CASE k = 1
      <4>1. ~Kv!Link(a, b)'
        BY <2>2, <3>1
      <4>2. \A m \in 1..l-1 : ~Joins(m, a, b)'
        BY <1>2, <1>5, <2>2, <3>1
      <4> QED
        BY <4>1, <4>2 DEF CutBy
    <3>2. CASE k # 1
      <4>1. k - 1 \in 1..l-1 /\ Cuts(k - 1, a, b)'
        <5>1. k \in 2..l
          BY <3>2
        <5> QED
          BY <1>2, <1>4, <2>2, <5>1
      <4>2. \A m \in (k-1)+1..l-1 : ~Joins(m, a, b)'
        <5>1. \A m \in (k-1)+1..l-1 : m \in 1..l-1 /\ m + 1 \in k+1..(l+1)-1
          OBVIOUS
        <5> QED
          BY <1>2, <2>2, <5>1
      <4> QED
        BY <4>1, <4>2 DEF CutBy
    <3> QED
      BY <3>1, <3>2
  <2> QED
    BY <1>6, <2>1, <2>2 DEF CutBy
<1>7. ASSUME JoinedBy(l + 1, a, b) PROVE JoinedBy(l, a, b)'
  <2>1. CASE Kv!Link(a, b) /\ \A m \in 1..(l+1)-1 : ~Cuts(m, a, b)
    <3>1. Kv!Link(a, b)'
      BY <2>1
    <3>2. \A m \in 1..l-1 : ~Cuts(m, a, b)'
      BY <1>2, <1>5, <2>1
    <3> QED
      BY <3>1, <3>2 DEF JoinedBy
  <2>2. ASSUME NEW k \in 1..(l+1)-1, Joins(k, a, b), \A m \in k+1..(l+1)-1 : ~Cuts(m, a, b)
        PROVE  JoinedBy(l, a, b)'
    <3>1. CASE k = 1
      <4>1. Kv!Link(a, b)'
        BY <2>2, <3>1
      <4>2. \A m \in 1..l-1 : ~Cuts(m, a, b)'
        BY <1>2, <1>5, <2>2, <3>1
      <4> QED
        BY <4>1, <4>2 DEF JoinedBy
    <3>2. CASE k # 1
      <4>1. k - 1 \in 1..l-1 /\ Joins(k - 1, a, b)'
        <5>1. k \in 2..l
          BY <3>2
        <5> QED
          BY <1>2, <1>4, <2>2, <5>1
      <4>2. \A m \in (k-1)+1..l-1 : ~Cuts(m, a, b)'
        <5>1. \A m \in (k-1)+1..l-1 : m \in 1..l-1 /\ m + 1 \in k+1..(l+1)-1
          OBVIOUS
        <5> QED
          BY <1>2, <2>2, <5>1
      <4> QED
        BY <4>1, <4>2 DEF JoinedBy
    <3> QED
      BY <3>1, <3>2
  <2> QED
    BY <1>7, <2>1, <2>2 DEF JoinedBy
<1> QED
  BY <1>6, <1>7

\* The ranks of all steps.
LEMMA Ranks ==
  /\ Rank("delete") = 1 /\ Rank("copy") = 2 /\ Rank("kill") = 3 /\ Rank("names") = 4
  /\ Rank("persister") = 5 /\ Rank("start") = 6 /\ Rank("add") = 7
  /\ Rank("connect") = 0 /\ Rank("disconnect") = 0 /\ Rank("look") = 0
BY DEF Rank

\* The order of the steps is kept when the first is taken, and later steps
\* of ShutdownServer and StartServer for its server have a higher rank.
LEMMA FirstInOrder ==
  ASSUME KvTypes, InOrder, NEW op, NEW s, KvStep(op, s)
  PROVE  /\ InOrder'
         /\ op \in KvOps /\ s \in Servers
         /\ \A l \in DOMAIN todo' : Op(l)' = Op(l + 1) /\ Who(l)' = Who(l + 1)
                                    /\ Op(l + 1) \in KvOps /\ Who(l + 1) \in Servers
         /\ \A l \in DOMAIN todo' : Who(l)' = s /\ Rank(op) # 0 /\ Rank(Op(l)') # 0 =>
              Rank(op) < Rank(Op(l)')
<1>1. /\ todo # <<>> /\ todo' = Tail(todo) /\ op = Op(1) /\ s = Who(1)
  BY DEF KvStep
<1>2. /\ 1 \in DOMAIN todo /\ DOMAIN todo = 1..Len(todo) /\ Len(todo) \in Nat
      /\ DOMAIN todo' = 1..Len(todo) - 1
      /\ \A l \in DOMAIN todo' : l + 1 \in DOMAIN todo /\ todo'[l] = todo[l + 1]
  BY <1>1, Advances
<1>3. \A l \in DOMAIN todo : Op(l) \in KvOps /\ Who(l) \in Servers
  <2> DEFINE S == [op : KvOps, i : Servers, to : Seq(Servers)]
  <2>1. todo \in Seq(S)
    BY DEF KvTypes
  <2> HIDE DEF S
  <2>2. \A l \in DOMAIN todo : todo[l] \in S
    BY <2>1
  <2> QED
    BY <2>2 DEF Op, Who, S
<1>4. \A l \in DOMAIN todo' : Op(l)' = Op(l + 1) /\ Who(l)' = Who(l + 1)
  BY <1>2 DEF Op, Who
<1>5. \A k, l \in DOMAIN todo' : k < l => k + 1 < l + 1
  BY <1>2
<1>6. InOrder'
  BY <1>2, <1>4, <1>5 DEF InOrder
<1>7. \A l \in DOMAIN todo' : 1 < l + 1
  BY <1>2
<1>8. ASSUME NEW l \in DOMAIN todo', Who(l)' = s, Rank(op) # 0, Rank(Op(l)') # 0
      PROVE  Rank(op) < Rank(Op(l)')
  BY <1>1, <1>2, <1>4, <1>7, <1>8 DEF InOrder
<1> QED
  BY <1>1, <1>2, <1>3, <1>4, <1>6, <1>8

\* What the steps that are left assume about registrations, Persisters and
\* names holds after the first step.
LEMMA StageAdvances ==
  ASSUME Disks(Servers, Calls1), KvTypes, InOrder, KvStage, NEW op, NEW s, KvStep(op, s)
  PROVE  KvStage'
<1>1. todo # <<>> /\ todo' = Tail(todo) /\ op = Op(1) /\ s = Who(1)
  BY DEF KvStep
<1>2. /\ 1 \in DOMAIN todo /\ DOMAIN todo = 1..Len(todo) /\ Len(todo) \in Nat
      /\ DOMAIN todo' = 1..Len(todo) - 1
      /\ \A l \in DOMAIN todo' : l + 1 \in DOMAIN todo /\ l \in 1..Len(todo)
  BY <1>1, Advances
<1>3. \A l \in DOMAIN todo' : \A o, p :
        Before(l + 1, o, p) <=> (op = o /\ s = p) \/ Before(l, o, p)'
  BY <1>1, <1>2, Advances
<1>4. \A o, p : ~Before(1, o, p)
  BY DEF Before
<1>5. /\ gen \in [Servers -> 0..MaxStarts] /\ MaxStarts \in Nat
      /\ \A p \in Servers : gen'[p] = (IF op = "names" /\ p = s THEN gen[p] + 1 ELSE gen[p])
      /\ s \in Servers
  BY FirstInOrder, KvFacts DEF KvTypes, KvStep
<1>6. servers \in [Servers -> (Servers \X Starts) \cup {Nil}] /\ saved \in [Servers -> 0..Len(heap)]
      /\ disk \in [Servers \X Starts -> 0..Len(heap)]
  BY DEF Disks, DiskTypes
<1>a. /\ op \in KvOps
      /\ \A l \in DOMAIN todo' : Op(l)' = Op(l + 1) /\ Who(l)' = Who(l + 1)
                                 /\ Op(l + 1) \in KvOps /\ Who(l + 1) \in Servers
      /\ \A l \in DOMAIN todo' : Who(l)' = s /\ Rank(op) # 0 /\ Rank(Op(l)') # 0 =>
           Rank(op) < Rank(Op(l)')
      /\ InOrder'
  BY FirstInOrder
<1>b. \A o \in KvOps : Rank(o) \in 0..7
  BY Ranks DEF KvOps
<1> USE <1>a, Ranks
<1>7. ASSUME NEW l \in DOMAIN todo', Rank(Op(l)') > 1
      PROVE  (servers[Who(l)] = Nil \/ Before(l, "delete", Who(l)))'
  <2> DEFINE p == Who(l + 1)
  <2>1. Who(l)' = p /\ p \in Servers /\ Rank(Op(l + 1)) > 1 /\ Rank(Op(l)') <= 7
    BY <1>7, <1>b
  <2>2. servers[p] = Nil \/ Before(l + 1, "delete", p)
    BY <1>2, <2>1 DEF KvStage
  <2>3. servers'[p] = (IF p # s THEN servers[p] ELSE IF op = "delete" THEN Nil
                      ELSE IF op = "add" THEN <<s, gen[s]>> ELSE servers[p])
    BY <1>6, <2>1 DEF KvStep
  <2>4. p = s => op # "add"
    BY <1>7, <2>1, <1>b
  <2> QED
    BY <1>3, <2>1, <2>2, <2>3, <2>4
<1>8. ASSUME NEW l \in DOMAIN todo', Op(l)' = "names"
      PROVE  (gen[Who(l)] < MaxStarts)'
  BY <1>2, <1>5, <1>8 DEF KvStage
<1>9. ASSUME NEW l \in DOMAIN todo', Op(l)' = "start"
      PROVE  (/\ \/ Before(l, "names", Who(l))
                 \/ gen[Who(l)] # 0 /\ disk[<<Who(l), gen[Who(l)]>>] = 0
              /\ saved[Who(l)] # 0 \/ Before(l, "persister", Who(l)))'
  <2>0. PICK p : p = Who(l + 1)
    OBVIOUS
  <2>1. Who(l)' = p /\ p \in Servers /\ Op(l + 1) = "start" /\ l + 1 \in DOMAIN todo
    BY <1>2, <1>9, <2>0
  <2>2. p # s \/ op # "start"
    BY <1>9, <2>1
  <2>3. (Before(l, "names", p) \/ (gen[p] # 0 /\ disk[<<p, gen[p]>>] = 0))'
    <3>1. CASE op = "names" /\ p = s
      <4>1. gen'[p] = gen[p] + 1 /\ gen[p] < MaxStarts /\ disk' = disk
        BY <1>1, <1>2, <1>5, <2>1, <3>1 DEF KvStage, KvStep
      <4>2. gen[p] + 1 \in Starts /\ ~(gen[p] + 1 <= gen[p])
        BY <1>5, <2>1, <4>1 DEF Starts
      <4>3. disk[<<p, gen[p] + 1>>] = 0
        BY <2>1, <4>2 DEF KvStage
      <4> QED
        BY <1>5, <2>1, <4>1, <4>3
    <3>2. CASE ~(op = "names" /\ p = s)
      <4>1. Before(l + 1, "names", p) \/ (gen[p] # 0 /\ disk[<<p, gen[p]>>] = 0)
        BY <2>1, <2>0 DEF KvStage
      <4>2. gen'[p] = gen[p]
        BY <1>5, <2>1, <3>2
      <4>3. gen[p] # 0 => disk'[<<p, gen[p]>>] = disk[<<p, gen[p]>>]
        <5>1. op = "start" => p # s /\ disk' = [disk EXCEPT ![<<s, gen[s]>>] = saved[s]]
          BY <2>2 DEF KvStep
        <5>2. op # "start" => disk' = disk
          BY DEF KvStep
        <5>3. gen[p] # 0 => <<p, gen[p]>> \in Servers \X Starts
          BY <1>5, <2>1 DEF Starts
        <5> QED
          BY <1>6, <5>1, <5>2, <5>3
      <4> QED
        BY <1>3, <3>2, <4>1, <4>2, <4>3
    <3> QED
      BY <3>1, <3>2
  <2>4. (saved[p] # 0 \/ Before(l, "persister", p))'
    <3>1. saved[p] # 0 \/ Before(l + 1, "persister", p)
      BY <2>1, <2>0 DEF KvStage
    <3>2. saved[p] # 0 => saved'[p] # 0
      BY <2>1 DEF KvStep
    <3>3. op = "persister" /\ s = p => saved'[p] # 0
      BY DEF KvStep
    <3> QED
      BY <1>3, <3>1, <3>2, <3>3
  <2> QED
    BY <2>1, <2>3, <2>4
<1>10. ASSUME NEW l \in DOMAIN todo', Op(l)' = "add"
       PROVE (\/ Before(l, "start", Who(l))
              \/ /\ gen[Who(l)] # 0 /\ saved[Who(l)] # 0
                 /\ disk[<<Who(l), gen[Who(l)]>>] = saved[Who(l)]
                 /\ \A k \in 1..l-1 : Who(k) = Who(l) => Rank(Op(k)) = 0)'
  <2>0. PICK p : p = Who(l + 1)
    OBVIOUS
  <2>1. Who(l)' = p /\ p \in Servers /\ Op(l + 1) = "add" /\ l + 1 \in DOMAIN todo
    BY <1>2, <1>10, <2>0
  <2>2. CASE op = "start" /\ s = p
    <3>1. saved[p] # 0 /\ gen[p] # 0
      BY <1>1, <1>2, <1>4, <2>2 DEF KvStage
    <3>2. disk'[<<p, gen[p]>>] = saved[p] /\ saved' = saved /\ gen'[p] = gen[p]
      <4>1. <<p, gen[p]>> \in Servers \X Starts
        BY <1>5, <2>1, <3>1 DEF Starts
      <4> QED
        BY <1>5, <1>6, <2>1, <2>2, <4>1 DEF KvStep
    <3>3. ASSUME NEW k \in 1..l-1, Who(k)' = p PROVE Rank(Op(k)') = 0
      <4>1. k \in DOMAIN todo' /\ k < l
        BY <1>2
      <4>2. Rank(Op(k)') # 0 => Rank(Op(k)') > 6 /\ Rank(Op(k)') < 7
        BY <1>10, <2>1, <2>2, <3>3, <4>1 DEF InOrder
      <4> QED
        BY <4>1, <4>2, <1>b
    <3> QED
      BY <2>1, <3>1, <3>2, <3>3
  <2>3. CASE ~(op = "start" /\ s = p)
    <3>1. \/ Before(l + 1, "start", p)
          \/ /\ gen[p] # 0 /\ saved[p] # 0 /\ disk[<<p, gen[p]>>] = saved[p]
             /\ \A k \in 1..(l + 1)-1 : Who(k) = p => Rank(Op(k)) = 0
      BY <2>1, <2>0 DEF KvStage
    <3>2. CASE Before(l + 1, "start", p)
      BY <1>3, <2>1, <2>3, <3>2
    <3>3. CASE /\ gen[p] # 0 /\ saved[p] # 0 /\ disk[<<p, gen[p]>>] = saved[p]
               /\ \A k \in 1..(l + 1)-1 : Who(k) = p => Rank(Op(k)) = 0
      <4>1. s = p => op \in {"connect", "disconnect"}
        <5>1. 1 \in 1..(l + 1)-1
          BY <1>2
        <5>2. s = p => Rank(op) = 0
          BY <1>1, <3>3, <5>1
        <5> QED
          BY <5>2 DEF KvOps, KvStep
      <4>2. gen'[p] = gen[p] /\ saved'[p] = saved[p]
        BY <1>5, <2>1, <4>1 DEF KvStep
      <4>3. disk'[<<p, gen[p]>>] = disk[<<p, gen[p]>>]
        <5>1. <<p, gen[p]>> \in Servers \X Starts
          BY <1>5, <2>1, <3>3 DEF Starts
        <5> QED
          BY <1>6, <4>1, <5>1 DEF KvStep
      <4>4. \A k \in 1..l-1 : k \in DOMAIN todo' /\ k + 1 \in 1..(l + 1)-1
        BY <1>2
      <4>5. \A k \in 1..l-1 : Who(k)' = p => Rank(Op(k)') = 0
        BY <3>3, <4>4
      <4> QED
        BY <2>1, <3>3, <4>2, <4>3, <4>5
    <3> QED
      BY <3>1, <3>2, <3>3
  <2> QED
    BY <2>2, <2>3
<1>11. \A p \in Servers, g \in Starts : disk'[<<p, g>>] # 0 => g <= gen'[p]
  <2>1. \A p \in Servers, g \in Starts : disk'[<<p, g>>] # 0 => disk[<<p, g>>] # 0 \/ g = gen[p]
    BY <1>5, <1>6 DEF KvStep
  <2> QED
    BY <1>5, <2>1 DEF KvStage, Starts
<1> QED
  BY <1>7, <1>8, <1>9, <1>10, <1>11 DEF KvStage

\* So does what they assume about names and running instances.
LEMMA UpAdvances ==
  ASSUME KvTypes, InOrder, KvStage, KvNamed, KvUp, NEW op, NEW s, KvStep(op, s)
  PROVE  KvNamed' /\ KvUp'
<1>1. todo # <<>> /\ todo' = Tail(todo) /\ op = Op(1) /\ s = Who(1)
  BY DEF KvStep
<1>2. /\ 1 \in DOMAIN todo /\ DOMAIN todo = 1..Len(todo) /\ Len(todo) \in Nat
      /\ DOMAIN todo' = 1..Len(todo) - 1 /\ Len(todo') = Len(todo) - 1
      /\ \A l \in DOMAIN todo' : l + 1 \in DOMAIN todo /\ todo'[l] = todo[l + 1]
  BY <1>1, Advances
<1>3. \A l \in 1..Len(todo) : \A o, p :
        Before(l + 1, o, p) <=> (op = o /\ s = p) \/ Before(l, o, p)'
  BY <1>1, <1>2, Advances
<1>4. \A o, p : ~Before(1, o, p)
  BY DEF Before
<1>5. /\ gen \in [Servers -> 0..MaxStarts] /\ MaxStarts \in Nat
      /\ \A p \in Servers : gen'[p] = (IF op = "names" /\ p = s THEN gen[p] + 1 ELSE gen[p])
      /\ s \in Servers
  BY FirstInOrder, KvFacts DEF KvTypes, KvStep
<1>6. /\ op \in KvOps
      /\ \A l \in DOMAIN todo' : Op(l)' = Op(l + 1) /\ Who(l)' = Who(l + 1)
      /\ \A l \in DOMAIN todo' : Who(l)' = s /\ Rank(op) # 0 /\ Rank(Op(l)') # 0 =>
           Rank(op) < Rank(Op(l)')
  BY FirstInOrder
<1>7. /\ op \notin {"kill", "start"} => kvservers' = kvservers
      /\ op = "kill" => kvservers' = kvservers \ {s}
      /\ op = "start" => kvservers' = kvservers \cup {s} /\ gen[s] # 0
  BY <1>1, <1>2, <1>4 DEF KvStep, KvStage
<1>8. KvNamed'
  <2> SUFFICES ASSUME NEW p \in Servers, gen'[p] = 0
               PROVE  (/\ \E l \in DOMAIN todo : Op(l) = "names" /\ Who(l) = p
                       /\ \A l \in DOMAIN todo : Op(l) \notin {"look", "disconnect", "delete", "copy", "kill"})'
    BY DEF KvNamed
  <2>1. gen[p] = 0 /\ ~(op = "names" /\ p = s)
    BY <1>5
  <2>2. PICK l \in DOMAIN todo : Op(l) = "names" /\ Who(l) = p
    BY <2>1 DEF KvNamed
  <2>3. l # 1 /\ l - 1 \in DOMAIN todo' /\ (l - 1) + 1 = l
    BY <1>1, <1>2, <2>1, <2>2
  <2>4. Op(l-1)' = "names" /\ Who(l-1)' = p
    BY <1>6, <2>2, <2>3
  <2> QED
    BY <1>2, <1>6, <2>1, <2>3, <2>4 DEF KvNamed
<1>9. \A l \in 1..Len(todo) : \A p : Runs(l + 1, p) => Runs(l, p)'
  <2> SUFFICES ASSUME NEW l \in 1..Len(todo), NEW p, Runs(l + 1, p) PROVE Runs(l, p)'
    OBVIOUS
  <2>1. CASE op = "start" /\ s = p
    <3>1. ASSUME NEW k \in 1..l-1, Op(k)' = "kill" /\ Who(k)' = p PROVE FALSE
      <4>1. k \in DOMAIN todo'
        BY <1>2
      <4> QED
        BY <1>6, <2>1, <3>1, <4>1, Ranks
    <3>2. ~Before(l, "kill", p)'
      BY <3>1 DEF Before
    <3> QED
      BY <1>7, <2>1, <3>2 DEF Runs
  <2>2. CASE ~(op = "start" /\ s = p)
    BY <1>3, <1>7, <2>2 DEF Runs
  <2> QED
    BY <2>1, <2>2
<1>10. KvUp'
  <2>1. (\A p \in Servers : Runs(Len(todo) + 1, p))'
    <3>1. PICK n : n = Len(todo)
      OBVIOUS
    <3>2. n \in 1..Len(todo) /\ Len(todo') + 1 = n
      BY <1>2, <3>1
    <3>3. \A p \in Servers : Runs(n, p)'
      BY <1>9, <3>1, <3>2 DEF KvUp
    <3> QED
      BY <3>2, <3>3
  <2>2. \A p \in kvservers' : gen'[p] # 0
    <3>1. \A p \in kvservers' : p \in Servers /\ gen[p] # 0
      BY <1>5, <1>7 DEF KvTypes, KvUp
    <3> QED
      BY <1>5, <3>1
  <2>3. ASSUME NEW l \in DOMAIN todo', Op(l)' = "connect"
        PROVE  (Runs(l, Who(l)) /\ \A k \in DOMAIN todo[l].to : Runs(l, todo[l].to[k]))'
    <3>1. l + 1 \in DOMAIN todo /\ l \in 1..Len(todo) /\ Op(l + 1) = "connect"
      BY <1>2, <1>6, <2>3
    <3>2. Runs(l + 1, Who(l + 1)) /\ \A k \in DOMAIN todo[l + 1].to : Runs(l + 1, todo[l + 1].to[k])
      BY <3>1 DEF KvUp
    <3>3. PICK w, t : w = Who(l + 1) /\ t = todo[l + 1].to
      OBVIOUS
    <3>4. w = Who(l)' /\ t = todo'[l].to
      BY <1>2, <1>6, <3>3
    <3>5. Runs(l, w)' /\ \A k \in DOMAIN t : Runs(l, t[k])'
      BY <1>9, <3>1, <3>2, <3>3
    <3> QED
      BY <3>4, <3>5
  <2> QED
    BY <2>1, <2>2, <2>3 DEF KvUp
<1> QED
  BY <1>8, <1>10

\* The types after the first step.
LEMMA TypesAdvance ==
  ASSUME KvTypes, InOrder, KvStage, NEW op, NEW s, KvStep(op, s)
  PROVE  KvTypes'
<1>1. todo # <<>> /\ todo' = Tail(todo) /\ op = Op(1) /\ s = Who(1) /\ s \in Servers
  BY FirstInOrder DEF KvStep
<1>2. gen' \in [Servers -> 0..MaxStarts]
  <2>1. 1 \in DOMAIN todo
    BY <1>1, Advances
  <2>2. op = "names" => gen[s] < MaxStarts
    BY <1>1, <2>1 DEF KvStage
  <2>3. gen[s] \in 0..MaxStarts /\ MaxStarts \in Nat
    BY <1>1, KvFacts DEF KvTypes
  <2>4. (IF op = "names" THEN gen[s] + 1 ELSE gen[s]) \in 0..MaxStarts
    BY <2>2, <2>3
  <2> QED
    BY <1>1, <2>4 DEF KvTypes, KvStep
<1>3. kvservers' \subseteq Servers /\ clerks' \subseteq Users
  BY <1>1 DEF KvTypes, KvStep
<1>4. enabled' \subseteq ((Servers \X (0..MaxStarts)) \cup Users) \X Servers
  <2>1. \A a, b \in Servers : << <<a, gen[a]>>, b>> \in ((Servers \X (0..MaxStarts)) \cup Users) \X Servers
    BY DEF KvTypes
  <2> QED
    BY <2>1 DEF KvTypes, KvStep
<1>5. /\ todo' \in Seq([op : KvOps, i : Servers, to : Seq(Servers)])
      /\ \A l \in DOMAIN todo' : l + 1 \in DOMAIN todo /\ todo'[l] = todo[l + 1]
  BY <1>1, Advances
<1>6. \A l \in DOMAIN todo' : Len(todo'[l].to) <= N
  BY <1>5 DEF KvTypes
<1>8. \A l \in DOMAIN todo' : Op(l)' # "look"
  <2>1. Len(todo) \in Nat /\ DOMAIN todo' = 1..Len(todo) - 1
    BY <1>1, Advances
  <2>2. ASSUME NEW l \in DOMAIN todo', Op(l)' = "look" PROVE FALSE
    <3>1. l + 1 \in DOMAIN todo /\ Op(l + 1) = "look" /\ l \in 1..Len(todo) - 1
      BY <1>5, <2>1, <2>2 DEF Op
    <3>2. Len(todo) = 1
      BY <3>1 DEF KvTypes
    <3> QED
      BY <3>1, <3>2
  <2> QED
    BY <2>2
<1>7. sides' \in Seq(Servers) \X Seq(Servers)
  BY DEF KvTypes, KvStep
<1> QED
  BY <1>2, <1>3, <1>4, <1>5, <1>6, <1>7, <1>8 DEF KvTypes

\* What the steps that are left do to the links holds after the first step,
\* and no old instance gets an end back: an instance is killed only when
\* all its ends are disabled, and the ends of a new one start disabled.
LEMMA LinksAdvance ==
  ASSUME KvTypes, InOrder, KvStage, KvUp, KvLinks, Kv!OldInstanceSilenced, NEW op, NEW s, KvStep(op, s)
  PROVE  KvLinks' /\ Kv!OldInstanceSilenced'
<1>1. todo # <<>> /\ todo' = Tail(todo) /\ op = Op(1) /\ s = Who(1) /\ op \in KvOps
  BY FirstInOrder DEF KvStep
<1>2. /\ 1 \in DOMAIN todo /\ DOMAIN todo = 1..Len(todo) /\ Len(todo) \in Nat
      /\ DOMAIN todo' = 1..Len(todo) - 1 /\ Len(todo') = Len(todo) - 1
      /\ \A l \in DOMAIN todo' : l + 1 \in DOMAIN todo /\ l \in 1..Len(todo)
  BY <1>1, Advances
<1>3. \A l \in DOMAIN todo' : Op(l)' = Op(l + 1) /\ Who(l)' = Who(l + 1) /\ Who(l + 1) \in Servers
  BY FirstInOrder
<1>4. /\ gen \in [Servers -> 0..MaxStarts] /\ MaxStarts \in Nat /\ s \in Servers
      /\ \A p \in Servers : gen'[p] = (IF op = "names" /\ p = s THEN gen[p] + 1 ELSE gen[p])
  BY FirstInOrder, KvFacts DEF KvTypes, KvStep
<1>5. op = "names" => gen[s] < MaxStarts
  BY <1>1, <1>2 DEF KvStage
<1>6. \A a, b \in Servers :
        /\ Cuts(1, a, b) => ~Kv!Link(a, b)'
        /\ Joins(1, a, b) => Kv!Link(a, b)'
        /\ ~Cuts(1, a, b) /\ ~Joins(1, a, b) => (Kv!Link(a, b)' <=> Kv!Link(a, b))
  <2> SUFFICES ASSUME NEW a \in Servers, NEW b \in Servers
               PROVE  /\ Cuts(1, a, b) => ~Kv!Link(a, b)'
                      /\ Joins(1, a, b) => Kv!Link(a, b)'
                      /\ ~Cuts(1, a, b) /\ ~Joins(1, a, b) => (Kv!Link(a, b)' <=> Kv!Link(a, b))
    OBVIOUS
  <2>1. ~(Joins(1, a, b) /\ Cuts(1, a, b))
    BY DEF Joins, Cuts
  <2>2. CASE op \in {"connect", "disconnect"}
    BY <2>1, <2>2 DEF KvStep
  <2>3. CASE op = "names" /\ a = s
    <3>1. gen'[a] = gen[a] + 1 /\ enabled' = enabled /\ <<a, gen[a] + 1>> \in Kv!Instances
      BY <1>4, <1>5, <2>3, KvFacts DEF KvStep, Starts
    <3>2. << <<a, gen[a] + 1>>, b>> \notin enabled
      BY <1>4, <3>1 DEF Kv!OldInstanceSilenced
    <3> QED
      BY <1>1, <2>3, <3>1, <3>2 DEF Joins, Cuts, Kv!Link
  <2>4. CASE op \notin {"connect", "disconnect"} /\ ~(op = "names" /\ a = s)
    <3>1. gen'[a] = gen[a] /\ enabled' = enabled
      BY <1>4, <2>4 DEF KvStep
    <3> QED
      BY <1>1, <2>4, <3>1 DEF Joins, Cuts, Kv!Link
  <2> QED
    BY <2>2, <2>3, <2>4
<1>7. \A a, b \in Servers, l \in 1..Len(todo) :
        (CutBy(l + 1, a, b) => CutBy(l, a, b)') /\ (JoinedBy(l + 1, a, b) => JoinedBy(l, a, b)')
  BY <1>1, <1>6, LinkAdvances
<1>8. KvLinks'
  <2>1. PICK n : n = Len(todo)
    OBVIOUS
  <2>2. n \in 1..Len(todo) /\ Len(todo') + 1 = n
    BY <1>2, <2>1
  <2>3. \A a, b \in Servers : IF Kv!Together(a, b) THEN JoinedBy(n, a, b)' ELSE CutBy(n, a, b)'
    BY <1>7, <2>1, <2>2 DEF KvLinks
  <2>4. \A a, b : Kv!Together(a, b)' <=> Kv!Together(a, b)
    BY DEF KvStep, Kv!Together
  <2>5. (\A a, b \in Servers : IF Kv!Together(a, b) THEN JoinedBy(Len(todo) + 1, a, b)
                                                    ELSE CutBy(Len(todo) + 1, a, b))'
    BY <2>2, <2>3, <2>4
  <2>6. ASSUME NEW l \in DOMAIN todo', Op(l)' \in {"kill", "names"}, NEW b \in Servers
        PROVE  CutBy(l, Who(l), b)'
    <3>1. PICK w \in Servers : w = Who(l + 1)
      BY <1>3
    <3>2. CutBy(l + 1, w, b) /\ w = Who(l)'
      BY <1>2, <1>3, <2>6, <3>1 DEF KvLinks
    <3>3. CutBy(l, w, b)'
      BY <1>2, <1>7, <3>1, <3>2
    <3> QED
      BY <3>2, <3>3
  <2> QED
    BY <2>5, <2>6 DEF KvLinks
<1>9. Kv!OldInstanceSilenced'
  <2> SUFFICES ASSUME NEW e \in enabled', e[1] \in Kv!Instances
               PROVE  e[1][1] \in kvservers' /\ e[1][2] = gen'[e[1][1]]
    BY DEF Kv!OldInstanceSilenced
  <2>1. CASE e \in enabled
    <3>1. e[1][1] \in kvservers /\ e[1][2] = gen[e[1][1]] /\ e[1][1] \in Servers
      BY <2>1, KvFacts DEF Kv!OldInstanceSilenced
    <3>2. CASE op \in {"kill", "names"}
      <4>1. ASSUME e[1][1] = s PROVE FALSE
        <5>1. e = <<e[1], e[2]>> /\ e[2] \in Servers /\ e[1] = <<e[1][1], e[1][2]>>
          BY <2>1, KvFacts DEF KvTypes
        <5>2. CutBy(1, s, e[2])
          BY <1>1, <1>2, <3>2, <5>1 DEF KvLinks
        <5>3. ~Kv!Link(s, e[2])
          BY <5>2 DEF CutBy
        <5> QED
          BY <2>1, <3>1, <4>1, <5>1, <5>3 DEF Kv!Link
      <4> QED
        BY <1>4, <3>1, <3>2, <4>1 DEF KvStep
    <3>3. CASE op \notin {"kill", "names"}
      BY <1>4, <3>1, <3>3 DEF KvStep
    <3> QED
      BY <3>2, <3>3
  <2>2. CASE e \notin enabled
    <3>1. PICK a, b \in Servers : Joins(1, a, b) /\ e = << <<a, gen[a]>>, b>>
      BY <2>2 DEF KvStep
    <3>2. op = "connect" /\ Runs(1, a)
      BY <1>1, <1>2, <3>1 DEF Joins, Covers, KvUp
    <3>3. a \in kvservers
      BY <3>2 DEF Runs, Before
    <3> QED
      BY <1>4, <3>1, <3>2, <3>3 DEF KvStep
  <2> QED
    BY <2>1, <2>2
<1> QED
  BY <1>8, <1>9

KvSteps == [op : KvOps, i : Servers, to : Seq(Servers)]

\* Step l of a list is op of server s, as a part of the list that starts at o.
IsShutdown(t, o, l, s) ==
  \/ l = o + 4*s + 1 /\ t[l] = Kv!Do("disconnect", s, Kv!All)
  \/ l = o + 4*s + 2 /\ t[l] = Kv!Do("delete", s, <<>>)
  \/ l = o + 4*s + 3 /\ t[l] = Kv!Do("copy", s, <<>>)
  \/ l = o + 4*s + 4 /\ t[l] = Kv!Do("kill", s, <<>>)
IsStart(t, o, l, s) ==
  \/ l = o + 4*s + 1 /\ t[l] = Kv!Do("names", s, <<>>)
  \/ l = o + 4*s + 2 /\ t[l] = Kv!Do("persister", s, <<>>)
  \/ l = o + 4*s + 3 /\ t[l] = Kv!Do("start", s, <<>>)
  \/ l = o + 4*s + 4 /\ t[l] = Kv!Do("add", s, <<>>)
IsConnect(t, o, l, s) == l = o + s + 1 /\ t[l] = Kv!Do("connect", s, Kv!All)

\* All lists the servers, and Do gives a step.
LEMMA StepTypes ==
  /\ Kv!All \in Seq(Servers) /\ Len(Kv!All) = N /\ DOMAIN Kv!All = 1..N
  /\ \A s \in Servers : s + 1 \in 1..N /\ Kv!All[s + 1] = s
  /\ \A op \in KvOps, s \in Servers, to \in Seq(Servers) : Kv!Do(op, s, to) \in KvSteps
  /\ <<>> \in Seq(Servers)
<1>1. N \in Nat \ {0}
  BY KvFacts
<1>2. \A k \in 1..N : k - 1 \in Servers
  BY <1>1 DEF Servers
<1>3. Kv!All \in Seq(Servers) /\ Len(Kv!All) = N /\ DOMAIN Kv!All = 1..N
  BY <1>1, <1>2 DEF Kv!All
<1>4. \A s \in Servers : s + 1 \in 1..N /\ Kv!All[s + 1] = s
  BY <1>1 DEF Kv!All, Servers
<1>5. \A op \in KvOps, s \in Servers, to \in Seq(Servers) : Kv!Do(op, s, to) \in KvSteps
  BY DEF Kv!Do, KvSteps
<1> QED
  BY <1>3, <1>4, <1>5

\* The loop of ConnectAll: its l-th step connects server l-1.
LEMMA ConnectSteps ==
  /\ Kv!ConnectAll \in Seq(KvSteps) /\ Len(Kv!ConnectAll) = N
  /\ \A l \in 1..N : \E s \in Servers : IsConnect(Kv!ConnectAll, 0, l, s)
  /\ \A s \in Servers : s + 1 \in 1..N /\ Kv!ConnectAll[s + 1] = Kv!Do("connect", s, Kv!All)
<1>1. N \in Nat \ {0}
  BY KvFacts
<1>2. \A k \in 1..N : Kv!All[k] = k - 1 /\ k - 1 \in Servers /\ k = 0 + (k - 1) + 1
  BY <1>1 DEF Kv!All, Servers
<1>3. \A k \in 1..N : Kv!ConnectAll[k] = Kv!Do("connect", k - 1, Kv!All)
  BY <1>2 DEF Kv!ConnectAll
<1>4. \A k \in 1..N : Kv!ConnectAll[k] \in KvSteps
  BY <1>2, <1>3, StepTypes DEF KvOps
<1>5. Kv!ConnectAll \in Seq(KvSteps) /\ Len(Kv!ConnectAll) = N
  BY <1>1, <1>4 DEF Kv!ConnectAll
<1>6. \A s \in Servers : s + 1 \in 1..N /\ (s + 1) - 1 = s
  BY <1>1 DEF Servers
<1> QED
  BY <1>2, <1>3, <1>5, <1>6 DEF IsConnect

\* The loop of ShutdownServer over all servers: which step stands where.
LEMMA ShutdownSteps ==
  /\ Kv!ShutdownAll \in Seq(KvSteps) /\ Len(Kv!ShutdownAll) = 4 * N
  /\ \A l \in 1..4*N : \E s \in Servers : IsShutdown(Kv!ShutdownAll, 0, l, s)
  /\ \A s \in Servers : /\ 4*s + 1 \in 1..4*N /\ 4*s + 2 \in 1..4*N /\ 4*s + 3 \in 1..4*N /\ 4*s + 4 \in 1..4*N
                        /\ Kv!ShutdownAll[4*s + 1] = Kv!Do("disconnect", s, Kv!All)
                        /\ Kv!ShutdownAll[4*s + 2] = Kv!Do("delete", s, <<>>)
                        /\ Kv!ShutdownAll[4*s + 3] = Kv!Do("copy", s, <<>>)
                        /\ Kv!ShutdownAll[4*s + 4] = Kv!Do("kill", s, <<>>)
<1>1. N \in Nat \ {0}
  BY KvFacts
<1>2. \A l \in 1..4*N :
        Kv!ShutdownAll[l] = Kv!ShutdownServer((l - 1) \div 4)[((l - 1) % 4) + 1]
  BY <1>1 DEF Kv!ShutdownAll
<1>3. \A s \in Servers : /\ 4*s + 1 \in 1..4*N /\ 4*s + 2 \in 1..4*N /\ 4*s + 3 \in 1..4*N /\ 4*s + 4 \in 1..4*N
                         /\ Kv!ShutdownAll[4*s + 1] = Kv!Do("disconnect", s, Kv!All)
                         /\ Kv!ShutdownAll[4*s + 2] = Kv!Do("delete", s, <<>>)
                         /\ Kv!ShutdownAll[4*s + 3] = Kv!Do("copy", s, <<>>)
                         /\ Kv!ShutdownAll[4*s + 4] = Kv!Do("kill", s, <<>>)
  <2> SUFFICES ASSUME NEW s \in Servers
               PROVE /\ 4*s + 1 \in 1..4*N /\ 4*s + 2 \in 1..4*N /\ 4*s + 3 \in 1..4*N /\ 4*s + 4 \in 1..4*N
                         /\ Kv!ShutdownAll[4*s + 1] = Kv!Do("disconnect", s, Kv!All)
                         /\ Kv!ShutdownAll[4*s + 2] = Kv!Do("delete", s, <<>>)
                         /\ Kv!ShutdownAll[4*s + 3] = Kv!Do("copy", s, <<>>)
                         /\ Kv!ShutdownAll[4*s + 4] = Kv!Do("kill", s, <<>>)
    OBVIOUS
  <2>1. s \in Nat /\ 4*s + 1 \in 1..4*N /\ 4*s + 2 \in 1..4*N /\ 4*s + 3 \in 1..4*N /\ 4*s + 4 \in 1..4*N
    BY <1>1 DEF Servers
  <2>2. /\ ((4*s + 1) - 1) \div 4 = s /\ ((4*s + 1) - 1) % 4 = 0
        /\ ((4*s + 2) - 1) \div 4 = s /\ ((4*s + 2) - 1) % 4 = 1
        /\ ((4*s + 3) - 1) \div 4 = s /\ ((4*s + 3) - 1) % 4 = 2
        /\ ((4*s + 4) - 1) \div 4 = s /\ ((4*s + 4) - 1) % 4 = 3
    BY <2>1
  <2>3. Kv!ShutdownAll[4*s + 1] = Kv!ShutdownServer(s)[0 + 1]
    BY <1>2, <2>1, <2>2
  <2>4. Kv!ShutdownAll[4*s + 2] = Kv!ShutdownServer(s)[1 + 1]
    BY <1>2, <2>1, <2>2
  <2>5. Kv!ShutdownAll[4*s + 3] = Kv!ShutdownServer(s)[2 + 1]
    BY <1>2, <2>1, <2>2
  <2>6. Kv!ShutdownAll[4*s + 4] = Kv!ShutdownServer(s)[3 + 1]
    BY <1>2, <2>1, <2>2
  <2> QED
    BY <2>1, <2>3, <2>4, <2>5, <2>6 DEF Kv!ShutdownServer
<1>4. \A l \in 1..4*N : \E s \in Servers : IsShutdown(Kv!ShutdownAll, 0, l, s)
  <2> SUFFICES ASSUME NEW l \in 1..4*N PROVE \E s \in Servers : IsShutdown(Kv!ShutdownAll, 0, l, s)
    OBVIOUS
  <2>1. PICK s \in Servers : l = 4*s + 1 \/ l = 4*s + 2 \/ l = 4*s + 3 \/ l = 4*s + 4
    <3>1. (l - 1) \div 4 \in 0..N-1
      BY <1>1
    <3> QED
      BY <1>1, <3>1 DEF Servers
  <2>2. s \in Nat
    BY DEF Servers
  <2> QED
    BY <1>3, <2>1, <2>2 DEF IsShutdown
<1>5. \A l \in 1..4*N : Kv!ShutdownAll[l] \in KvSteps
  <2> SUFFICES ASSUME NEW l \in 1..4*N PROVE Kv!ShutdownAll[l] \in KvSteps
    OBVIOUS
  <2>1. PICK s \in Servers : IsShutdown(Kv!ShutdownAll, 0, l, s)
    BY <1>4
  <2>2. {"disconnect", "delete", "copy", "kill"} \subseteq KvOps
    BY DEF KvOps
  <2>3. /\ Kv!Do("disconnect", s, Kv!All) \in KvSteps /\ Kv!Do("delete", s, <<>>) \in KvSteps
        /\ Kv!Do("copy", s, <<>>) \in KvSteps /\ Kv!Do("kill", s, <<>>) \in KvSteps
    BY <2>2, StepTypes
  <2> QED
    BY <2>1, <2>3 DEF IsShutdown
<1>6. Kv!ShutdownAll \in Seq(KvSteps) /\ Len(Kv!ShutdownAll) = 4 * N
  BY <1>1, <1>5 DEF Kv!ShutdownAll
<1> QED
  BY <1>3, <1>4, <1>6

\* The loop of StartServer over all servers: which step stands where.
LEMMA StartSteps ==
  /\ Kv!StartAll \in Seq(KvSteps) /\ Len(Kv!StartAll) = 4 * N
  /\ \A l \in 1..4*N : \E s \in Servers : IsStart(Kv!StartAll, 0, l, s)
  /\ \A s \in Servers : /\ 4*s + 1 \in 1..4*N /\ 4*s + 2 \in 1..4*N /\ 4*s + 3 \in 1..4*N /\ 4*s + 4 \in 1..4*N
                        /\ Kv!StartAll[4*s + 1] = Kv!Do("names", s, <<>>)
                        /\ Kv!StartAll[4*s + 2] = Kv!Do("persister", s, <<>>)
                        /\ Kv!StartAll[4*s + 3] = Kv!Do("start", s, <<>>)
                        /\ Kv!StartAll[4*s + 4] = Kv!Do("add", s, <<>>)
<1>1. N \in Nat \ {0}
  BY KvFacts
<1>2. \A l \in 1..4*N :
        Kv!StartAll[l] = Kv!StartServer((l - 1) \div 4)[((l - 1) % 4) + 1]
  BY <1>1 DEF Kv!StartAll
<1>3. \A s \in Servers : /\ 4*s + 1 \in 1..4*N /\ 4*s + 2 \in 1..4*N /\ 4*s + 3 \in 1..4*N /\ 4*s + 4 \in 1..4*N
                         /\ Kv!StartAll[4*s + 1] = Kv!Do("names", s, <<>>)
                         /\ Kv!StartAll[4*s + 2] = Kv!Do("persister", s, <<>>)
                         /\ Kv!StartAll[4*s + 3] = Kv!Do("start", s, <<>>)
                         /\ Kv!StartAll[4*s + 4] = Kv!Do("add", s, <<>>)
  <2> SUFFICES ASSUME NEW s \in Servers
               PROVE /\ 4*s + 1 \in 1..4*N /\ 4*s + 2 \in 1..4*N /\ 4*s + 3 \in 1..4*N /\ 4*s + 4 \in 1..4*N
                         /\ Kv!StartAll[4*s + 1] = Kv!Do("names", s, <<>>)
                         /\ Kv!StartAll[4*s + 2] = Kv!Do("persister", s, <<>>)
                         /\ Kv!StartAll[4*s + 3] = Kv!Do("start", s, <<>>)
                         /\ Kv!StartAll[4*s + 4] = Kv!Do("add", s, <<>>)
    OBVIOUS
  <2>1. s \in Nat /\ 4*s + 1 \in 1..4*N /\ 4*s + 2 \in 1..4*N /\ 4*s + 3 \in 1..4*N /\ 4*s + 4 \in 1..4*N
    BY <1>1 DEF Servers
  <2>2. /\ ((4*s + 1) - 1) \div 4 = s /\ ((4*s + 1) - 1) % 4 = 0
        /\ ((4*s + 2) - 1) \div 4 = s /\ ((4*s + 2) - 1) % 4 = 1
        /\ ((4*s + 3) - 1) \div 4 = s /\ ((4*s + 3) - 1) % 4 = 2
        /\ ((4*s + 4) - 1) \div 4 = s /\ ((4*s + 4) - 1) % 4 = 3
    BY <2>1
  <2>3. Kv!StartAll[4*s + 1] = Kv!StartServer(s)[0 + 1]
    BY <1>2, <2>1, <2>2
  <2>4. Kv!StartAll[4*s + 2] = Kv!StartServer(s)[1 + 1]
    BY <1>2, <2>1, <2>2
  <2>5. Kv!StartAll[4*s + 3] = Kv!StartServer(s)[2 + 1]
    BY <1>2, <2>1, <2>2
  <2>6. Kv!StartAll[4*s + 4] = Kv!StartServer(s)[3 + 1]
    BY <1>2, <2>1, <2>2
  <2> QED
    BY <2>1, <2>3, <2>4, <2>5, <2>6 DEF Kv!StartServer
<1>4. \A l \in 1..4*N : \E s \in Servers : IsStart(Kv!StartAll, 0, l, s)
  <2> SUFFICES ASSUME NEW l \in 1..4*N PROVE \E s \in Servers : IsStart(Kv!StartAll, 0, l, s)
    OBVIOUS
  <2>1. PICK s \in Servers : l = 4*s + 1 \/ l = 4*s + 2 \/ l = 4*s + 3 \/ l = 4*s + 4
    <3>1. (l - 1) \div 4 \in 0..N-1
      BY <1>1
    <3> QED
      BY <1>1, <3>1 DEF Servers
  <2>2. s \in Nat
    BY DEF Servers
  <2> QED
    BY <1>3, <2>1, <2>2 DEF IsStart
<1>5. \A l \in 1..4*N : Kv!StartAll[l] \in KvSteps
  <2> SUFFICES ASSUME NEW l \in 1..4*N PROVE Kv!StartAll[l] \in KvSteps
    OBVIOUS
  <2>1. PICK s \in Servers : IsStart(Kv!StartAll, 0, l, s)
    BY <1>4
  <2>2. {"names", "persister", "start", "add"} \subseteq KvOps
    BY DEF KvOps
  <2>3. /\ Kv!Do("names", s, <<>>) \in KvSteps /\ Kv!Do("persister", s, <<>>) \in KvSteps
        /\ Kv!Do("start", s, <<>>) \in KvSteps /\ Kv!Do("add", s, <<>>) \in KvSteps
    BY <2>2, StepTypes
  <2> QED
    BY <2>1, <2>3 DEF IsStart
<1>6. Kv!StartAll \in Seq(KvSteps) /\ Len(Kv!StartAll) = 4 * N
  BY <1>1, <1>5 DEF Kv!StartAll
<1> QED
  BY <1>3, <1>4, <1>6

Restarts == Kv!ConnectAll \o Kv!ShutdownAll \o Kv!StartAll \o Kv!ConnectAll

\* The steps of make_config and of Restart, and where they are.
IsConfig(t, l, s) == IsStart(t, 0, l, s) \/ IsConnect(t, 4*N, l, s)
IsRestart(t, l, s) == \/ IsConnect(t, 0, l, s) \/ IsShutdown(t, N, l, s)
                      \/ IsStart(t, 5*N, l, s) \/ IsConnect(t, 9*N, l, s)
Starting(t, o, s) ==
  /\ t[o + 4*s + 1] = Kv!Do("names", s, <<>>) /\ t[o + 4*s + 2] = Kv!Do("persister", s, <<>>)
  /\ t[o + 4*s + 3] = Kv!Do("start", s, <<>>) /\ t[o + 4*s + 4] = Kv!Do("add", s, <<>>)

\* The steps of make_config: those of StartAll, then those of ConnectAll.
LEMMA ConfigSteps ==
  /\ Kv!make_config \in Seq(KvSteps) /\ Len(Kv!make_config) = 5*N
  /\ \A l \in 1..5*N : \E s \in Servers : IsConfig(Kv!make_config, l, s)
  /\ \A s \in Servers : /\ Starting(Kv!make_config, 0, s)
                        /\ Kv!make_config[4*N + s + 1] = Kv!Do("connect", s, Kv!All)
<1>1. N \in Nat \ {0} /\ \A s \in Servers : s \in 0..N-1
  BY KvFacts DEF Servers
<1>2. PICK t, u, m : t = Kv!StartAll /\ u = Kv!ConnectAll /\ m = Kv!make_config
  OBVIOUS
<1>3. m = t \o u /\ t \in Seq(KvSteps) /\ u \in Seq(KvSteps) /\ Len(t) = 4*N /\ Len(u) = N
  BY <1>2, StartSteps, ConnectSteps DEF Kv!make_config
<1>4. /\ m \in Seq(KvSteps) /\ Len(m) = 5*N
      /\ \A l \in 1..4*N : m[l] = t[l]
      /\ \A l \in 1..N : m[4*N + l] = u[l]
  <2>1. 4*N \in Nat /\ 4*N + N = 5*N
    BY <1>1
  <2>2. /\ t \o u \in Seq(KvSteps) /\ Len(t \o u) = 4*N + N
        /\ \A l \in 1..4*N : (t \o u)[l] = t[l]
        /\ \A l \in 1..N : (t \o u)[4*N + l] = u[l]
    <3>1. N \in Nat /\ 4*N \in Nat
      BY <1>1
    <3>2. t \in Seq(KvSteps) /\ u \in Seq(KvSteps) /\ Len(t) = 4*N /\ Len(u) = N
      BY <1>3
    <3> QED
      BY <3>1, <3>2
  <2> QED
    BY <1>3, <2>1, <2>2
<1>5. ASSUME NEW l \in 1..5*N PROVE \E s \in Servers : IsConfig(m, l, s)
  <2>1. CASE l <= 4*N
    <3>1. l \in 1..4*N
      BY <1>1, <2>1
    <3>2. PICK s \in Servers : IsStart(t, 0, l, s)
      BY <1>2, <3>1, StartSteps
    <3> QED
      BY <1>4, <3>1, <3>2 DEF IsConfig, IsStart
  <2>2. CASE l > 4*N
    <3>1. PICK k \in 1..N : l = 4*N + k
      <4>1. l - 4*N \in 1..N /\ l = 4*N + (l - 4*N)
        BY <1>1, <2>2
      <4> QED
        BY <4>1
    <3>2. PICK s \in Servers : IsConnect(u, 0, k, s)
      BY <1>2, ConnectSteps
    <3> QED
      BY <1>1, <1>4, <3>1, <3>2 DEF IsConfig, IsConnect
  <2> QED
    BY <1>1, <2>1, <2>2
<1>6. ASSUME NEW s \in Servers PROVE Starting(m, 0, s) /\ m[4*N + s + 1] = Kv!Do("connect", s, Kv!All)
  <2>1. s + 1 \in 1..N /\ 4*N + (s + 1) = 4*N + s + 1 /\ u[s + 1] = Kv!Do("connect", s, Kv!All)
    BY <1>1, <1>2, ConnectSteps
  <2>2. m[4*N + s + 1] = Kv!Do("connect", s, Kv!All)
    BY <1>4, <2>1
  <2>3. /\ 0 + 4*s + 1 = 4*s + 1 /\ 0 + 4*s + 2 = 4*s + 2 /\ 0 + 4*s + 3 = 4*s + 3 /\ 0 + 4*s + 4 = 4*s + 4
    BY <1>1
  <2> QED
    BY <1>2, <1>4, <2>2, <2>3, StartSteps DEF Starting
<1> QED
  BY <1>2, <1>4, <1>5, <1>6

\* The steps of a restart, in its four loops.
LEMMA RestartSteps ==
  /\ Restarts \in Seq(KvSteps) /\ Len(Restarts) = 10*N
  /\ \A l \in 1..10*N : \E s \in Servers : IsRestart(Restarts, l, s)
  /\ \A s \in Servers : /\ Restarts[N + 4*s + 1] = Kv!Do("disconnect", s, Kv!All)
                        /\ Restarts[N + 4*s + 2] = Kv!Do("delete", s, <<>>)
                        /\ Restarts[N + 4*s + 3] = Kv!Do("copy", s, <<>>)
                        /\ Starting(Restarts, 5*N, s)
                        /\ Restarts[9*N + s + 1] = Kv!Do("connect", s, Kv!All)
<1>1. N \in Nat \ {0} /\ \A s \in Servers : s \in 0..N-1
  BY KvFacts DEF Servers
<1>2. PICK t, d, u, m : t = Kv!StartAll /\ d = Kv!ShutdownAll /\ u = Kv!ConnectAll /\ m = Restarts
  OBVIOUS
<1>3. /\ m = ((u \o d) \o t) \o u
      /\ t \in Seq(KvSteps) /\ u \in Seq(KvSteps) /\ d \in Seq(KvSteps)
      /\ Len(t) = 4*N /\ Len(u) = N /\ Len(d) = 4*N
  BY <1>2, StartSteps, ShutdownSteps, ConnectSteps DEF Restarts
<1>4. /\ m \in Seq(KvSteps) /\ Len(m) = 10*N
      /\ \A l \in 1..N : m[l] = u[l]
      /\ \A l \in 1..4*N : m[N + l] = d[l]
      /\ \A l \in 1..4*N : m[5*N + l] = t[l]
      /\ \A l \in 1..N : m[9*N + l] = u[l]
  <2>0. /\ 4*N \in Nat /\ 5*N \in Nat /\ 9*N \in Nat /\ N \in Nat
        /\ N + 4*N = 5*N /\ 5*N + 4*N = 9*N /\ 9*N + N = 10*N
    BY <1>1
  <2>1. PICK v : v = u \o d
    OBVIOUS
  <2>2. /\ v \in Seq(KvSteps) /\ Len(v) = 5*N
        /\ \A l \in 1..N : v[l] = u[l]
        /\ \A l \in 1..4*N : v[N + l] = d[l]
    <3>1. u \in Seq(KvSteps) /\ Len(u) = N /\ d \in Seq(KvSteps) /\ Len(d) = 4*N
      BY <1>3
    <3>8. N \in Nat /\ 4*N \in Nat /\ 5*N \in Nat /\ 9*N \in Nat
      BY <2>0
    <3>9. /\ u \o d \in Seq(KvSteps) /\ Len(u \o d) = N + 4*N
          /\ \A l \in 1..N : (u \o d)[l] = u[l]
          /\ \A l \in 1..4*N : (u \o d)[N + l] = d[l]
      BY <3>1, <3>8
    <3> QED
      BY <2>0, <2>1, <3>9
  <2>3. PICK w : w = v \o t
    OBVIOUS
  <2>4. /\ w \in Seq(KvSteps) /\ Len(w) = 9*N
        /\ \A l \in 1..5*N : w[l] = v[l]
        /\ \A l \in 1..4*N : w[5*N + l] = t[l]
    <3>1. t \in Seq(KvSteps) /\ Len(t) = 4*N /\ v \in Seq(KvSteps) /\ Len(v) = 5*N
      BY <1>3, <2>2
    <3>8. N \in Nat /\ 4*N \in Nat /\ 5*N \in Nat /\ 9*N \in Nat
      BY <2>0
    <3>9. /\ v \o t \in Seq(KvSteps) /\ Len(v \o t) = 5*N + 4*N
          /\ \A l \in 1..5*N : (v \o t)[l] = v[l]
          /\ \A l \in 1..4*N : (v \o t)[5*N + l] = t[l]
      <4>1. PICK a, b \in Nat : a = 5*N /\ b = 4*N
        BY <3>8
      <4>2. a = Len(v) /\ b = Len(t) /\ v \in Seq(KvSteps) /\ t \in Seq(KvSteps)
        BY <3>1, <4>1
      <4>3. /\ v \o t \in Seq(KvSteps) /\ Len(v \o t) = a + b
            /\ \A l \in 1..a : (v \o t)[l] = v[l]
            /\ \A l \in 1..b : (v \o t)[a + l] = t[l]
        BY <4>2
      <4> QED
        BY <4>1, <4>3
    <3> QED
      BY <2>0, <2>3, <3>9
  <2>5. /\ m \in Seq(KvSteps) /\ Len(m) = 10*N
        /\ \A l \in 1..9*N : m[l] = w[l]
        /\ \A l \in 1..N : m[9*N + l] = u[l]
    <3>1. m = w \o u
      BY <1>3, <2>1, <2>3
    <3>2. w \in Seq(KvSteps) /\ Len(w) = 9*N /\ u \in Seq(KvSteps) /\ Len(u) = N
      BY <1>3, <2>4
    <3>8. N \in Nat /\ 4*N \in Nat /\ 5*N \in Nat /\ 9*N \in Nat
      BY <2>0
    <3>9. /\ w \o u \in Seq(KvSteps) /\ Len(w \o u) = 9*N + N
          /\ \A l \in 1..9*N : (w \o u)[l] = w[l]
          /\ \A l \in 1..N : (w \o u)[9*N + l] = u[l]
      <4>1. PICK a, b \in Nat : a = 9*N /\ b = N
        BY <3>8
      <4>2. a = Len(w) /\ b = Len(u) /\ w \in Seq(KvSteps) /\ u \in Seq(KvSteps)
        BY <3>2, <4>1
      <4>3. /\ w \o u \in Seq(KvSteps) /\ Len(w \o u) = a + b
            /\ \A l \in 1..a : (w \o u)[l] = w[l]
            /\ \A l \in 1..b : (w \o u)[a + l] = u[l]
        BY <4>2
      <4> QED
        BY <4>1, <4>3
    <3> QED
      BY <2>0, <3>1, <3>9
  <2>6. /\ \A l \in 1..N : l \in 1..5*N /\ l \in 1..9*N
        /\ \A l \in 1..4*N : N + l \in 1..5*N /\ N + l \in 1..9*N /\ 5*N + l \in 1..9*N
    BY <1>1
  <2> QED
    BY <2>2, <2>4, <2>5, <2>6
<1>5. ASSUME NEW l \in 1..10*N PROVE \E s \in Servers : IsRestart(m, l, s)
  <2>1. \/ l \in 1..N
        \/ l - N \in 1..4*N /\ l = N + (l - N)
        \/ l - 5*N \in 1..4*N /\ l = 5*N + (l - 5*N)
        \/ l - 9*N \in 1..N /\ l = 9*N + (l - 9*N)
    BY <1>1
  <2>2. CASE l \in 1..N
    <3>1. PICK s \in Servers : IsConnect(u, 0, l, s)
      BY <1>2, <2>2, ConnectSteps
    <3> QED
      BY <1>4, <2>2, <3>1 DEF IsRestart, IsConnect
  <2>3. ASSUME NEW k \in 1..4*N, l = N + k PROVE \E s \in Servers : IsRestart(m, l, s)
    <3>1. PICK s \in Servers : IsShutdown(d, 0, k, s)
      BY <1>2, ShutdownSteps
    <3>2. IsShutdown(m, N, l, s)
      <4>1. m[l] = d[k] /\ s \in Nat /\ k \in Nat
        BY <1>1, <1>4, <2>3
      <4> QED
        BY <1>1, <2>3, <3>1, <4>1 DEF IsShutdown
    <3> QED
      BY <3>2 DEF IsRestart
  <2>4. ASSUME NEW k \in 1..4*N, l = 5*N + k PROVE \E s \in Servers : IsRestart(m, l, s)
    <3>1. PICK s \in Servers : IsStart(t, 0, k, s)
      BY <1>2, StartSteps
    <3>2. IsStart(m, 5*N, l, s)
      <4>1. m[l] = t[k] /\ s \in Nat /\ k \in Nat
        BY <1>1, <1>4, <2>4
      <4> QED
        BY <1>1, <2>4, <3>1, <4>1 DEF IsStart
    <3> QED
      BY <3>2 DEF IsRestart
  <2>5. ASSUME NEW k \in 1..N, l = 9*N + k PROVE \E s \in Servers : IsRestart(m, l, s)
    <3>1. PICK s \in Servers : IsConnect(u, 0, k, s)
      BY <1>2, ConnectSteps
    <3>2. IsConnect(m, 9*N, l, s)
      <4>1. m[l] = u[k] /\ s \in Nat /\ k \in Nat
        BY <1>1, <1>4, <2>5
      <4> QED
        BY <1>1, <2>5, <3>1, <4>1 DEF IsConnect
    <3> QED
      BY <3>2 DEF IsRestart
  <2> QED
    BY <2>1, <2>2, <2>3, <2>4, <2>5
<1>6. ASSUME NEW s \in Servers
      PROVE  /\ m[N + 4*s + 1] = Kv!Do("disconnect", s, Kv!All)
             /\ m[N + 4*s + 2] = Kv!Do("delete", s, <<>>)
             /\ m[N + 4*s + 3] = Kv!Do("copy", s, <<>>)
             /\ Starting(m, 5*N, s)
             /\ m[9*N + s + 1] = Kv!Do("connect", s, Kv!All)
  <2>1. s + 1 \in 1..N /\ 9*N + (s + 1) = 9*N + s + 1 /\ u[s + 1] = Kv!Do("connect", s, Kv!All)
    BY <1>1, <1>2, ConnectSteps
  <2>2. m[9*N + s + 1] = Kv!Do("connect", s, Kv!All)
    BY <1>4, <2>1
  <2>5. ASSUME NEW j \in 1..4 PROVE m[N + 4*s + j] = d[4*s + j] /\ m[5*N + 4*s + j] = t[4*s + j]
    <3>1. PICK k : k = 4*s + j
      OBVIOUS
    <3>2. k \in 1..4*N /\ N + 4*s + j = N + k /\ 5*N + 4*s + j = 5*N + k
      BY <1>1, <3>1
    <3> QED
      BY <1>4, <3>1, <3>2
  <2>6. /\ m[N + 4*s + 1] = d[4*s + 1] /\ m[N + 4*s + 2] = d[4*s + 2]
        /\ m[N + 4*s + 3] = d[4*s + 3]
        /\ m[5*N + 4*s + 1] = t[4*s + 1] /\ m[5*N + 4*s + 2] = t[4*s + 2]
        /\ m[5*N + 4*s + 3] = t[4*s + 3] /\ m[5*N + 4*s + 4] = t[4*s + 4]
    BY <2>5
  <2> QED
    BY <1>2, <2>2, <2>6, StartSteps, ShutdownSteps DEF Starting
<1> QED
  BY <1>2, <1>4, <1>5, <1>6

\* The tester starts a new procedure.
NewList(T, S) ==
  /\ todo' = T /\ sides' = S /\ T \in Seq(KvSteps) /\ S \in Seq(Servers) \X Seq(Servers)
  /\ \A l \in DOMAIN T : Len(T[l].to) <= N /\ (T[l].op = "look" => Len(T) = 1)
  /\ UNCHANGED <<servers, disk, saved, enabled, gen, kvservers, clerks>>

\* The types after a procedure has begun.
LEMMA ListTypes ==
  ASSUME KvTypes, NEW T, NEW S, NewList(T, S)
  PROVE  /\ KvTypes' /\ DOMAIN T = 1..Len(T) /\ Len(T) \in Nat
         /\ \A l \in DOMAIN T : Op(l)' = T[l].op /\ Who(l)' = T[l].i /\ T[l] \in KvSteps
<1>1. DOMAIN T = 1..Len(T) /\ Len(T) \in Nat /\ \A l \in DOMAIN T : T[l] \in KvSteps
  BY DEF NewList
<1>2. todo' \in Seq([op : KvOps, i : Servers, to : Seq(Servers)])
  BY DEF NewList, KvSteps
<1>3. \A l \in DOMAIN T : Op(l)' = T[l].op /\ Who(l)' = T[l].i
  BY DEF NewList, Op, Who
<1>4. KvTypes'
  BY <1>2, <1>3 DEF NewList, KvTypes
<1> QED
  BY <1>1, <1>3, <1>4

\* Between procedures, and in Leader's loop, all servers are up.
KvIdle ==
  /\ \A s \in Servers : gen[s] # 0
  /\ kvservers = Servers
  /\ \A a, b \in Servers : Kv!Link(a, b) <=> Kv!Together(a, b)

\* Between procedures, and while Leader looks for the leader, all servers
\* run and the links are those of the last partition.
LEMMA IdleWhenDone ==
  ASSUME KvTypes, KvNamed, KvUp, KvLinks, todo = <<>> \/ (todo # <<>> /\ Op(1) = "look")
  PROVE  KvIdle
<1>1. DOMAIN todo = 1..Len(todo) /\ Len(todo) \in Nat /\ (todo # <<>> => 1 \in DOMAIN todo)
      /\ (todo = <<>> => Len(todo) = 0)
  <2>1. todo \in Seq(KvSteps)
    BY DEF KvTypes, KvSteps
  <2> QED
    BY <2>1
<1>2. Len(todo) = 0 \/ (Len(todo) = 1 /\ Op(1) = "look")
  <2>1. \A l \in DOMAIN todo : Op(l) = "look" => Len(todo) = 1
    BY DEF KvTypes
  <2> QED
    BY <1>1, <2>1
<1>3. \A l \in 1..Len(todo) : Op(l) = "look"
  <2>1. \A l \in 1..1 : l = 1
    OBVIOUS
  <2>2. \A l \in 1..0 : FALSE
    OBVIOUS
  <2> QED
    BY <1>2, <2>1, <2>2
<1>4. \A l \in 1..(Len(todo) + 1)-1 : Op(l) = "look"
  BY <1>1, <1>3
<1>5. \A s \in Servers : gen[s] # 0
  BY <1>1, <1>3 DEF KvNamed
<1>6. kvservers = Servers
  BY <1>4 DEF KvUp, Runs, Before, KvTypes
<1>7. \A a, b \in Servers : Kv!Link(a, b) <=> Kv!Together(a, b)
  <2>1. \A l \in 1..(Len(todo) + 1)-1 : \A a, b : ~Joins(l, a, b) /\ ~Cuts(l, a, b)
    BY <1>4 DEF Joins, Cuts
  <2> QED
    BY <2>1 DEF KvLinks, JoinedBy, CutBy
<1> QED
  BY <1>5, <1>6, <1>7 DEF KvIdle

\* A procedure that only changes links.
LEMMA LinkList ==
  ASSUME KvInv, KvIdle, NEW T, NEW S, NewList(T, S),
         \A l \in DOMAIN T : T[l].op \in {"connect", "disconnect", "look"},
         (\A a, b \in Servers : IF Kv!Together(a, b) THEN JoinedBy(Len(todo) + 1, a, b)
                                                      ELSE CutBy(Len(todo) + 1, a, b))'
  PROVE  /\ KvTypes' /\ InOrder' /\ KvStage' /\ KvNamed' /\ KvUp' /\ KvLinks'
         /\ Kv!OldInstanceSilenced'
<1>1. /\ KvTypes' /\ DOMAIN T = 1..Len(T) /\ Len(T) \in Nat
      /\ \A l \in DOMAIN T : Op(l)' = T[l].op /\ Who(l)' = T[l].i /\ T[l] \in KvSteps
  BY ListTypes DEF KvInv
<1>2. DOMAIN todo' = DOMAIN T /\ Len(todo') = Len(T) /\ todo' = T
  BY DEF NewList
<1>3. \A l \in DOMAIN todo' : Rank(Op(l)') = 0 /\ Op(l)' \in {"connect", "disconnect", "look"}
  BY <1>1, <1>2, Ranks
<1>4. InOrder'
  BY <1>3 DEF InOrder
<1>5. KvStage'
  <2>1. \A l \in DOMAIN todo' : ~(Rank(Op(l)') > 1) /\ Op(l)' \notin {"names", "start", "add"}
    BY <1>3
  <2>2. \A s \in Servers, g \in Starts : disk'[<<s, g>>] # 0 => g <= gen'[s]
    BY DEF KvStage, KvInv, NewList
  <2> QED
    BY <2>1, <2>2 DEF KvStage
<1>6. KvNamed'
  BY DEF KvNamed, KvIdle, NewList
<1>7. \A l \in 1..Len(T) + 1, s \in Servers : Runs(l, s)'
  <2> SUFFICES ASSUME NEW l \in 1..Len(T) + 1, NEW s \in Servers PROVE Runs(l, s)'
    OBVIOUS
  <2>1. \A k \in 1..l-1 : k \in DOMAIN todo'
    BY <1>1, <1>2
  <2>2. ~Before(l, "kill", s)'
    BY <1>3, <2>1 DEF Before
  <2> QED
    BY <2>2 DEF Runs, KvIdle, NewList
<1>8. KvUp'
  <2>1. (\A s \in Servers : Runs(Len(todo) + 1, s))'
    BY <1>1, <1>2, <1>7
  <2>2. \A s \in kvservers' : gen'[s] # 0
    BY DEF KvIdle, NewList
  <2>3. ASSUME NEW l \in DOMAIN todo', Op(l)' = "connect"
        PROVE  (Runs(l, Who(l)) /\ \A k \in DOMAIN todo[l].to : Runs(l, todo[l].to[k]))'
    <3>1. l \in 1..Len(T) + 1
      BY <1>1, <1>2
    <3>2. Who(l)' \in Servers /\ todo'[l].to \in Seq(Servers)
      BY <1>1, <1>2 DEF KvSteps
    <3>3. \A k \in DOMAIN todo'[l].to : todo'[l].to[k] \in Servers
      BY <3>2
    <3> QED
      BY <1>7, <3>1, <3>2, <3>3
  <2> QED
    BY <2>1, <2>2, <2>3 DEF KvUp
<1>9. KvLinks'
  BY <1>3 DEF KvLinks
<1>10. Kv!OldInstanceSilenced'
  BY DEF KvInv, NewList, Kv!OldInstanceSilenced
<1> QED
  BY <1>1, <1>4, <1>5, <1>6, <1>8, <1>9, <1>10

\* ConnectAll between procedures: everyone will reach everyone.
LEMMA HealKeeps ==
  ASSUME KvInv, KvIdle, NewList(Kv!ConnectAll, <<Kv!All, <<>>>>)
  PROVE  /\ KvTypes' /\ InOrder' /\ KvStage' /\ KvNamed' /\ KvUp' /\ KvLinks'
         /\ Kv!OldInstanceSilenced'
<1>1. PICK T : T = Kv!ConnectAll
  OBVIOUS
<1>2. /\ N \in Nat \ {0} /\ Len(T) = N /\ DOMAIN T = 1..N /\ todo' = T
      /\ \A l \in 1..N : \E s \in Servers : IsConnect(T, 0, l, s)
      /\ \A s \in Servers : s + 1 \in 1..N /\ T[s + 1] = Kv!Do("connect", s, Kv!All)
  BY <1>1, KvFacts, ConnectSteps DEF NewList
<1>3. \A l \in 1..N : T[l].op = "connect"
  BY <1>2 DEF IsConnect, Kv!Do
<1>4. ASSUME NEW a \in Servers, NEW b \in Servers PROVE JoinedBy(Len(todo) + 1, a, b)'
  <2>1. Joins(a + 1, a, b)'
    <3>1. T[a + 1].op = "connect" /\ T[a + 1].i = a /\ T[a + 1].to = Kv!All
      <4>1. T[a + 1] = [op |-> "connect", i |-> a, to |-> Kv!All]
        BY <1>2 DEF Kv!Do
      <4> QED
        BY <4>1
    <3>2. b + 1 \in DOMAIN Kv!All /\ Kv!All[b + 1] = b
      BY StepTypes
    <3> QED
      BY <1>2, <3>1, <3>2 DEF Joins, Covers, Op, Who
  <2>2. \A m \in 1..N : ~Cuts(m, a, b)'
    BY <1>2, <1>3 DEF Cuts, Op
  <2>3. Len(todo') + 1 = N + 1
    BY <1>2
  <2>4. a + 1 \in 1..(N + 1)-1 /\ \A m \in (a+1)+1..(N + 1)-1 : m \in 1..N
    <3>1. N \in Nat /\ a \in 0..N-1
      BY <1>2 DEF Servers
    <3> QED
      BY <3>1
  <2> QED
    BY <2>1, <2>2, <2>3, <2>4 DEF JoinedBy
<1>5. ASSUME NEW a \in Servers, NEW b \in Servers PROVE Kv!Together(a, b)'
  <2>1. sides'[1] = Kv!All
    BY DEF NewList
  <2>2. {a, b} \subseteq Kv!ToSet(Kv!All)
    BY StepTypes DEF Kv!ToSet
  <2> QED
    BY <2>1, <2>2 DEF Kv!Together, Kv!ToSet
<1> QED
  BY <1>1, <1>2, <1>3, <1>4, <1>5, LinkList

\* Looking for the leader changes nothing yet.
LEMMA LookKeeps ==
  ASSUME KvInv, KvIdle, NEW s \in Servers, NewList(<<Kv!Do("look", s, <<>>)>>, sides)
  PROVE  /\ KvTypes' /\ InOrder' /\ KvStage' /\ KvNamed' /\ KvUp' /\ KvLinks'
         /\ Kv!OldInstanceSilenced'
<1>1. PICK T : T = <<Kv!Do("look", s, <<>>)>>
  OBVIOUS
<1>2. Len(T) = 1 /\ DOMAIN T = {1} /\ T[1].op = "look" /\ todo' = T /\ sides' = sides
  BY <1>1 DEF NewList, Kv!Do
<1>3. \A a, b : ~Joins(1, a, b)' /\ ~Cuts(1, a, b)'
  BY <1>2 DEF Joins, Cuts, Op
<1>4. \A a, b \in Servers : /\ Kv!Link(a, b)' <=> Kv!Link(a, b)
                            /\ Kv!Together(a, b)' <=> Kv!Together(a, b)
  BY <1>2 DEF NewList, Kv!Link, Kv!Together
<1>5. ASSUME NEW a \in Servers, NEW b \in Servers
      PROVE  (IF Kv!Together(a, b) THEN JoinedBy(2, a, b) ELSE CutBy(2, a, b))'
  <2>1. \A m \in 1..2-1 : m = 1
    OBVIOUS
  <2> QED
    BY <1>3, <1>4, <2>1 DEF KvIdle, JoinedBy, CutBy
<1>6. (\A a, b \in Servers : IF Kv!Together(a, b) THEN JoinedBy(Len(todo) + 1, a, b)
                                                  ELSE CutBy(Len(todo) + 1, a, b))'
  <2>1. Len(todo') + 1 = 2
    BY <1>2
  <2> QED
    BY <1>5, <2>1
<1> QED
  BY <1>1, <1>2, <1>6, LinkList

\* The steps of one of partition's loops, wherever they are.
OfSide(r, p, q) == \E x \in DOMAIN p : r = Kv!Do("disconnect", p[x], q) \/ r = Kv!Do("connect", p[x], p)
HasSide(t, p, q) == \A x \in DOMAIN p :
  /\ \E l \in DOMAIN t : t[l] = Kv!Do("disconnect", p[x], q)
  /\ \E l \in DOMAIN t : t[l] = Kv!Do("connect", p[x], p)

\* One loop of partition: each server of p leaves q, then joins p.
LEMMA SideSteps ==
  ASSUME NEW p \in Seq(Servers), NEW q \in Seq(Servers)
  PROVE  /\ Kv!Side(p, q) \in Seq(KvSteps) /\ HasSide(Kv!Side(p, q), p, q)
         /\ \A l \in DOMAIN Kv!Side(p, q) : OfSide(Kv!Side(p, q)[l], p, q)
<1>1. PICK t : t = Kv!Side(p, q)
  OBVIOUS
<1>2. /\ Len(p) \in Nat /\ DOMAIN p = 1..Len(p) /\ DOMAIN t = 1..2*Len(p)
      /\ \A x \in DOMAIN p : p[x] \in Servers
  BY <1>1 DEF Kv!Side
<1>3. \A k \in 1..2*Len(p) : t[k] = IF k % 2 = 1 THEN Kv!Do("disconnect", p[(k + 1) \div 2], q)
                                                   ELSE Kv!Do("connect", p[k \div 2], p)
  BY <1>1 DEF Kv!Side
<1>4. HasSide(t, p, q)
  <2> SUFFICES ASSUME NEW x \in DOMAIN p
               PROVE  /\ \E l \in DOMAIN t : t[l] = Kv!Do("disconnect", p[x], q)
                      /\ \E l \in DOMAIN t : t[l] = Kv!Do("connect", p[x], p)
    BY DEF HasSide
  <2>1. x \in 1..Len(p) /\ x \in Nat
    BY <1>2
  <2>2. 2*x - 1 \in 1..2*Len(p) /\ (2*x - 1) % 2 = 1 /\ ((2*x - 1) + 1) \div 2 = x
    BY <1>2, <2>1
  <2>3. 2*x \in 1..2*Len(p) /\ (2*x) % 2 # 1 /\ (2*x) \div 2 = x
    BY <1>2, <2>1
  <2>4. t[2*x - 1] = Kv!Do("disconnect", p[x], q)
    BY <1>3, <2>2
  <2>5. t[2*x] = Kv!Do("connect", p[x], p)
    BY <1>3, <2>3
  <2> QED
    BY <1>2, <2>2, <2>3, <2>4, <2>5
<1>5. ASSUME NEW l \in DOMAIN t PROVE OfSide(t[l], p, q)
  <2>1. CASE l % 2 = 1
    <3>1. (l + 1) \div 2 \in 1..Len(p)
      BY <1>2, <2>1
    <3> QED
      BY <1>2, <1>3, <2>1, <3>1 DEF OfSide
  <2>2. CASE l % 2 # 1
    <3>1. l \div 2 \in 1..Len(p)
      BY <1>2, <2>2
    <3> QED
      BY <1>2, <1>3, <2>2, <3>1 DEF OfSide
  <2> QED
    BY <2>1, <2>2
<1>6. \A x \in DOMAIN p : /\ Kv!Do("disconnect", p[x], q) \in KvSteps
                          /\ Kv!Do("connect", p[x], p) \in KvSteps
  BY <1>2, StepTypes DEF KvOps
<1>7. t \in Seq(KvSteps)
  <2>1. \A l \in 1..2*Len(p) : t[l] \in KvSteps
    BY <1>2, <1>5, <1>6 DEF OfSide
  <2>2. t = [k \in 1..2*Len(p) |-> t[k]] /\ 2*Len(p) \in Nat
    BY <1>1, <1>2 DEF Kv!Side
  <2> QED
    BY <2>1, <2>2
<1> QED
  BY <1>1, <1>4, <1>5, <1>7

\* Both loops of partition.
LEMMA PartitionSteps ==
  ASSUME NEW p \in Seq(Servers), NEW q \in Seq(Servers)
  PROVE  /\ Kv!partition(p, q) \in Seq(KvSteps)
         /\ HasSide(Kv!partition(p, q), p, q) /\ HasSide(Kv!partition(p, q), q, p)
         /\ \A l \in DOMAIN Kv!partition(p, q) :
              OfSide(Kv!partition(p, q)[l], p, q) \/ OfSide(Kv!partition(p, q)[l], q, p)
<1>1. PICK t, u, m : t = Kv!Side(p, q) /\ u = Kv!Side(q, p) /\ m = Kv!partition(p, q)
  OBVIOUS
<1>2. m = t \o u /\ t \in Seq(KvSteps) /\ u \in Seq(KvSteps)
  BY <1>1, SideSteps DEF Kv!partition
<1>3. /\ m \in Seq(KvSteps)
      /\ \A l \in DOMAIN m : (\E k \in DOMAIN t : m[l] = t[k]) \/ (\E k \in DOMAIN u : m[l] = u[k])
      /\ \A k \in DOMAIN t : \E l \in DOMAIN m : m[l] = t[k]
      /\ \A k \in DOMAIN u : \E l \in DOMAIN m : m[l] = u[k]
  <2>1. /\ Len(t) \in Nat /\ Len(u) \in Nat /\ DOMAIN t = 1..Len(t) /\ DOMAIN u = 1..Len(u)
        /\ m \in Seq(KvSteps) /\ DOMAIN m = 1..Len(t) + Len(u)
        /\ \A l \in 1..Len(t) : m[l] = t[l]
        /\ \A l \in 1..Len(u) : m[Len(t) + l] = u[l]
    BY <1>2
  <2>2. ASSUME NEW l \in DOMAIN m
        PROVE (\E k \in DOMAIN t : m[l] = t[k]) \/ (\E k \in DOMAIN u : m[l] = u[k])
    <3>1. l \in 1..Len(t) \/ (l - Len(t) \in 1..Len(u) /\ l = Len(t) + (l - Len(t)))
      BY <2>1
    <3> QED
      BY <2>1, <3>1
  <2>3. \A k \in 1..Len(t) : k \in 1..Len(t) + Len(u)
    BY <2>1
  <2>4. \A k \in 1..Len(u) : Len(t) + k \in 1..Len(t) + Len(u)
    BY <2>1
  <2> QED
    BY <2>1, <2>2, <2>3, <2>4
<1>4. HasSide(m, p, q) /\ HasSide(m, q, p)
  <2>1. HasSide(t, p, q) /\ HasSide(u, q, p)
    BY <1>1, SideSteps
  <2> QED
    BY <1>3, <2>1 DEF HasSide
<1>5. ASSUME NEW l \in DOMAIN m PROVE OfSide(m[l], p, q) \/ OfSide(m[l], q, p)
  <2>1. (\A k \in DOMAIN t : OfSide(t[k], p, q)) /\ (\A k \in DOMAIN u : OfSide(u[k], q, p))
    BY <1>1, SideSteps
  <2> QED
    BY <1>3, <2>1
<1> QED
  BY <1>1, <1>3, <1>4, <1>5

On(s, p) == \E x \in DOMAIN p : p[x] = s

\* partition between procedures: when the sides cover the servers without
\* overlap, links within a side will be joined and never cut after, and
\* links across will be cut and never joined.
LEMMA PartitionKeeps ==
  ASSUME KvInv, KvIdle, NEW p \in Seq(Servers), NEW q \in Seq(Servers), Len(p) <= N, Len(q) <= N,
         \A s \in Servers : On(s, p) <=> ~On(s, q),
         todo' = Kv!partition(p, q), sides' = <<p, q>>,
         UNCHANGED <<servers, disk, saved, enabled, gen, kvservers, clerks>>
  PROVE  /\ KvTypes' /\ InOrder' /\ KvStage' /\ KvNamed' /\ KvUp' /\ KvLinks'
         /\ Kv!OldInstanceSilenced'
<1>1. PICK T : T = Kv!partition(p, q)
  OBVIOUS
<1>2. /\ T \in Seq(KvSteps) /\ HasSide(T, p, q) /\ HasSide(T, q, p)
      /\ \A l \in DOMAIN T : OfSide(T[l], p, q) \/ OfSide(T[l], q, p)
  BY <1>1, PartitionSteps
<1>3. /\ DOMAIN T = 1..Len(T) /\ Len(T) \in Nat /\ todo' = T
  BY <1>1, <1>2
<1>4. \A x \in DOMAIN p : p[x] \in Servers
  OBVIOUS
<1>5. \A x \in DOMAIN q : q[x] \in Servers
  OBVIOUS
<1>6. ASSUME NEW l \in DOMAIN T
      PROVE  /\ T[l].op \in {"connect", "disconnect"} /\ Len(T[l].to) <= N
             /\ T[l].op = "connect" => (On(T[l].i, p) /\ T[l].to = p) \/ (On(T[l].i, q) /\ T[l].to = q)
             /\ T[l].op = "disconnect" => (On(T[l].i, p) /\ T[l].to = q) \/ (On(T[l].i, q) /\ T[l].to = p)
  BY <1>2 DEF OfSide, On, Kv!Do
<1>7. NewList(T, <<p, q>>)
  BY <1>1, <1>2, <1>6 DEF NewList
<1>8. \A a, b : Kv!Together(a, b)' <=> (On(a, p) /\ On(b, p)) \/ (On(a, q) /\ On(b, q))
  <2>1. sides'[1] = p /\ sides'[2] = q
    OBVIOUS
  <2> QED
    BY <2>1 DEF Kv!Together, Kv!ToSet, On
<1>9. ASSUME NEW l \in DOMAIN T, NEW a \in Servers, NEW b \in Servers
      PROVE  (Joins(l, a, b)' => Kv!Together(a, b)') /\ (Cuts(l, a, b)' => ~Kv!Together(a, b)')
  <2>1. Op(l)' = T[l].op /\ Who(l)' = T[l].i
    BY <1>3 DEF Op, Who
  <2>2. ASSUME Joins(l, a, b)' PROVE Kv!Together(a, b)'
    <3>1. T[l].op = "connect" /\ ((T[l].i = a /\ On(b, T[l].to)) \/ (T[l].i = b /\ On(a, T[l].to)))
      BY <1>3, <2>1, <2>2 DEF Joins, Covers, On
    <3> QED
      BY <1>6, <1>8, <3>1
  <2>3. ASSUME Cuts(l, a, b)' PROVE ~Kv!Together(a, b)'
    <3>1. T[l].op = "disconnect" /\ ((T[l].i = a /\ On(b, T[l].to)) \/ (T[l].i = b /\ On(a, T[l].to)))
      BY <1>3, <1>6, <2>1, <2>3 DEF Cuts, Covers, On
    <3> QED
      BY <1>6, <1>8, <3>1
  <2> QED
    BY <2>2, <2>3
<1>10. ASSUME NEW a \in Servers, NEW b \in Servers, Kv!Together(a, b)' PROVE JoinedBy(Len(T) + 1, a, b)'
  <2>1. PICK l \in DOMAIN T : \E t \in {p, q} : T[l] = Kv!Do("connect", a, t) /\ On(b, t)
    <3>1. (On(a, p) /\ On(b, p)) \/ (On(a, q) /\ On(b, q))
      BY <1>8, <1>10
    <3>2. ASSUME On(a, p) PROVE \E l \in DOMAIN T : T[l] = Kv!Do("connect", a, p)
      BY <1>2, <3>2 DEF HasSide, On
    <3>3. ASSUME On(a, q) PROVE \E l \in DOMAIN T : T[l] = Kv!Do("connect", a, q)
      BY <1>2, <3>3 DEF HasSide, On
    <3> QED
      BY <3>1, <3>2, <3>3
  <2>2. Joins(l, a, b)'
    <3>1. T[l].op = "connect" /\ T[l].i = a /\ On(b, T[l].to)
      BY <2>1 DEF Kv!Do
    <3> QED
      BY <1>3, <3>1 DEF Joins, Covers, Op, Who, On
  <2>3. l \in 1..(Len(T) + 1)-1 /\ \A m \in l+1..(Len(T) + 1)-1 : m \in DOMAIN T
    BY <1>3
  <2>4. \A m \in l+1..(Len(T) + 1)-1 : ~Cuts(m, a, b)'
    BY <1>9, <1>10, <2>3
  <2> QED
    BY <2>2, <2>3, <2>4 DEF JoinedBy
<1>11. ASSUME NEW a \in Servers, NEW b \in Servers, ~Kv!Together(a, b)' PROVE CutBy(Len(T) + 1, a, b)'
  <2>1. PICK l \in DOMAIN T : \E t \in {p, q} : T[l] = Kv!Do("disconnect", a, t) /\ On(b, t)
    <3>1. (On(a, p) /\ On(b, q)) \/ (On(a, q) /\ On(b, p))
      BY <1>8, <1>11
    <3>2. ASSUME On(a, p) PROVE \E l \in DOMAIN T : T[l] = Kv!Do("disconnect", a, q)
      BY <1>2, <3>2 DEF HasSide, On
    <3>3. ASSUME On(a, q) PROVE \E l \in DOMAIN T : T[l] = Kv!Do("disconnect", a, p)
      BY <1>2, <3>3 DEF HasSide, On
    <3> QED
      BY <3>1, <3>2, <3>3
  <2>2. Cuts(l, a, b)'
    <3>1. T[l].op = "disconnect" /\ T[l].i = a /\ On(b, T[l].to)
      BY <2>1 DEF Kv!Do
    <3> QED
      BY <1>3, <3>1 DEF Cuts, Covers, Op, Who, On
  <2>3. l \in 1..(Len(T) + 1)-1 /\ \A m \in l+1..(Len(T) + 1)-1 : m \in DOMAIN T
    BY <1>3
  <2>4. \A m \in l+1..(Len(T) + 1)-1 : ~Joins(m, a, b)'
    BY <1>9, <1>11, <2>3
  <2> QED
    BY <2>2, <2>3, <2>4 DEF CutBy
<1>12. (\A a, b \in Servers : IF Kv!Together(a, b) THEN JoinedBy(Len(todo) + 1, a, b)
                                                   ELSE CutBy(Len(todo) + 1, a, b))'
  <2>1. Len(todo') = Len(T)
    BY <1>3
  <2> QED
    BY <1>10, <1>11, <2>1
<1> QED
  BY <1>6, <1>7, <1>12, LinkList

\* make_partition(l), with h = n/2.
MinoritySides(p, q, l, h) ==
  /\ p \in Seq(Servers) /\ Len(p) = h + 1 /\ q \in Seq(Servers) /\ Len(q) = h
  /\ N = 2*h + 1 /\ h \in Nat \ {0}
  /\ \A s \in Servers : On(s, p) <=> ~On(s, q)
  /\ q[h] = l /\ l \in Servers
  /\ \A x, y \in 1..h + 1 : p[x] = p[y] => x = y

\* make_partition puts the leader last into a side of n/2 servers and n/2 +
\* 1 others into the other, for every odd n.
LEMMA MakePartition ==
  ASSUME NEW l \in Servers
  PROVE  \E p, q, h : Kv!make_partition(l) = <<p, q>> /\ MinoritySides(p, q, l, h)
<1>1. PICK h : h = N \div 2
  OBVIOUS
<1>2. N = 2*h + 1 /\ h \in Nat \ {0}
  <2>1. N \in Nat /\ N % 2 = 1 /\ N > 1
    BY LabSizes DEF Kv!Sizes
  <2> QED
    BY <1>1, <2>1
<1>3. PICK o : o = Kv!Others(l)
  OBVIOUS
<1>4. l \in 0..2*h /\ Servers = 0..2*h
  <2>1. N - 1 = 2*h
    BY <1>2
  <2> QED
    BY <2>1 DEF Servers
<1>5. \A k \in 1..2*h : o[k] = (IF k <= l THEN k - 1 ELSE k) /\ o[k] \in Servers
  <2>1. N - 1 = 2*h
    BY <1>2
  <2>2. \A k \in 1..2*h : o[k] = (IF k <= l THEN k - 1 ELSE k)
    BY <1>3, <2>1 DEF Kv!Others
  <2> QED
    BY <1>2, <1>4, <2>2
<1>6. PICK p, r, q : p = SubSeq(o, 1, h + 1) /\ r = SubSeq(o, h + 2, 2*h) /\ q = r \o <<l>>
  OBVIOUS
<1>7. Kv!make_partition(l) = <<p, q>>
  <2>1. N - 1 = 2*h
    BY <1>2
  <2> QED
    BY <1>1, <1>3, <1>6, <2>1 DEF Kv!make_partition
<1>8. p \in Seq(Servers) /\ Len(p) = h + 1 /\ \A x \in 1..h + 1 : p[x] = o[x]
  <2>1. 1 \in Int /\ h + 1 \in Int /\ \A k \in 1..h + 1 : o[k] \in Servers
    BY <1>2, <1>5
  <2>2. /\ p \in Seq(Servers)
        /\ Len(p) = (IF 1 <= h + 1 THEN (h + 1)-1+1 ELSE 0)
        /\ \A k \in 1..(h + 1)-1+1 : p[k] = o[1+k-1]
    BY <1>6, <2>1, SubSeqProperties
  <2>3. /\ (h + 1)-1+1 = h + 1 /\ 1 <= h + 1
        /\ \A k \in 1..h + 1 : 1+k-1 = k
    BY <1>2
  <2> QED
    BY <2>2, <2>3
<1>9. r \in Seq(Servers) /\ Len(r) = h - 1 /\ \A y \in 1..h - 1 : r[y] = o[h + 1 + y]
  <2>1. h + 2 \in Int /\ 2*h \in Int /\ \A k \in h + 2..2*h : o[k] \in Servers
    BY <1>2, <1>5
  <2>2. /\ r \in Seq(Servers)
        /\ Len(r) = (IF h + 2 <= 2*h THEN 2*h-(h + 2)+1 ELSE 0)
        /\ \A k \in 1..2*h-(h + 2)+1 : r[k] = o[(h + 2)+k-1]
    BY <1>6, <2>1, SubSeqProperties
  <2>3. /\ 2*h-(h + 2)+1 = h - 1 /\ (h + 2 <= 2*h \/ h - 1 = 0)
        /\ \A k \in 1..h - 1 : (h + 2)+k-1 = h + 1 + k
    BY <1>2
  <2> QED
    BY <2>2, <2>3
<1>10. q \in Seq(Servers) /\ Len(q) = h /\ q[h] = l /\ \A y \in 1..h - 1 : q[y] = o[h + 1 + y]
  <2>1. <<l>> \in Seq(Servers) /\ Len(<<l>>) = 1 /\ <<l>>[1] = l
    OBVIOUS
  <2>2. /\ q \in Seq(Servers) /\ Len(q) = Len(r) + 1 /\ q[Len(r) + 1] = l
        /\ \A y \in 1..Len(r) : q[y] = r[y]
    <3>1. PICK u : u = <<l>>
      OBVIOUS
    <3>2. r \in Seq(Servers) /\ u \in Seq(Servers) /\ Len(u) = 1 /\ u[1] = l /\ q = r \o u
      BY <1>6, <1>9, <2>1, <3>1
    <3>3. /\ q \in Seq(Servers) /\ Len(q) = Len(r) + Len(u)
          /\ \A y \in 1..Len(r) + Len(u) : q[y] = IF y <= Len(r) THEN r[y] ELSE u[y - Len(r)]
      BY <3>2, ConcatProperties, Zenon
    <3>4. Len(r) \in Nat
      BY <3>2
    <3> QED
      BY <3>2, <3>3, <3>4
  <2>3. (h - 1) + 1 = h
    BY <1>2
  <2> QED
    BY <1>9, <2>2, <2>3
<1>11. \A x, y \in 1..h + 1 : p[x] = p[y] => x = y
  BY <1>2, <1>4, <1>5, <1>8
<1>12. ASSUME NEW s \in Servers PROVE On(s, p) <=> ~On(s, q)
  <2>1. DOMAIN p = 1..h + 1 /\ DOMAIN q = 1..h
    BY <1>8, <1>10
  <2>2. CASE s = l
    <3>1. ~On(s, p)
      <4>1. \A x \in 1..h + 1 : x \in 1..2*h
        BY <1>2
      <4>2. \A k \in 1..2*h : o[k] # l
        BY <1>2, <1>4, <1>5
      <4> QED
        BY <1>8, <2>1, <2>2, <4>1, <4>2 DEF On
    <3>2. On(s, q)
      BY <1>2, <1>10, <2>1, <2>2 DEF On
    <3> QED
      BY <3>1, <3>2
  <2>3. CASE s # l
    <3>1. PICK k \in 1..2*h : k = IF s < l THEN s + 1 ELSE s
      BY <1>2, <1>4, <2>3
    <3>2. o[k] = s /\ \A j \in 1..2*h : o[j] = s => j = k
      BY <1>2, <1>4, <1>5, <2>3, <3>1
    <3>3. CASE k <= h + 1
      <4>1. On(s, p)
        BY <1>2, <1>8, <2>1, <3>2, <3>3 DEF On
      <4>2. ASSUME NEW y \in 1..h, q[y] = s PROVE FALSE
        <5>1. y \in 1..h - 1
          BY <1>2, <1>10, <2>3, <4>2
        <5>2. o[h + 1 + y] = s /\ h + 1 + y \in 1..2*h /\ h + 1 + y > k
          BY <1>2, <1>10, <3>3, <4>2, <5>1
        <5> QED
          BY <3>2, <5>2
      <4> QED
        BY <2>1, <4>1, <4>2 DEF On
    <3>4. CASE k > h + 1
      <4>1. On(s, q)
        <5>1. PICK y \in 1..h - 1 : k = h + 1 + y
          <6>1. k - (h + 1) \in 1..h - 1 /\ k = h + 1 + (k - (h + 1))
            BY <1>2, <3>4
          <6> QED
            BY <6>1
        <5>2. q[y] = s /\ y \in 1..h
          BY <1>2, <1>10, <3>2, <5>1
        <5> QED
          BY <2>1, <5>2 DEF On
      <4>2. ASSUME NEW x \in 1..h + 1, p[x] = s PROVE FALSE
        <5>1. o[x] = s /\ x \in 1..2*h /\ x < k
          BY <1>2, <1>8, <3>4, <4>2
        <5> QED
          BY <3>2, <5>1
      <4> QED
        BY <2>1, <4>1, <4>2 DEF On
    <3> QED
      BY <1>2, <3>3, <3>4
  <2> QED
    BY <2>2, <2>3
<1> QED
  BY <1>2, <1>7, <1>8, <1>10, <1>11, <1>12 DEF MinoritySides

\* Where each step of a restart, or of a start, is in a list whose part for
\* shutting down starts at d and whose part for starting starts at o.
Placed(op, l, s, d, o) ==
  /\ op = "disconnect" => l = d + 4*s + 1
  /\ op = "delete" => l = d + 4*s + 2
  /\ op = "copy" => l = d + 4*s + 3
  /\ op = "kill" => l = d + 4*s + 4
  /\ op = "names" => l = o + 4*s + 1
  /\ op = "persister" => l = o + 4*s + 2
  /\ op = "start" => l = o + 4*s + 3
  /\ op = "add" => l = o + 4*s + 4

Ordered(T) == \A k, l \in DOMAIN T :
  k < l /\ T[k].i = T[l].i /\ Rank(T[k].op) # 0 /\ Rank(T[l].op) # 0 =>
    Rank(T[k].op) < Rank(T[l].op)

\* Steps that stand where the loops of a restart put them are in order.
LEMMA PlacedInOrder ==
  ASSUME NEW T, NEW d \in Nat, NEW o \in Nat, d + 4*N <= o,
         \A l \in DOMAIN T : T[l].op \in KvOps /\ T[l].i \in Servers /\ Placed(T[l].op, l, T[l].i, d, o)
  PROVE  Ordered(T)
<1> SUFFICES ASSUME NEW k \in DOMAIN T, NEW l \in DOMAIN T, k < l, T[k].i = T[l].i,
                    Rank(T[k].op) # 0, Rank(T[l].op) # 0
             PROVE  Rank(T[k].op) < Rank(T[l].op)
  BY DEF Ordered
<1>1. PICK s \in Servers : s = T[k].i /\ s = T[l].i
  OBVIOUS
<1>2. s \in 0..N-1 /\ N \in Nat
  BY KvFacts DEF Servers
<1>3. Placed(T[k].op, k, s, d, o) /\ Placed(T[l].op, l, s, d, o)
  BY <1>1
<1>4. /\ T[k].op \in {"delete", "copy", "kill", "names", "persister", "start", "add"}
      /\ T[l].op \in {"delete", "copy", "kill", "names", "persister", "start", "add"}
  BY Ranks DEF KvOps
<1> QED
  BY <1>2, <1>3, <1>4, Ranks DEF Placed

\* A restart of all servers between procedures.
LEMMA RestartKeeps ==
  ASSUME KvInv, KvIdle, \A s \in Servers : gen[s] < MaxStarts,
         todo' = Restarts, sides' = <<Kv!All, <<>>>>,
         UNCHANGED <<servers, disk, saved, enabled, gen, kvservers, clerks>>
  PROVE  /\ KvTypes' /\ InOrder' /\ KvStage' /\ KvNamed' /\ KvUp' /\ KvLinks'
         /\ Kv!OldInstanceSilenced'
<1>1. PICK T : T = Restarts
  OBVIOUS
<1>2. N \in Nat \ {0} /\ Servers = 0..N-1
  BY KvFacts DEF Servers
<1>3. /\ T \in Seq(KvSteps) /\ Len(T) = 10*N /\ DOMAIN T = 1..10*N /\ todo' = T
      /\ \A l \in 1..10*N : \E s \in Servers : IsRestart(T, l, s)
      /\ \A s \in Servers : /\ T[N + 4*s + 1] = Kv!Do("disconnect", s, Kv!All)
                            /\ T[N + 4*s + 2] = Kv!Do("delete", s, <<>>)
                            /\ Starting(T, 5*N, s)
                            /\ T[9*N + s + 1] = Kv!Do("connect", s, Kv!All)
  BY <1>1, RestartSteps
<1>4. ASSUME NEW l \in 1..10*N
      PROVE  /\ T[l].op \in KvOps \ {"look"} /\ T[l].i \in Servers
             /\ Placed(T[l].op, l, T[l].i, N, 5*N)
             /\ T[l].op = "connect" => l <= N \/ l > 9*N
             /\ T[l].op \in {"connect", "disconnect"} => T[l].to = Kv!All
             /\ T[l].op \notin {"connect", "disconnect"} => T[l].to = <<>>
  <2>1. PICK s \in Servers : IsRestart(T, l, s)
    BY <1>3
  <2>2. CASE IsConnect(T, 0, l, s) \/ IsConnect(T, 9*N, l, s)
    <3>1. T[l] = [op |-> "connect", i |-> s, to |-> Kv!All] /\ (l = 0 + s + 1 \/ l = 9*N + s + 1)
      BY <2>2 DEF IsConnect, Kv!Do
    <3> QED
      BY <1>2, <3>1 DEF KvOps, Placed
  <2>3. CASE IsShutdown(T, N, l, s)
    BY <1>2, <2>3 DEF IsShutdown, Kv!Do, KvOps, Placed
  <2>4. CASE IsStart(T, 5*N, l, s)
    <3>1. PICK o : o = 5*N
      OBVIOUS
    <3>2. IsStart(T, o, l, s)
      BY <2>4, <3>1
    <3>3. Placed(T[l].op, l, s, N, o) /\ T[l].op \in {"names", "persister", "start", "add"}
          /\ T[l].i = s /\ T[l].to = <<>>
      BY <3>2 DEF IsStart, Kv!Do, Placed
    <3> QED
      BY <3>1, <3>3 DEF KvOps
  <2> QED
    BY <2>1, <2>2, <2>3, <2>4 DEF IsRestart
<1>5. NewList(T, <<Kv!All, <<>>>>)
  <2>1. Len(Kv!All) = N /\ Len(<<>>) = 0 /\ 0 <= N
    BY <1>2, StepTypes
  <2>2. \A l \in 1..10*N : Len(T[l].to) <= N /\ T[l].op # "look"
    BY <1>2, <1>4, <2>1
  <2> QED
    BY <1>1, <1>3, <2>2, StepTypes DEF NewList
<1>6. KvTypes' /\ \A l \in 1..10*N : Op(l)' = T[l].op /\ Who(l)' = T[l].i
  BY <1>3, <1>5, ListTypes DEF KvInv
<1>7. InOrder'
  <2>1. N \in Nat /\ 5*N \in Nat /\ N + 4*N <= 5*N
    BY <1>2
  <2>2. \A l \in DOMAIN T : T[l].op \in KvOps /\ T[l].i \in Servers /\ Placed(T[l].op, l, T[l].i, N, 5*N)
    BY <1>3, <1>4
  <2> QED
    BY <1>3, <2>1, <2>2, PlacedInOrder DEF Ordered, InOrder, Op, Who
<1>8. ASSUME NEW s \in Servers
      PROVE  /\ \A l \in Nat : N + 4*s + 2 < l => Before(l, "delete", s)'
             /\ \A l \in Nat : 5*N + 4*s + 1 < l => Before(l, "names", s)'
             /\ \A l \in Nat : 5*N + 4*s + 2 < l => Before(l, "persister", s)'
             /\ \A l \in Nat : 5*N + 4*s + 3 < l => Before(l, "start", s)'
  <2>1. /\ N + 4*s + 2 \in 1..10*N /\ 5*N + 4*s + 1 \in 1..10*N
        /\ 5*N + 4*s + 2 \in 1..10*N /\ 5*N + 4*s + 3 \in 1..10*N
    BY <1>2
  <2>2. /\ (Op(N + 4*s + 2) = "delete" /\ Who(N + 4*s + 2) = s)'
        /\ (Op(5*N + 4*s + 1) = "names" /\ Who(5*N + 4*s + 1) = s)'
        /\ (Op(5*N + 4*s + 2) = "persister" /\ Who(5*N + 4*s + 2) = s)'
        /\ (Op(5*N + 4*s + 3) = "start" /\ Who(5*N + 4*s + 3) = s)'
    <3>1. /\ T[N + 4*s + 2] = Kv!Do("delete", s, <<>>) /\ T[5*N + 4*s + 1] = Kv!Do("names", s, <<>>)
          /\ T[5*N + 4*s + 2] = Kv!Do("persister", s, <<>>) /\ T[5*N + 4*s + 3] = Kv!Do("start", s, <<>>)
      BY <1>3 DEF Starting
    <3>2. \A op : Kv!Do(op, s, <<>>).op = op /\ Kv!Do(op, s, <<>>).i = s
      BY DEF Kv!Do
    <3> QED
      BY <1>6, <2>1, <3>1, <3>2
  <2>3. \A k \in 1..10*N, l \in Nat : k < l => k \in 1..l-1
    BY <1>2
  <2> QED
    BY <2>1, <2>2, <2>3 DEF Before
<1>9. KvStage'
  <2>1. ASSUME NEW l \in 1..10*N
        PROVE  LET s == T[l].i IN
               /\ Rank(T[l].op) > 1 => N + 4*s + 2 < l
               /\ T[l].op = "start" => 5*N + 4*s + 1 < l /\ 5*N + 4*s + 2 < l
               /\ T[l].op = "add" => 5*N + 4*s + 3 < l
    <3>1. PICK s \in 0..N-1 : s = T[l].i
      BY <1>2, <1>4
    <3>2. Placed(T[l].op, l, s, N, 5*N)
      BY <1>4, <3>1
    <3>3. Rank(T[l].op) > 1 => T[l].op \in {"copy", "kill", "names", "persister", "start", "add"}
      BY <1>4, Ranks DEF KvOps
    <3>4. Rank(T[l].op) > 1 => N + 4*s + 2 < l
      <4>1. PICK op : op = T[l].op
        OBVIOUS
      <4>2. ASSUME op \in {"copy", "kill", "names", "persister", "start", "add"} PROVE N + 4*s + 2 < l
        BY <1>2, <3>2, <4>1, <4>2 DEF Placed
      <4> QED
        BY <3>3, <4>1, <4>2
    <3>5. /\ T[l].op = "start" => 5*N + 4*s + 1 < l /\ 5*N + 4*s + 2 < l
          /\ T[l].op = "add" => 5*N + 4*s + 3 < l
      BY <1>2, <3>2 DEF Placed
    <3> QED
      BY <3>1, <3>4, <3>5
  <2>2. \A l \in 1..10*N : l \in Nat /\ T[l].i \in Servers
    BY <1>4
  <2>3. ASSUME NEW l \in DOMAIN todo'
        PROVE  /\ Rank(Op(l)') > 1 => Before(l, "delete", Who(l))'
               /\ Op(l)' = "names" => (gen[Who(l)] < MaxStarts)'
               /\ Op(l)' = "start" => Before(l, "names", Who(l))' /\ Before(l, "persister", Who(l))'
               /\ Op(l)' = "add" => Before(l, "start", Who(l))'
    <3>1. PICK s \in Servers : s = T[l].i /\ s = Who(l)' /\ Op(l)' = T[l].op /\ l \in 1..10*N /\ l \in Nat
      BY <1>3, <1>6, <2>2
    <3> QED
      BY <1>8, <2>1, <3>1
  <2>4. \A s \in Servers, g \in Starts : disk'[<<s, g>>] # 0 => g <= gen'[s]
    BY DEF KvStage, KvInv
  <2> QED
    BY <2>3, <2>4 DEF KvStage
<1>10. KvNamed'
  BY DEF KvNamed, KvIdle
<1>11. KvUp'
  <2>1. \A s \in Servers, l \in Nat : l > 9*N => Runs(l, s)'
    <3>1. \A s \in Servers, l \in Nat : l > 9*N => 5*N + 4*s + 3 < l
      BY <1>2
    <3> QED
      BY <1>8, <3>1 DEF Runs
  <2>2. \A s \in Servers, l \in Nat : l <= N => Runs(l, s)'
    <3> SUFFICES ASSUME NEW s \in Servers, NEW l \in Nat, l <= N PROVE Runs(l, s)'
      OBVIOUS
    <3>1. ASSUME NEW k \in 1..l-1, T[k].op = "kill" PROVE FALSE
      <4>1. k \in 1..10*N /\ k <= N
        BY <1>2
      <4>2. T[k].i \in 0..N-1 /\ k = N + 4*T[k].i + 4
        BY <1>2, <1>4, <3>1, <4>1 DEF Placed
      <4> QED
        BY <1>2, <4>1, <4>2
    <3>2. \A k \in 1..l-1 : k \in 1..10*N
      BY <1>2
    <3> QED
      BY <1>6, <3>1, <3>2 DEF Runs, Before, KvIdle
  <2>3. (\A s \in Servers : Runs(Len(todo) + 1, s))'
    <3>1. Len(todo') + 1 = 10*N + 1 /\ 10*N + 1 \in Nat /\ 10*N + 1 > 9*N
      <4>1. Len(todo') = 10*N
        BY <1>3
      <4> QED
        BY <1>2, <4>1
    <3> QED
      BY <2>1, <3>1
  <2>4. ASSUME NEW l \in DOMAIN todo', Op(l)' = "connect"
        PROVE  (Runs(l, Who(l)) /\ \A k \in DOMAIN todo[l].to : Runs(l, todo[l].to[k]))'
    <3>1. l \in 1..10*N /\ l \in Nat /\ (l <= N \/ l > 9*N) /\ Who(l)' \in Servers /\ todo'[l].to = Kv!All
      BY <1>3, <1>4, <1>6, <2>4
    <3>2. \A k \in DOMAIN Kv!All : Kv!All[k] \in Servers
      BY StepTypes
    <3> QED
      BY <2>1, <2>2, <3>1, <3>2
  <2> QED
    BY <2>3, <2>4 DEF KvUp, KvIdle
<1>12. KvLinks'
  <2>1. \A s \in Servers : On(s, Kv!All)
    BY StepTypes DEF On
  <2>2. \A a, b \in Servers : Kv!Together(a, b)'
    BY <2>1 DEF Kv!Together, Kv!ToSet, On
  <2>3. ASSUME NEW a \in Servers, NEW b \in Servers PROVE JoinedBy(10*N + 1, a, b)'
    <3>1. PICK k : k = 9*N + a + 1
      OBVIOUS
    <3>2. k \in 1..(10*N + 1)-1 /\ \A m \in k+1..(10*N + 1)-1 : m \in 1..10*N /\ m > 9*N
      BY <1>2, <3>1
    <3>3. T[k].op = "connect" /\ T[k].i = a /\ T[k].to = Kv!All
      <4>1. T[k] = [op |-> "connect", i |-> a, to |-> Kv!All]
        BY <1>3, <3>1 DEF Kv!Do
      <4> QED
        BY <4>1
    <3>4. Joins(k, a, b)'
      BY <1>3, <2>1, <3>3 DEF Joins, Covers, Op, Who, On
    <3>5. ASSUME NEW m \in 1..10*N, m > 9*N, Cuts(m, a, b)' PROVE FALSE
      <4>1. T[m].op \in {"disconnect", "names"}
        BY <1>6, <3>5 DEF Cuts
      <4>2. PICK j \in 0..N-1 : m = N + 4*j + 1 \/ m = 5*N + 4*j + 1
        BY <1>2, <1>4, <4>1 DEF Placed
      <4>3. ~(m > 9*N)
        BY <1>2, <4>2
      <4> QED
        BY <3>5, <4>3
    <3> QED
      BY <3>2, <3>4, <3>5 DEF JoinedBy
  <2>4. ASSUME NEW l \in DOMAIN todo', Op(l)' \in {"kill", "names"}, NEW b \in Servers
        PROVE  CutBy(l, Who(l), b)'
    <3>1. PICK s \in Servers : s = Who(l)' /\ s = T[l].i /\ T[l].op \in {"kill", "names"} /\ l \in 1..10*N
      BY <1>3, <1>4, <1>6, <2>4
    <3>2. PICK k : k = N + 4*s + 1
      OBVIOUS
    <3>3. l <= 9*N /\ k < l
      <4>1. l = N + 4*s + 4 \/ l = 5*N + 4*s + 1
        BY <1>4, <3>1 DEF Placed
      <4> QED
        BY <1>2, <3>2, <4>1
    <3>4. k \in 1..l-1 /\ \A m \in k+1..l-1 : m \in 1..10*N /\ m > N /\ m <= 9*N
      <4>1. N \in Nat /\ s \in Nat /\ l \in Nat /\ k \in Nat
        BY <1>2, <3>1, <3>2
      <4> QED
        BY <3>2, <3>3, <4>1
    <3>5. T[k].op = "disconnect" /\ T[k].i = s /\ T[k].to = Kv!All
      <4>1. T[k] = [op |-> "disconnect", i |-> s, to |-> Kv!All]
        BY <1>3, <3>2 DEF Kv!Do
      <4> QED
        BY <4>1
    <3>6. Cuts(k, s, b)'
      BY <1>3, <2>1, <3>5 DEF Cuts, Covers, Op, Who, On
    <3>7. \A m \in 1..10*N : m > N /\ m <= 9*N => ~Joins(m, s, b)'
      BY <1>2, <1>4, <1>6 DEF Joins
    <3>8. CutBy(l, s, b)'
      BY <3>4, <3>6, <3>7 DEF CutBy
    <3> QED
      BY <3>1, <3>8
  <2>5. (\A a, b \in Servers : IF Kv!Together(a, b) THEN JoinedBy(Len(todo) + 1, a, b)
                                                    ELSE CutBy(Len(todo) + 1, a, b))'
    <3>1. Len(todo') = 10*N
      BY <1>3
    <3> QED
      BY <2>2, <2>3, <3>1
  <2> QED
    BY <2>4, <2>5 DEF KvLinks
<1>13. Kv!OldInstanceSilenced'
  BY DEF KvInv, Kv!OldInstanceSilenced
<1> QED
  BY <1>6, <1>7, <1>9, <1>10, <1>11, <1>12, <1>13

\* The invariant holds at first, with all of make_config to do.
LEMMA KvInit == Kv!Init => KvInv
<1> SUFFICES ASSUME Kv!Init PROVE KvInv
  OBVIOUS
<1>1. PICK T : T = Kv!make_config
  OBVIOUS
<1>2. N \in Nat \ {0} /\ Servers = 0..N-1 /\ MaxStarts \in Nat \ {0}
  BY KvFacts DEF Servers
<1>3. /\ T \in Seq(KvSteps) /\ Len(T) = 5*N /\ DOMAIN T = 1..5*N /\ todo = T
      /\ \A l \in 1..5*N : \E s \in Servers : IsConfig(T, l, s)
      /\ \A s \in Servers : /\ Starting(T, 0, s)
                            /\ T[4*N + s + 1] = Kv!Do("connect", s, Kv!All)
  BY <1>1, ConfigSteps DEF Kv!Init
<1>4. ASSUME NEW l \in 1..5*N
      PROVE  /\ T[l].op \in {"names", "persister", "start", "add", "connect"} /\ T[l].i \in Servers
             /\ \A d : Placed(T[l].op, l, T[l].i, d, 0)
             /\ T[l].op = "connect" => l > 4*N /\ T[l].to = Kv!All
             /\ T[l].op # "connect" => l <= 4*N /\ T[l].to = <<>>
  <2>1. PICK s \in Servers : IsConfig(T, l, s)
    BY <1>3
  <2>2. CASE IsConnect(T, 4*N, l, s)
    <3>1. T[l] = [op |-> "connect", i |-> s, to |-> Kv!All] /\ l = 4*N + s + 1
      BY <2>2 DEF IsConnect, Kv!Do
    <3> QED
      BY <1>2, <3>1 DEF Placed
  <2>3. CASE IsStart(T, 0, l, s)
    BY <1>2, <2>3 DEF IsStart, Kv!Do, Placed
  <2> QED
    BY <2>1, <2>2, <2>3 DEF IsConfig
<1>5. \A l \in 1..5*N : Op(l) = T[l].op /\ Who(l) = T[l].i
  BY <1>3 DEF Op, Who
<1>6. KvTypes
  <2>1. Len(Kv!All) = N /\ Len(<<>>) = 0 /\ 0 <= N
    BY <1>2, StepTypes
  <2>2. \A l \in DOMAIN todo : Len(todo[l].to) <= N /\ Op(l) # "look"
    <3>1. ASSUME NEW l \in 1..5*N PROVE Len(T[l].to) <= N /\ T[l].op # "look"
      <4>1. T[l].to = Kv!All \/ T[l].to = <<>>
        BY <1>4
      <4> QED
        BY <1>2, <1>4, <2>1, <4>1
    <3> QED
      BY <1>3, <1>5, <3>1
  <2>3. todo \in Seq([op : KvOps, i : Servers, to : Seq(Servers)])
    BY <1>3 DEF KvSteps
  <2>4. gen = [s \in Servers |-> 0] /\ kvservers = {} /\ clerks = {} /\ enabled = {} /\ sides = <<Kv!All, <<>>>>
    BY KvFacts DEF Kv!Init, Kv!CrashInit
  <2> QED
    <3>1. gen \in [Servers -> 0..MaxStarts]
      BY <1>2, <2>4
    <3>2. sides \in Seq(Servers) \X Seq(Servers)
      BY <2>4, StepTypes
    <3> QED
      BY <2>2, <2>3, <2>4, <3>1, <3>2 DEF KvTypes
<1>7. InOrder
  <2>2. ASSUME NEW k \in 1..5*N, NEW l \in 1..5*N, k < l, T[k].i = T[l].i,
               T[k].op # "connect", T[l].op # "connect"
        PROVE  Rank(T[k].op) < Rank(T[l].op)
    <3>1. PICK s \in 0..N-1 : s = T[k].i /\ s = T[l].i
      BY <1>2, <1>4, <2>2
    <3>2. Placed(T[k].op, k, s, 0, 0) /\ Placed(T[l].op, l, s, 0, 0)
      BY <1>4, <3>1
    <3>3. T[k].op \in {"names", "persister", "start", "add"} /\ T[l].op \in {"names", "persister", "start", "add"}
      BY <1>4, <2>2
    <3> QED
      BY <2>2, <3>2, <3>3, Ranks DEF Placed
  <2> QED
    BY <1>3, <1>5, <2>2, Ranks DEF InOrder
<1>8. ASSUME NEW s \in Servers
      PROVE  /\ 4*s + 1 \in 1..5*N /\ Op(4*s + 1) = "names" /\ Who(4*s + 1) = s
             /\ \A l \in Nat : 4*s + 1 < l => Before(l, "names", s)
             /\ \A l \in Nat : 4*s + 2 < l => Before(l, "persister", s)
             /\ \A l \in Nat : 4*s + 3 < l => Before(l, "start", s)
  <2>1. /\ 4*s + 1 \in 1..5*N /\ 4*s + 2 \in 1..5*N /\ 4*s + 3 \in 1..5*N
        /\ 0 + 4*s + 1 = 4*s + 1 /\ 0 + 4*s + 2 = 4*s + 2 /\ 0 + 4*s + 3 = 4*s + 3
    BY <1>2
  <2>2. /\ T[4*s + 1] = Kv!Do("names", s, <<>>) /\ T[4*s + 2] = Kv!Do("persister", s, <<>>)
        /\ T[4*s + 3] = Kv!Do("start", s, <<>>)
    BY <1>3, <2>1 DEF Starting
  <2>3. \A op : Kv!Do(op, s, <<>>).op = op /\ Kv!Do(op, s, <<>>).i = s
    BY DEF Kv!Do
  <2>4. /\ Op(4*s + 1) = "names" /\ Who(4*s + 1) = s /\ Op(4*s + 2) = "persister" /\ Who(4*s + 2) = s
        /\ Op(4*s + 3) = "start" /\ Who(4*s + 3) = s
    BY <1>5, <2>1, <2>2, <2>3
  <2>5. \A k \in 1..5*N, l \in Nat : k < l => k \in 1..l-1
    BY <1>2
  <2> QED
    BY <2>1, <2>4, <2>5 DEF Before
<1>9. /\ \A s \in Servers : servers[s] = Nil /\ gen[s] = 0
      /\ kvservers = {} /\ enabled = {}
      /\ \A s \in Servers, g \in Starts : disk[<<s, g>>] = 0
  BY KvFacts DEF Kv!Init, Kv!CrashInit
<1>10. KvStage
  <2>1. ASSUME NEW l \in DOMAIN todo, Op(l) = "start"
        PROVE  Before(l, "names", Who(l)) /\ Before(l, "persister", Who(l))
    <3>1. PICK s \in 0..N-1 : s = T[l].i /\ s = Who(l) /\ s \in Servers
      BY <1>2, <1>3, <1>4, <1>5
    <3>2. l = 0 + 4*s + 3
      BY <1>3, <1>4, <1>5, <2>1, <3>1 DEF Placed
    <3>3. l \in Nat /\ 4*s + 1 < l /\ 4*s + 2 < l
      BY <3>2
    <3> QED
      BY <1>8, <3>1, <3>3
  <2>2. ASSUME NEW l \in DOMAIN todo, Op(l) = "add" PROVE Before(l, "start", Who(l))
    <3>1. PICK s \in 0..N-1 : s = T[l].i /\ s = Who(l) /\ s \in Servers
      BY <1>2, <1>3, <1>4, <1>5
    <3>2. l = 0 + 4*s + 4
      BY <1>3, <1>4, <1>5, <2>2, <3>1 DEF Placed
    <3>3. l \in Nat /\ 4*s + 3 < l
      BY <3>2
    <3> QED
      BY <1>8, <3>1, <3>3
  <2>3. \A l \in DOMAIN todo : Who(l) \in Servers
    BY <1>3, <1>4, <1>5
  <2>4. 0 < MaxStarts
    BY <1>2
  <2> QED
    BY <1>9, <2>1, <2>2, <2>3, <2>4 DEF KvStage
<1>11. KvNamed
  BY <1>3, <1>4, <1>5, <1>8 DEF KvNamed
<1>12. KvUp
  <2>1. \A s \in Servers, l \in Nat : l > 4*N => Runs(l, s)
    <3>1. \A s \in Servers, l \in Nat : l > 4*N => 4*s + 3 < l
      BY <1>2
    <3> QED
      BY <1>8, <3>1 DEF Runs
  <2>2. \A s \in Servers : Runs(Len(todo) + 1, s)
    <3>1. Len(todo) = 5*N
      BY <1>3
    <3>2. 5*N + 1 \in Nat /\ 5*N + 1 > 4*N
      BY <1>2
    <3> QED
      BY <2>1, <3>1, <3>2
  <2>3. ASSUME NEW l \in DOMAIN todo, Op(l) = "connect"
        PROVE  Runs(l, Who(l)) /\ \A k \in DOMAIN todo[l].to : Runs(l, todo[l].to[k])
    <3>1. l \in 1..5*N /\ l \in Nat /\ l > 4*N /\ Who(l) \in Servers /\ todo[l].to = Kv!All
      BY <1>3, <1>4, <1>5, <2>3
    <3>2. \A k \in DOMAIN Kv!All : Kv!All[k] \in Servers
      BY StepTypes
    <3> QED
      BY <2>1, <3>1, <3>2
  <2> QED
    BY <1>9, <2>2, <2>3 DEF KvUp
<1>13. KvLinks
  <2>1. \A s \in Servers : On(s, Kv!All)
    BY StepTypes DEF On
  <2>2. \A a, b \in Servers : Kv!Together(a, b)
    <3>1. sides[1] = Kv!All
      BY DEF Kv!Init
    <3> QED
      BY <2>1, <3>1 DEF Kv!Together, Kv!ToSet, On
  <2>3. ASSUME NEW a \in Servers, NEW b \in Servers PROVE JoinedBy(5*N + 1, a, b)
    <3>1. PICK k : k = 4*N + a + 1
      OBVIOUS
    <3>2. k \in 1..(5*N + 1)-1 /\ \A m \in k+1..(5*N + 1)-1 : m \in 1..5*N /\ m > 4*N
      BY <1>2, <3>1
    <3>3. T[k].op = "connect" /\ T[k].i = a /\ T[k].to = Kv!All
      <4>1. T[k] = [op |-> "connect", i |-> a, to |-> Kv!All]
        BY <1>3, <3>1 DEF Kv!Do
      <4> QED
        BY <4>1
    <3>4. Joins(k, a, b)
      BY <1>3, <2>1, <3>3 DEF Joins, Covers, Op, Who, On
    <3>5. ASSUME NEW m \in 1..5*N, m > 4*N PROVE ~Cuts(m, a, b)
      <4>1. T[m].op = "connect"
        BY <1>2, <1>4, <3>5
      <4> QED
        BY <1>5, <4>1 DEF Cuts
    <3> QED
      BY <3>2, <3>4, <3>5 DEF JoinedBy
  <2>4. ASSUME NEW l \in DOMAIN todo, Op(l) \in {"kill", "names"}, NEW b \in Servers
        PROVE  CutBy(l, Who(l), b)
    <3>1. l \in 1..5*N /\ l <= 4*N
      BY <1>3, <1>4, <1>5, <2>4
    <3>2. \A m \in 1..l-1 : m \in 1..5*N /\ ~(m > 4*N)
      BY <1>2, <3>1
    <3>3. \A m \in 1..l-1 : ~Joins(m, Who(l), b)
      BY <1>4, <1>5, <3>2 DEF Joins
    <3> QED
      BY <1>9, <3>3 DEF CutBy, Kv!Link
  <2>5. Len(todo) = 5*N
    BY <1>3
  <2> QED
    BY <2>2, <2>3, <2>4, <2>5 DEF KvLinks
<1>14. Kv!OldInstanceSilenced
  BY <1>9 DEF Kv!OldInstanceSilenced
<1>15. Disks(Servers, Calls1)
  <2>1. heap = <<>> /\ Len(heap) = 0 /\ heap \in Seq(SUBSET Calls1)
    BY DEF Kv!Init, Kv!CrashInit
  <2> QED
    BY <2>1, KvFacts DEF Kv!Init, Kv!CrashInit, Disks, CallsOf, DiskTypes, Registered, Written
<1> QED
  BY <1>6, <1>7, <1>10, <1>11, <1>12, <1>13, <1>14, <1>15 DEF KvInv

\* A step that does what KvStep says keeps the invariant.
LEMMA StepKeeps ==
  ASSUME KvInv, NEW op, NEW s, KvStep(op, s)
  PROVE  /\ KvTypes' /\ InOrder' /\ KvStage' /\ KvNamed' /\ KvUp' /\ KvLinks'
         /\ Kv!OldInstanceSilenced'
<1> USE DEF KvInv
<1>1. KvTypes'
  BY TypesAdvance
<1>2. InOrder'
  BY FirstInOrder
<1>3. KvStage'
  BY StageAdvances
<1>4. KvNamed' /\ KvUp'
  BY UpAdvances
<1>5. KvLinks' /\ Kv!OldInstanceSilenced'
  BY LinksAdvance
<1> QED
  BY <1>1, <1>2, <1>3, <1>4, <1>5

\* A step of the clerks, the network or the handlers.
LEMMA OtherKeeps ==
  ASSUME KvInv, UNCHANGED <<todo, sides, gen, kvservers, servers, disk, saved>>,
         clerks' \subseteq Users, enabled' \subseteq ((Servers \X (0..MaxStarts)) \cup Users) \X Servers,
         \A a, b \in Servers : Kv!Link(a, b)' <=> Kv!Link(a, b),
         \A e \in enabled' : e \in enabled \/ e[1] \notin Servers \X Starts
  PROVE  /\ KvTypes' /\ InOrder' /\ KvStage' /\ KvNamed' /\ KvUp' /\ KvLinks'
         /\ Kv!OldInstanceSilenced'
<1>1. KvTypes'
  BY DEF KvInv, KvTypes, Op
<1>2. InOrder' /\ KvStage' /\ KvNamed' /\ KvUp'
  BY DEF KvInv, InOrder, KvStage, KvNamed, KvUp, Runs, Before, Op, Who
<1>3. KvLinks'
  <2>1. \A a, b : /\ Kv!Together(a, b)' <=> Kv!Together(a, b)
                  /\ \A m : (Joins(m, a, b)' <=> Joins(m, a, b)) /\ (Cuts(m, a, b)' <=> Cuts(m, a, b))
    BY DEF Kv!Together, Joins, Cuts, Covers, Op, Who
  <2>2. \A a, b \in Servers : \A l : /\ CutBy(l, a, b)' <=> CutBy(l, a, b)
                                     /\ JoinedBy(l, a, b)' <=> JoinedBy(l, a, b)
    <3> SUFFICES ASSUME NEW a \in Servers, NEW b \in Servers, NEW l
                 PROVE  (CutBy(l, a, b)' <=> CutBy(l, a, b)) /\ (JoinedBy(l, a, b)' <=> JoinedBy(l, a, b))
      OBVIOUS
    <3>1. \A m : (Joins(m, a, b)' <=> Joins(m, a, b)) /\ (Cuts(m, a, b)' <=> Cuts(m, a, b))
      BY <2>1
    <3>2. Kv!Link(a, b)' <=> Kv!Link(a, b)
      OBVIOUS
    <3>3. CutBy(l, a, b)' <=> CutBy(l, a, b)
      BY <3>1, <3>2, Zenon DEF CutBy
    <3>4. JoinedBy(l, a, b)' <=> JoinedBy(l, a, b)
      BY <3>1, <3>2, Zenon DEF JoinedBy
    <3> QED
      BY <3>3, <3>4
  <2>3. \A l \in DOMAIN todo : Who(l) \in Servers
    <3>1. todo \in Seq(KvSteps)
      BY DEF KvInv, KvTypes, KvSteps
    <3> HIDE DEF KvSteps
    <3>2. \A l \in DOMAIN todo : todo[l] \in KvSteps
      BY <3>1
    <3> QED
      BY <3>2 DEF KvSteps, Who
  <2>4. (\A a, b \in Servers : IF Kv!Together(a, b) THEN JoinedBy(Len(todo) + 1, a, b)
                                                    ELSE CutBy(Len(todo) + 1, a, b))'
    <3>1. PICK n : n = Len(todo) + 1 /\ n = Len(todo') + 1
      OBVIOUS
    <3>2. \A a, b \in Servers : IF Kv!Together(a, b) THEN JoinedBy(n, a, b) ELSE CutBy(n, a, b)
      BY <3>1 DEF KvInv, KvLinks
    <3>3. \A a, b \in Servers : (IF Kv!Together(a, b) THEN JoinedBy(n, a, b) ELSE CutBy(n, a, b))'
      BY <2>1, <2>2, <3>2
    <3> QED
      BY <3>1, <3>3
  <2>5. ASSUME NEW l \in DOMAIN todo', Op(l)' \in {"kill", "names"}, NEW b \in Servers
        PROVE  CutBy(l, Who(l), b)'
    <3>1. PICK w \in Servers : w = Who(l) /\ w = Who(l)'
      BY <2>3 DEF Who
    <3>2. CutBy(l, w, b)
      BY <2>5, <3>1 DEF KvInv, KvLinks, Op
    <3>3. CutBy(l, w, b)'
      BY <2>2, <3>2
    <3> QED
      BY <3>1, <3>3
  <2> QED
    BY <2>4, <2>5 DEF KvLinks
<1>4. Kv!OldInstanceSilenced'
  BY KvFacts DEF KvInv, Kv!OldInstanceSilenced
<1> QED
  BY <1>1, <1>2, <1>3, <1>4

\* The conjuncts of KvInv that are about the tester, and those about Persisters.
KvRest ==
  /\ KvTypes' /\ InOrder' /\ KvStage' /\ KvNamed' /\ KvUp' /\ KvLinks'
  /\ Kv!OldInstanceSilenced'
KvDisks == Disks(Servers, Calls1)' /\ Kept(Servers)

\* The first step of todo, as the actions name it.
LEMMA FirstStep ==
  ASSUME KvInv, NEW op, Kv!Step(op)
  PROVE  /\ todo # <<>> /\ op = Op(1) /\ Kv!I = Who(1) /\ Kv!To = todo[1].to /\ Who(1) \in Servers
         /\ todo[1].to \in Seq(Servers) /\ Len(todo[1].to) <= N /\ 1 \in DOMAIN todo
<1>1. todo \in Seq(KvSteps) /\ todo # <<>>
  BY DEF KvInv, KvTypes, KvSteps, Kv!Step
<1>2. Head(todo) = todo[1] /\ 1 \in DOMAIN todo /\ todo[1] \in KvSteps
  <2> HIDE DEF KvSteps
  <2> QED
    BY <1>1
<1>3. Len(todo[1].to) <= N
  BY <1>2 DEF KvInv, KvTypes
<1> QED
  BY <1>1, <1>2, <1>3 DEF Kv!Step, Kv!I, Kv!To, Op, Who, KvSteps

\* connectUnlocked and disconnectUnlocked: by then all servers have names,
\* so the test of endnames[j] instead of endnames[from[j]] does no harm.
LEMMA ConnectKeeps ==
  ASSUME KvInv, Kv!connectUnlocked \/ Kv!disconnectUnlocked
  PROVE  KvDisks /\ KvRest
<1>1. KvDisks
  <2>1. Disks(Servers, Calls1) /\ QuietStep
    BY DEF KvInv, QuietStep, Kv!connectUnlocked, Kv!disconnectUnlocked, Kv!callVars
  <2> QED
    BY <2>1, QuietKeeps DEF KvDisks
<1>2. PICK s, t : s = Kv!I /\ t = Kv!To
  OBVIOUS
<1>3. /\ UNCHANGED <<servers, disk, saved, gen, kvservers, clerks, sides>> /\ todo' = Tail(todo)
  BY DEF Kv!connectUnlocked, Kv!disconnectUnlocked, Kv!callVars, Kv!kvVars, Kv!Advance
<1>4. /\ todo # <<>> /\ s = Who(1) /\ s \in Servers /\ t = todo[1].to /\ t \in Seq(Servers) /\ Len(t) <= N
      /\ 1 \in DOMAIN todo
  BY <1>2, FirstStep DEF Kv!connectUnlocked, Kv!disconnectUnlocked
<1>5. /\ Len(t) \in Nat /\ DOMAIN t = 1..Len(t) /\ \A k \in DOMAIN t : t[k] \in Servers
  BY <1>4
<1>6. \A a, b \in Servers : Covers(1, a, b) <=> (s = a /\ On(b, t)) \/ (s = b /\ On(a, t))
  BY <1>4 DEF Covers, On
<1>7. gen \in [Servers -> 0..MaxStarts]
  BY DEF KvInv, KvTypes
<1>8. CASE Kv!connectUnlocked
  <2>1. Op(1) = "connect"
    BY <1>8, FirstStep DEF Kv!connectUnlocked
  <2>2. enabled' = enabled \cup {<< <<s, gen[s]>>, t[k]>> : k \in DOMAIN t}
                           \cup {<< <<t[k], gen[t[k]]>>, s>> : k \in DOMAIN t}
    BY <1>2, <1>8 DEF Kv!connectUnlocked, Kv!Out
  <2>3. ASSUME NEW e \in enabled', e \notin enabled
        PROVE  \E a, b \in Servers : Covers(1, a, b) /\ e = << <<a, gen[a]>>, b>>
    BY <1>4, <1>5, <1>6, <2>2, <2>3 DEF On
  <2>4. \A a, b \in Servers : Covers(1, a, b) => << <<a, gen[a]>>, b>> \in enabled'
    BY <1>6, <2>2 DEF On
  <2>5. enabled \subseteq enabled'
    BY <2>2
  <2>6. ASSUME NEW a \in Servers, NEW b \in Servers
        PROVE  Kv!Link(a, b)' <=> Joins(1, a, b) \/ (Kv!Link(a, b) /\ ~Cuts(1, a, b))
    <3>1. ~Cuts(1, a, b) /\ (Joins(1, a, b) <=> Covers(1, a, b))
      BY <2>1 DEF Cuts, Joins
    <3>2. Kv!Link(a, b)' <=> << <<a, gen[a]>>, b>> \in enabled'
      BY <1>3 DEF Kv!Link
    <3>3. ASSUME << <<a, gen[a]>>, b>> \in enabled', << <<a, gen[a]>>, b>> \notin enabled
          PROVE  Covers(1, a, b)
      BY <2>3, <3>3
    <3> QED
      BY <2>4, <2>5, <3>1, <3>2, <3>3 DEF Kv!Link
  <2>7. KvStep("connect", s)
    BY <1>3, <1>4, <1>7, <2>1, <2>3, <2>6 DEF KvStep, Joins, KvInv, Disks, DiskTypes
  <2> QED
    BY <1>1, <2>7, StepKeeps DEF KvRest
<1>9. CASE Kv!disconnectUnlocked
  <2>1. Op(1) = "disconnect"
    BY <1>9, FirstStep DEF Kv!disconnectUnlocked
  <2>2. \A p \in Servers : gen[p] # 0
    BY <1>4, <2>1 DEF KvInv, KvNamed
  <2>3. \A k \in DOMAIN t : gen[k-1] # 0
    <3>1. \A k \in DOMAIN t : k - 1 \in Servers
      BY <1>4, <1>5, KvFacts DEF Servers
    <3> QED
      BY <2>2, <3>1
  <2>4. enabled' = enabled \ ( {<< <<s, gen[s]>>, t[k]>> : k \in DOMAIN t} \cup
                               {<< <<t[k], gen[t[k]]>>, s>> : k \in DOMAIN t} )
    <3>1. enabled' = enabled \ ( {<< <<s, gen[s]>>, t[k]>> : k \in DOMAIN t} \cup
                               {<< <<t[k], gen[t[k]]>>, s>> : k \in {k \in DOMAIN t : gen[k-1] # 0}} )
      BY <1>2, <1>4, <1>9, <2>2 DEF Kv!disconnectUnlocked, Kv!Out
    <3>2. {k \in DOMAIN t : gen[k-1] # 0} = DOMAIN t
      BY <2>3
    <3> QED
      BY <3>1, <3>2
  <2>5. \A a, b \in Servers : << <<a, gen[a]>>, b>> \in enabled' <=>
          << <<a, gen[a]>>, b>> \in enabled /\ ~Covers(1, a, b)
    BY <1>4, <1>5, <1>6, <2>4 DEF On
  <2>6. ASSUME NEW a \in Servers, NEW b \in Servers
        PROVE  Kv!Link(a, b)' <=> Joins(1, a, b) \/ (Kv!Link(a, b) /\ ~Cuts(1, a, b))
    <3>1. ~Joins(1, a, b) /\ (Cuts(1, a, b) <=> Covers(1, a, b))
      BY <2>1 DEF Cuts, Joins
    <3> QED
      BY <1>3, <2>5, <3>1 DEF Kv!Link
  <2>7. enabled' \subseteq enabled
    BY <2>4
  <2>8. KvStep("disconnect", s)
    BY <1>3, <1>4, <1>7, <2>1, <2>6, <2>7 DEF KvStep, KvInv, Disks, DiskTypes
  <2> QED
    BY <1>1, <2>8, StepKeeps DEF KvRest
<1> QED
  BY <1>8, <1>9

\* The steps of ShutdownServer and StartServer.
LEMMA LifeKeeps ==
  ASSUME KvInv,
         \/ Kv!DeleteServer \/ Kv!CopySaved \/ Kv!KillServer \/ Kv!FreshEnds
         \/ Kv!FreshPersister \/ Kv!StartKVServer \/ Kv!AddServer
  PROVE  KvDisks /\ KvRest
<1> USE DEF Kv!Advance, Kv!callVars, Kv!crashVars, Kv!kvVars
<1>0. PICK s : s = Kv!I
  OBVIOUS
<1>1. ASSUME NEW op, Kv!Step(op) PROVE todo # <<>> /\ op = Op(1) /\ s = Who(1) /\ s \in Servers /\ 1 \in DOMAIN todo
  BY <1>0, <1>1, FirstStep
<1>2. /\ Disks(Servers, Calls1) /\ Nil \notin Servers \X Starts
      /\ gen \in [Servers -> 0..MaxStarts] /\ MaxStarts \in Nat
      /\ servers \in [Servers -> (Servers \X Starts) \cup {Nil}] /\ saved \in [Servers -> 0..Len(heap)]
      /\ Len(heap) \in Nat
  BY KvFacts DEF KvInv, KvTypes, Disks, DiskTypes
<1>3. \A o, p : ~Before(1, o, p)
  BY DEF Before
<1>4. 1 \in DOMAIN todo /\ Rank(Op(1)) > 1 => servers[Who(1)] = Nil
  BY <1>3 DEF KvInv, KvStage
<1>5. CASE Kv!DeleteServer
  <2>1. DeleteStep(s)
    BY <1>0, <1>5 DEF DeleteStep, Kv!DeleteServer
  <2>2. Kv!Step("delete")
    BY <1>5 DEF Kv!DeleteServer
  <2>3. KvStep("delete", s)
    BY <1>0, <1>1, <1>2, <1>5, <2>2 DEF Kv!DeleteServer, KvStep
  <2> QED
    BY <1>1, <1>2, <2>1, <2>2, <2>3, DeleteKeeps, StepKeeps DEF KvDisks, KvRest
<1>6. CASE Kv!CopySaved
  <2>1. Kv!Step("copy")
    BY <1>6 DEF Kv!CopySaved
  <2>2. servers[s] = Nil
    BY <1>1, <1>4, <2>1, Ranks
  <2>3. KvDisks
    <3>1. CASE saved[s] # 0
      <4>1. CopyStep(s)
        BY <1>0, <1>6, <3>1 DEF CopyStep, Holds, Kv!CopySaved, Kv!Supersede, Kv!Copy
      <4> QED
        BY <1>1, <1>2, <2>1, <2>2, <4>1, CopyKeeps DEF KvDisks
    <3>2. CASE saved[s] = 0
      <4>1. QuietStep
        BY <1>0, <1>6, <3>2 DEF QuietStep, Kv!CopySaved
      <4> QED
        BY <1>2, <4>1, QuietKeeps DEF KvDisks
    <3> QED
      BY <3>1, <3>2
  <2>4. KvStep("copy", s)
    <3>1. (\A p \in Servers : p # s => saved'[p] = saved[p]) /\ (saved[s] # 0 => saved'[s] # 0)
      BY <1>0, <1>1, <1>2, <1>6, <2>1 DEF Kv!CopySaved, Kv!Supersede
    <3>2. UNCHANGED <<enabled, servers, disk, gen, kvservers, clerks, sides>> /\ todo' = Tail(todo)
      BY <1>6 DEF Kv!CopySaved
    <3> QED
      BY <1>1, <1>2, <2>1, <3>1, <3>2 DEF KvStep
  <2> QED
    BY <2>3, <2>4, StepKeeps DEF KvRest
<1>7. CASE Kv!KillServer
  <2>1. QuietStep
    BY <1>7 DEF QuietStep, Kv!KillServer
  <2>2. Kv!Step("kill")
    BY <1>7 DEF Kv!KillServer
  <2>3. KvStep("kill", s)
    BY <1>0, <1>1, <1>2, <1>7, <2>2 DEF Kv!KillServer, KvStep
  <2> QED
    BY <1>2, <2>1, <2>3, QuietKeeps, StepKeeps DEF KvDisks, KvRest
<1>8. CASE Kv!FreshEnds
  <2>1. QuietStep
    BY <1>8 DEF QuietStep, Kv!FreshEnds
  <2>2. Kv!Step("names")
    BY <1>8 DEF Kv!FreshEnds
  <2>3. KvStep("names", s)
    BY <1>0, <1>1, <1>2, <1>8, <2>2 DEF Kv!FreshEnds, KvStep
  <2> QED
    BY <1>2, <2>1, <2>3, QuietKeeps, StepKeeps DEF KvDisks, KvRest
<1>9. CASE Kv!FreshPersister
  <2>1. Kv!Step("persister")
    BY <1>9 DEF Kv!FreshPersister
  <2>2. servers[s] = Nil
    BY <1>1, <1>4, <2>1, Ranks
  <2>3. CopyStep(s)
    BY <1>0, <1>9 DEF CopyStep, Holds, Kv!FreshPersister, Kv!Supersede, Kv!Copy
  <2>4. KvDisks
    BY <1>1, <1>2, <2>1, <2>2, <2>3, CopyKeeps DEF KvDisks
  <2>5. KvStep("persister", s)
    <3>1. (\A p \in Servers : p # s => saved'[p] = saved[p]) /\ saved'[s] # 0
      BY <1>0, <1>1, <1>2, <1>9, <2>1 DEF Kv!FreshPersister, Kv!Supersede
    <3>2. UNCHANGED <<enabled, servers, disk, gen, kvservers, clerks, sides>> /\ todo' = Tail(todo)
      BY <1>9 DEF Kv!FreshPersister
    <3> QED
      BY <1>1, <1>2, <2>1, <3>1, <3>2 DEF KvStep
  <2> QED
    BY <2>4, <2>5, StepKeeps DEF KvRest
<1>10. CASE Kv!StartKVServer
  <2>1. Kv!Step("start")
    BY <1>10 DEF Kv!StartKVServer
  <2>2. s \in Servers /\ gen[s] # 0 /\ disk[<<s, gen[s]>>] = 0
    BY <1>1, <1>3, <2>1 DEF KvInv, KvStage
  <2>3. gen[s] \in Starts
    BY <1>2, <2>2 DEF Starts
  <2>4. StartStep(s, gen[s])
    BY <1>0, <1>10 DEF StartStep, Kv!StartKVServer
  <2>5. KvStep("start", s)
    BY <1>0, <1>1, <1>2, <1>10, <2>1 DEF Kv!StartKVServer, KvStep
  <2> QED
    BY <1>2, <2>2, <2>3, <2>4, <2>5, StartKeeps, StepKeeps DEF KvDisks, KvRest
<1>11. CASE Kv!AddServer
  <2>1. Kv!Step("add")
    BY <1>11 DEF Kv!AddServer
  <2>2. s \in Servers /\ gen[s] # 0 /\ saved[s] # 0 /\ disk[<<s, gen[s]>>] = saved[s]
    BY <1>1, <1>3, <2>1 DEF KvInv, KvStage
  <2>3. gen[s] \in Starts
    BY <1>2, <2>2 DEF Starts
  <2>4. AddStep(s, gen[s])
    BY <1>0, <1>11 DEF AddStep, Kv!AddServer
  <2>5. KvStep("add", s)
    BY <1>0, <1>1, <1>2, <1>11, <2>1 DEF Kv!AddServer, KvStep
  <2> QED
    BY <1>2, <2>2, <2>3, <2>4, <2>5, AddKeeps, StepKeeps DEF KvDisks, KvRest
<1> QED
  BY <1>5, <1>6, <1>7, <1>8, <1>9, <1>10, <1>11

\* There are N servers, and no more in a subset of them.
LEMMA ServersFinite ==
  /\ IsFiniteSet(Servers) /\ Cardinality(Servers) = N
  /\ \A P \in SUBSET Servers : IsFiniteSet(P) /\ Cardinality(P) \in Nat /\ Cardinality(P) <= N
<1>1. N \in Nat \ {0}
  BY KvFacts
<1>2. IsFiniteSet(0..N-1) /\ Cardinality(0..N-1) = N
  <2>1. 0 \in Int /\ N-1 \in Int /\ ~(0 > N-1) /\ (N-1)-0+1 = N
    BY <1>1
  <2> QED
    BY <2>1, FS_Interval
<1>3. ASSUME NEW P \in SUBSET Servers PROVE IsFiniteSet(P) /\ Cardinality(P) \in Nat /\ Cardinality(P) <= N
  BY <1>2, FS_Subset, FS_CardinalityType DEF Servers
<1> QED
  BY <1>2, <1>3 DEF Servers

\* KvHarness means the same by Cardinality.
LEMMA KvCardinality ==
  \A S : Kv!Cardinality(S) = Cardinality(S)
BY Zenon DEF Kv!Cardinality, Cardinality

\* A list of the servers in P names them and no others.
LEMMA ListsOf ==
  ASSUME NEW P \in SUBSET Servers, NEW p \in Kv!Lists(P)
  PROVE  p \in Seq(Servers) /\ Len(p) <= N /\ \A s \in Servers : On(s, p) <=> s \in P
<1>1. PICK n : n = Cardinality(P)
  OBVIOUS
<1>2. n \in Nat /\ n <= N /\ p \in [1..n -> P] /\ Kv!ToSet(p) = P
  <2>1. n \in Nat /\ n <= N
    BY <1>1, ServersFinite
  <2>2. p \in [1..n -> P] /\ Kv!ToSet(p) = P
    <3>1. Kv!Cardinality(P) = n
      BY <1>1, KvCardinality
    <3> QED
      BY <3>1, Zenon DEF Kv!Lists
  <2> QED
    BY <2>1, <2>2
<1>3. p \in Seq(Servers) /\ Len(p) = n
  BY <1>2
<1> QED
  BY <1>2, <1>3 DEF On, Kv!ToSet

\* The list whose only step looks for the leader.
LEMMA LookList ==
  ASSUME KvInv, NEW s \in Servers, todo' = <<Kv!Do("look", s, <<>>)>>, sides' = sides,
         UNCHANGED <<servers, disk, saved, enabled, gen, kvservers, clerks>>
  PROVE  NewList(<<Kv!Do("look", s, <<>>)>>, sides)
<1>1. PICK r : r = Kv!Do("look", s, <<>>)
  OBVIOUS
<1>2. r \in KvSteps /\ Len(r.to) = 0
  <2>1. "look" \in KvOps
    BY DEF KvOps
  <2>2. r \in KvSteps
    BY <1>1, <2>1, StepTypes
  <2>3. r.to = <<>>
    BY <1>1 DEF Kv!Do
  <2> QED
    BY <2>2, <2>3
<1>3. /\ <<r>> \in Seq(KvSteps) /\ DOMAIN <<r>> = {1} /\ Len(<<r>>) = 1 /\ <<r>>[1] = r
  <2> HIDE DEF KvSteps
  <2> QED
    BY <1>2
<1>4. 0 <= N /\ sides \in Seq(Servers) \X Seq(Servers)
  BY KvFacts DEF KvInv, KvTypes
<1> QED
  BY <1>1, <1>2, <1>3, <1>4 DEF NewList

\* The beginnings of all procedures.
LEMMA BeginKeeps ==
  ASSUME KvInv, Kv!Repartition \/ Kv!PartitionLeader \/ Kv!Heal \/ Kv!Restart
  PROVE  KvDisks /\ KvRest
<1> USE DEF Kv!callVars, Kv!crashVars, Kv!kvVars
<1>1. /\ todo = <<>>
      /\ UNCHANGED <<enabled, servers, caller, handler, via, inst, heap, disk, saved, gen, kvservers, clerks>>
  BY DEF Kv!Repartition, Kv!PartitionLeader, Kv!Heal, Kv!Restart, Kv!Begin
<1>2. KvDisks
  <2>1. QuietStep
    BY <1>1 DEF QuietStep
  <2> QED
    BY <2>1, QuietKeeps DEF KvDisks, KvInv
<1>3. KvIdle
  BY <1>1, IdleWhenDone DEF KvInv
<1>4. Kv!Servers = Servers
  BY KvFacts
<1>5. CASE Kv!Repartition
  <2>1. PICK P \in SUBSET Servers : \E p \in Kv!Lists(P), q \in Kv!Lists(Servers \ P) :
          todo' = Kv!partition(p, q) /\ sides' = <<p, q>>
    BY <1>4, <1>5 DEF Kv!Repartition, Kv!Begin
  <2>2. PICK p \in Kv!Lists(P), q \in Kv!Lists(Servers \ P) :
          todo' = Kv!partition(p, q) /\ sides' = <<p, q>>
    BY <2>1
  <2>3. /\ p \in Seq(Servers) /\ Len(p) <= N /\ \A s \in Servers : On(s, p) <=> s \in P
        /\ q \in Seq(Servers) /\ Len(q) <= N /\ \A s \in Servers : On(s, q) <=> s \in Servers \ P
    BY ListsOf
  <2>4. \A s \in Servers : On(s, p) <=> ~On(s, q)
    BY <2>3
  <2> QED
    BY <1>1, <1>2, <1>3, <2>2, <2>3, <2>4, PartitionKeeps DEF KvRest
<1>6. CASE Kv!PartitionLeader
  <2>1. NewList(<<Kv!Do("look", 0, <<>>)>>, sides) /\ 0 \in Servers
    BY <1>1, <1>6, LookList, KvFacts DEF Kv!PartitionLeader, Kv!Begin, Servers
  <2> QED
    BY <1>2, <1>3, <2>1, LookKeeps DEF KvRest
<1>7. CASE Kv!Heal
  <2>1. todo' = Kv!ConnectAll /\ sides' = <<Kv!All, <<>>>>
    BY <1>7 DEF Kv!Heal, Kv!Begin
  <2>2. NewList(Kv!ConnectAll, <<Kv!All, <<>>>>)
    <3>1. PICK T : T = Kv!ConnectAll
      OBVIOUS
    <3>2. T \in Seq(KvSteps) /\ DOMAIN T = 1..N /\ \A l \in 1..N : \E s \in Servers : IsConnect(T, 0, l, s)
      <4>1. T \in Seq(KvSteps) /\ Len(T) = N /\ \A l \in 1..N : \E s \in Servers : IsConnect(T, 0, l, s)
        BY <3>1, ConnectSteps
      <4> HIDE DEF KvSteps
      <4> QED
        BY <4>1
    <3>3. \A l \in 1..N : T[l].op = "connect" /\ T[l].to = Kv!All
      <4> SUFFICES ASSUME NEW l \in 1..N PROVE T[l].op = "connect" /\ T[l].to = Kv!All
        OBVIOUS
      <4>1. PICK s \in Servers : IsConnect(T, 0, l, s)
        BY <3>2
      <4>2. T[l] = [op |-> "connect", i |-> s, to |-> Kv!All]
        BY <4>1 DEF IsConnect, Kv!Do
      <4> QED
        BY <4>2
    <3>4. Len(Kv!All) <= N /\ <<Kv!All, <<>>>> \in Seq(Servers) \X Seq(Servers)
      <4>1. Kv!All \in Seq(Servers) /\ Len(Kv!All) = N /\ <<>> \in Seq(Servers)
        BY StepTypes
      <4>2. N <= N
        BY KvFacts
      <4> QED
        BY <4>1, <4>2
    <3> QED
      BY <1>1, <2>1, <3>1, <3>2, <3>3, <3>4 DEF NewList
  <2> QED
    BY <1>2, <1>3, <2>2, HealKeeps DEF KvRest
<1>8. CASE Kv!Restart
  <2>1. \A s \in Servers : gen[s] < MaxStarts
    BY <1>4, <1>8 DEF Kv!Restart
  <2>2. todo' = Restarts /\ sides' = <<Kv!All, <<>>>>
    BY <1>8 DEF Kv!Restart, Kv!Begin, Restarts
  <2> QED
    BY <1>1, <1>2, <1>3, <2>1, <2>2, RestartKeeps DEF KvRest
<1> QED
  BY <1>5, <1>6, <1>7, <1>8

\* The loop of Leader, and the partition that follows it.
LEMMA LookSteps ==
  ASSUME KvInv, Kv!Leader \/ Kv!LookOn
  PROVE  KvDisks /\ KvRest
<1> USE DEF Kv!callVars, Kv!crashVars, Kv!kvVars
<1>1. UNCHANGED <<enabled, servers, caller, handler, via, inst, heap, disk, saved, gen, kvservers, clerks>>
  BY DEF Kv!Leader, Kv!LookOn
<1>2. KvDisks
  <2>1. QuietStep
    BY <1>1 DEF QuietStep
  <2> QED
    BY <2>1, QuietKeeps DEF KvDisks, KvInv
<1>3. Kv!Step("look")
  BY DEF Kv!Leader, Kv!LookOn
<1>4. todo # <<>> /\ Op(1) = "look" /\ Kv!I \in Servers
  BY <1>3, FirstStep
<1>5. KvIdle
  BY <1>4, IdleWhenDone DEF KvInv
<1>6. CASE Kv!Leader
  <2>1. PICK l \in Servers : sides' = Kv!make_partition(l)
    BY <1>4, <1>6, KvFacts DEF Kv!Leader, Servers
  <2>2. PICK p, q, h : Kv!make_partition(l) = <<p, q>> /\ MinoritySides(p, q, l, h)
    BY MakePartition
  <2>3. sides' = <<p, q>> /\ todo' = Kv!partition(p, q)
    BY <1>6, <2>1, <2>2 DEF Kv!Leader
  <2>4. p \in Seq(Servers) /\ q \in Seq(Servers) /\ Len(p) <= N /\ Len(q) <= N
    BY <2>2 DEF MinoritySides
  <2>5. \A s \in Servers : On(s, p) <=> ~On(s, q)
    BY <2>2 DEF MinoritySides
  <2> QED
    BY <1>1, <1>2, <1>5, <2>3, <2>4, <2>5, PartitionKeeps DEF KvRest
<1>7. CASE Kv!LookOn
  <2>1. PICK s : s = Kv!I + 1
    OBVIOUS
  <2>2. s \in Servers
    BY <1>4, <1>7, <2>1, KvFacts DEF Kv!LookOn, Servers
  <2>3. NewList(<<Kv!Do("look", s, <<>>)>>, sides)
    BY <1>1, <1>7, <2>1, <2>2, LookList DEF Kv!LookOn
  <2> QED
    BY <1>2, <1>5, <2>2, <2>3, LookKeeps DEF KvRest
<1> QED
  BY <1>6, <1>7

\* A step that changes the ends of one clerk.
LEMMA ClerkLinks ==
  ASSUME KvInv, NEW ck \in Users, UNCHANGED <<todo, sides, gen, kvservers, servers, disk, saved>>,
         clerks' \subseteq Users,
         enabled' \subseteq ((Servers \X (0..MaxStarts)) \cup Users) \X Servers,
         \A e : e[1] # ck => (e \in enabled' <=> e \in enabled)
  PROVE  KvRest
<1>1. ck \notin Servers \X Starts
  BY KvFacts
<1>2. ASSUME NEW a \in Servers, NEW b \in Servers PROVE Kv!Link(a, b)' <=> Kv!Link(a, b)
  <2>1. gen[a] \in 0..MaxStarts
    BY DEF KvInv, KvTypes
  <2>2. << <<a, gen[a]>>, b>>[1] # ck
    BY <2>1, KvFacts
  <2> QED
    BY <2>2 DEF Kv!Link
<1>3. \A e \in enabled' : e \in enabled \/ e[1] \notin Servers \X Starts
  BY <1>1
<1> QED
  BY <1>2, <1>3, OtherKeeps DEF KvRest

\* makeClient, ConnectClient and DisconnectClient.
LEMMA ClerkKeeps ==
  ASSUME KvInv, NEW ck \in Users,
         Kv!makeClient(ck) \/ Kv!ConnectClient(ck) \/ Kv!DisconnectClient(ck)
  PROVE  KvDisks /\ KvRest
<1> USE DEF Kv!callVars, Kv!crashVars, Kv!kvVars
<1>1. KvDisks
  <2>1. QuietStep
    BY DEF QuietStep, Kv!makeClient, Kv!ConnectClient, Kv!DisconnectClient
  <2> QED
    BY <2>1, QuietKeeps DEF KvDisks, KvInv
<1>2. UNCHANGED <<todo, sides, gen, kvservers, servers, disk, saved>>
  BY DEF Kv!makeClient, Kv!ConnectClient, Kv!DisconnectClient
<1>4. clerks' \subseteq Users
  BY DEF KvInv, KvTypes, Kv!makeClient, Kv!ConnectClient, Kv!DisconnectClient
<1>5. enabled \subseteq ((Servers \X (0..MaxStarts)) \cup Users) \X Servers
  BY DEF KvInv, KvTypes
<1>6. PICK to \in SUBSET Servers : enabled' \subseteq enabled \cup {<<ck, j>> : j \in to}
                                  /\ \A e \in enabled : e[1] # ck => e \in enabled'
  <2>1. CASE Kv!makeClient(ck)
    <3>1. \A t \in Seq(Servers) : Kv!ToSet(t) \subseteq Servers
      BY DEF Kv!ToSet
    <3>2. Kv!All \in Seq(Servers) /\ sides[1] \in Seq(Servers) /\ sides[2] \in Seq(Servers)
      BY StepTypes DEF KvInv, KvTypes
    <3> QED
      BY <2>1, <3>1, <3>2 DEF Kv!makeClient, Kv!Ends
  <2>2. CASE Kv!ConnectClient(ck) \/ Kv!DisconnectClient(ck)
    BY <2>2, KvFacts DEF Kv!ConnectClient, Kv!DisconnectClient, Kv!Ends
  <2> QED
    BY <2>1, <2>2
<1>7. enabled' \subseteq ((Servers \X (0..MaxStarts)) \cup Users) \X Servers
  BY <1>5, <1>6
<1>8. \A e : e[1] # ck => (e \in enabled' <=> e \in enabled)
  BY <1>6
<1> QED
  BY <1>1, <1>2, <1>4, <1>7, <1>8, ClerkLinks

\* A step that changes no end at all.
LEMMA CallsKeep ==
  ASSUME KvInv, UNCHANGED <<todo, sides, gen, kvservers, servers, disk, saved, enabled>>,
         clerks' \subseteq Users
  PROVE  KvRest
<1>1. \A a, b \in Servers : Kv!Link(a, b)' <=> Kv!Link(a, b)
  BY DEF Kv!Link
<1>2. enabled' \subseteq ((Servers \X (0..MaxStarts)) \cup Users) \X Servers
  BY DEF KvInv, KvTypes
<1> QED
  BY <1>1, <1>2, OtherKeeps DEF KvRest

\* Every step keeps the invariant, and no Persister loses an update.
LEMMA KvNext ==
  ASSUME KvInv, Kv!Next
  PROVE  KvInv' /\ Kept(Servers)
<1> USE DEF Kv!callVars, Kv!crashVars, Kv!kvVars
<1> DEFINE Good == KvDisks /\ KvRest
<1>0. Disks(Servers, Calls1) /\ Nil \notin Servers \X Starts /\ clerks \subseteq Users /\ Kv!Servers = Servers
  BY KvFacts DEF KvInv, KvTypes
<1>1. ASSUME Kv!Tester PROVE Good
  BY <1>1, BeginKeeps, ConnectKeeps, LifeKeeps, LookSteps DEF Kv!Tester
<1>2. ASSUME NEW ck \in Users,
             Kv!makeClient(ck) \/ Kv!ConnectClient(ck) \/ Kv!DisconnectClient(ck)
      PROVE  Good
  BY <1>2, ClerkKeeps
<1>3. ASSUME NEW ck \in Users, Kv!deleteClient(ck) PROVE Good
  <2>1. KvDisks
    BY <1>0, <1>3, QuietKeeps DEF KvDisks, QuietStep, Kv!deleteClient
  <2> QED
    BY <1>0, <1>3, <2>1, CallsKeep DEF Kv!deleteClient
<1>4. ASSUME NEW c \in Calls1, Kv!ClerkCalls(c) \/ Kv!ServerCalls(c) PROVE Good
  <2>1. \E s \in Servers : SendStep(c, s)
    BY <1>0, <1>4 DEF SendStep, Kv!ClerkCalls, Kv!ServerCalls, Kv!Call, Kv!Send
  <2>2. KvDisks
    BY <1>0, <2>1, SendKeeps DEF KvDisks
  <2>3. UNCHANGED <<todo, sides, gen, kvservers, servers, disk, saved, enabled, clerks>>
    BY <1>4 DEF Kv!ClerkCalls, Kv!ServerCalls, Kv!Call, Kv!Send
  <2> QED
    BY <1>0, <2>2, <2>3, CallsKeep
<1>5. ASSUME NEW c \in Calls1, UNCHANGED <<Kv!kvVars, todo>>,
             Kv!Deliver(c) \/ Kv!Save(c) \/ Kv!Refuse(c) \/ Kv!Reply(c) \/ Kv!Fail(c)
      PROVE  Good
  <2>1. NetStep(c)
    BY <1>5 DEF NetStep, Kv!Deliver, Kv!Save, Kv!Refuse, Kv!Reply, Kv!Fail, Kv!Handled,
       Kv!IsServerDead
  <2>2. KvDisks
    BY <1>0, <2>1, NetKeeps DEF KvDisks
  <2>3. UNCHANGED <<todo, sides, gen, kvservers, servers, disk, saved, enabled, clerks>>
    BY <1>5, <2>1 DEF NetStep
  <2> QED
    BY <1>0, <2>2, <2>3, CallsKeep
<1>6. Good
  <2> HIDE DEF Good
  <2> QED
    BY <1>1, <1>2, <1>3, <1>4, <1>5 DEF Kv!Next, Kv!Network
<1> QED
  BY <1>6 DEF KvDisks, KvRest, KvInv

\* The set that a list of m elements names has at most m elements, and m
\* when none is named twice.
LEMMA ListCardinality ==
  ASSUME NEW m \in Nat, NEW f, DOMAIN f = 1..m, NEW T, f \in [1..m -> T], \A t \in T : \E x \in 1..m : f[x] = t
  PROVE  /\ IsFiniteSet(T) /\ Cardinality(T) \in Nat /\ Cardinality(T) <= m
         /\ (\A x, y \in 1..m : f[x] = f[y] => x = y) => Cardinality(T) = m
<1>1. IsFiniteSet(1..m) /\ Cardinality(1..m) = m
  <2>1. CASE m = 0
    <3>1. 1 > m
      BY <2>1
    <3> QED
      BY <2>1, <3>1, FS_Interval
  <2>2. CASE m # 0
    <3>1. ~(1 > m) /\ m - 1 + 1 = m
      BY <2>2
    <3> QED
      BY <3>1, FS_Interval
  <2> QED
    BY <2>1, <2>2
<1>2. f \in Surjection(1..m, T)
  BY DEF Surjection
<1>3. /\ IsFiniteSet(T) /\ Cardinality(T) <= Cardinality(1..m)
      /\ Cardinality(T) = Cardinality(1..m) <=> f \in Injection(1..m, T)
  BY <1>1, <1>2, FS_Surjection
<1>4. Cardinality(T) \in Nat
  BY <1>3, FS_CardinalityType
<1>5. (\A x, y \in 1..m : f[x] = f[y] => x = y) => f \in Injection(1..m, T)
  BY DEF Injection, IsInjective
<1> QED
  BY <1>1, <1>3, <1>4, <1>5

\* Between procedures the links are those of the last partition.
LEMMA PartitionedWhenDone ==
  ASSUME KvInv
  PROVE  Kv!Partitioned
<1> SUFFICES ASSUME todo = <<>>
             PROVE  \A a, b \in Servers : Kv!Link(a, b) <=> Kv!Together(a, b)
  BY KvFacts DEF Kv!Partitioned
<1> QED
  BY IdleWhenDone DEF KvInv, KvIdle

\* After make_partition and partition, the leader reaches n/2 servers at
\* most, itself among them, and the n/2 + 1 others reach each other.
LEMMA MinorityWhenDone ==
  ASSUME KvInv
  PROVE  Kv!LeaderInMinority
<1> SUFFICES ASSUME todo = <<>>, NEW l0 \in Servers, sides = Kv!make_partition(l0)
             PROVE  LET l == sides[2][Len(sides[2])]
                    IN  /\ 2 * Kv!Cardinality({j \in Servers : Kv!Link(l, j) \/ Kv!Link(j, l)}) < N
                        /\ \E M \in SUBSET (Servers \ {l}) :
                             2 * Kv!Cardinality(M) > N /\ \A x, y \in M : Kv!Link(x, y)
  BY KvFacts DEF Kv!LeaderInMinority
<1>1. \A a, b \in Servers : Kv!Link(a, b) <=> Kv!Together(a, b)
  BY PartitionedWhenDone, KvFacts DEF Kv!Partitioned
<1>2. PICK p, q, h : sides = <<p, q>> /\ MinoritySides(p, q, l0, h)
  BY MakePartition
<1>3. /\ p \in Seq(Servers) /\ Len(p) = h + 1 /\ q \in Seq(Servers) /\ Len(q) = h
      /\ N = 2*h + 1 /\ h \in Nat \ {0} /\ q[h] = l0
      /\ \A s \in Servers : On(s, p) <=> ~On(s, q)
      /\ \A x, y \in 1..h + 1 : p[x] = p[y] => x = y
  BY <1>2 DEF MinoritySides
<1>4. sides[2][Len(sides[2])] = l0 /\ sides[1] = p /\ sides[2] = q
  BY <1>2, <1>3
<1>5. DOMAIN p = 1..h+1 /\ DOMAIN q = 1..h /\ h + 1 \in Nat
  BY <1>3
<1>6. \A a, b \in Servers : Kv!Link(a, b) <=> (On(a, p) /\ On(b, p)) \/ (On(a, q) /\ On(b, q))
  <2>1. \A s : (s \in Kv!ToSet(p) <=> On(s, p)) /\ (s \in Kv!ToSet(q) <=> On(s, q))
    BY DEF Kv!ToSet, On
  <2>2. \A a, b : Kv!Together(a, b) <=> {a, b} \subseteq Kv!ToSet(p) \/ {a, b} \subseteq Kv!ToSet(q)
    BY <1>4 DEF Kv!Together
  <2> QED
    BY <1>1, <2>1, <2>2
<1>7. On(l0, q) /\ ~On(l0, p)
  <2>1. h \in 1..h
    BY <1>3
  <2>2. On(l0, q)
    BY <1>3, <1>5, <2>1 DEF On
  <2> QED
    BY <1>3, <2>2
<1>8. PICK J : J = {j \in Servers : Kv!Link(l0, j) \/ Kv!Link(j, l0)}
  OBVIOUS
<1>9. 2 * Kv!Cardinality(J) < N
  <2>1. q \in [1..h -> J]
    <3>1. \A x \in 1..h : q[x] \in Servers /\ On(q[x], q)
      BY <1>3, <1>5 DEF On
    <3>2. \A x \in 1..h : q[x] \in J
      BY <1>6, <1>7, <1>8, <3>1
    <3> QED
      BY <1>3, <1>5, <3>2
  <2>2. \A j \in J : \E x \in 1..h : q[x] = j
    BY <1>5, <1>6, <1>7, <1>8 DEF On
  <2>3. Cardinality(J) \in Nat /\ Cardinality(J) <= h
    BY <1>3, <1>5, <2>1, <2>2, ListCardinality
  <2>4. Kv!Cardinality(J) = Cardinality(J)
    BY KvCardinality
  <2> QED
    BY <1>3, <2>3, <2>4
<1>10. PICK M : M = {s \in Servers : On(s, p)}
  OBVIOUS
<1>11. M \in SUBSET (Servers \ {l0}) /\ \A x, y \in M : Kv!Link(x, y)
  BY <1>6, <1>7, <1>10
<1>12. 2 * Kv!Cardinality(M) > N
  <2>1. p \in [1..h+1 -> M]
    <3>1. \A x \in 1..h+1 : p[x] \in Servers /\ On(p[x], p)
      BY <1>3, <1>5 DEF On
    <3> QED
      BY <1>3, <1>5, <1>10, <3>1
  <2>2. \A j \in M : \E x \in 1..h+1 : p[x] = j
    BY <1>5, <1>10 DEF On
  <2>3. Cardinality(M) = h + 1
    BY <1>3, <1>5, <2>1, <2>2, ListCardinality
  <2>4. Kv!Cardinality(M) = Cardinality(M)
    BY KvCardinality
  <2> QED
    BY <1>3, <2>3, <2>4
<1> QED
  BY <1>4, <1>8, <1>9, <1>11, <1>12

TesterInv ==
  /\ part = "kvraft" => KvInv
  /\ part = "shardctrler" => CtrlerInv
  /\ part = "shardkv" => ShardInv

\* No tester's servers lose an update in this step.
TesterKeeps ==
  /\ part = "kvraft" => Kept(Servers)
  /\ part = "shardctrler" => Kept(Servers)
  /\ part = "shardkv" => Kept(GroupsAndCtrlers)

\* The invariants of the three testers hold at first.
LEMMA InitTesters == AnyInit => TesterInv
BY KvInit, CtrlerInit, ShardInit DEF AnyInit, TesterInv

\* A stuttering step keeps them.
LEMMA Stutters ==
  ASSUME TesterInv, UNCHANGED all
  PROVE  TesterInv' /\ TesterKeeps
<1>1. /\ part' = part /\ QuietStep
      /\ UNCHANGED <<enabled, gen, clerks, at, pc, kvservers, todo, picks, sides, running>>
      /\ UNCHANGED <<endnames, up, order, i, attempt, accepted>>
  BY DEF all, net, kv, ctrler, QuietStep
<1>2. ASSUME part = "kvraft" PROVE KvInv' /\ Kept(Servers)
  <2>1. KvInv
    BY <1>2 DEF TesterInv
  <2>2. Disks(Servers, Calls1)' /\ Kept(Servers)
    BY <1>1, <2>1, QuietKeeps DEF KvInv
  <2>3. KvRest
    <3>1. UNCHANGED <<todo, sides, gen, kvservers, servers, disk, saved, enabled, clerks>>
      BY <1>1 DEF QuietStep
    <3>2. clerks' \subseteq Users
      BY <2>1, <3>1 DEF KvInv, KvTypes
    <3> QED
      BY <2>1, <3>1, <3>2, CallsKeep
  <2> QED
    BY <2>2, <2>3 DEF KvInv, KvRest
<1>3. ASSUME part = "shardctrler" PROVE CtrlerInv' /\ Kept(Servers)
  <2>1. CtrlerInv
    BY <1>3 DEF TesterInv
  <2>2. Disks(Servers, Calls2)' /\ Kept(Servers)
    BY <1>1, <2>1, QuietKeeps DEF CtrlerInv
  <2>3. CtrlerTypes' /\ CtrlerConfig' /\ CtrlerStage' /\ CtrlerEnds' /\ Ctrler!Reconnected'
    BY <1>1, <2>1 DEF CtrlerInv, CtrlerTypes, CtrlerConfig, CtrlerStage, CtrlerEnds,
       Ctrler!Reconnected, Ctrler!End, QuietStep
  <2> QED
    BY <2>2, <2>3 DEF CtrlerInv
<1>4. ASSUME part = "shardkv" PROVE ShardInv' /\ Kept(GroupsAndCtrlers)
  <2>1. ShardInv
    BY <1>4 DEF TesterInv
  <2>2. Disks(GroupsAndCtrlers, Calls1)' /\ Kept(GroupsAndCtrlers)
    BY <1>1, <2>1, QuietKeeps DEF ShardInv
  <2>3. ShardTypes' /\ ShardStage' /\ CtrlersOff' /\ ShardEnds' /\ Shard!GivenEndsSilenced'
    BY <1>1, <2>1 DEF ShardInv, ShardTypes, ShardStage, CtrlersOff, ShardEnds,
       Shard!GivenEndsSilenced, QuietStep
  <2> QED
    BY <2>2, <2>3 DEF ShardInv
<1> QED
  BY <1>1, <1>2, <1>3, <1>4 DEF TesterInv, TesterKeeps

\* Every step of the tester a behaviour is about keeps them, and its
\* servers' Persisters lose nothing.
LEMMA NextTesters == TesterInv /\ [AnyNext]_all => TesterInv' /\ TesterKeeps
<1> SUFFICES ASSUME TesterInv, [AnyNext]_all PROVE TesterInv' /\ TesterKeeps
  OBVIOUS
<1>1. CASE AnyNext
  <2>0. part' = part
    BY <1>1 DEF AnyNext
  <2>1. CASE part = "kvraft"
    <3>1. KvInv /\ Kv!Next
      BY <1>1, <2>1 DEF AnyNext, TesterInv
    <3>2. KvInv' /\ Kept(Servers)
      BY <3>1, KvNext
    <3> QED
      BY <2>0, <2>1, <3>2 DEF TesterInv, TesterKeeps
  <2>2. CASE part = "shardctrler"
    <3>1. CtrlerInv /\ Ctrler!Next
      BY <1>1, <2>2 DEF AnyNext, TesterInv
    <3>2. CtrlerInv' /\ Kept(Servers)
      BY <3>1, CtrlerNext
    <3> QED
      BY <2>0, <2>2, <3>2 DEF TesterInv, TesterKeeps
  <2>3. CASE part = "shardkv"
    <3>1. ShardInv /\ Shard!Next
      BY <1>1, <2>3 DEF AnyNext, TesterInv
    <3>2. ShardInv' /\ Kept(GroupsAndCtrlers)
      BY <3>1, ShardNext
    <3> QED
      BY <2>0, <2>3, <3>2 DEF TesterInv, TesterKeeps
  <2>4. CASE part \notin {"kvraft", "shardctrler", "shardkv"}
    BY <2>0, <2>4 DEF TesterInv, TesterKeeps
  <2> QED
    BY <2>1, <2>2, <2>3, <2>4
<1>2. CASE UNCHANGED all
  BY <1>2, Stutters
<1> QED
  BY <1>1, <1>2

\* The invariants of the three testers hold throughout.
LEMMA TesterInvariant == AnySpec => []TesterInv
<1>1. TesterInv /\ [AnyNext]_all => TesterInv'
  BY NextTesters
<1> QED
  BY <1>1, InitTesters, PTL DEF AnySpec

-----------------------------------------------------------------------------
(* What the tester keeps for a server that is down.                        *)

\* No two servers share a Persister, and only instances of a server write to
\* the one that the tester keeps for it.
Apart(Z) ==
  /\ \A s, p \in Z : saved[s] # 0 /\ saved[s] = saved[p] => s = p
  /\ \A s, p \in Z, g \in Starts : disk[<<p, g>>] # 0 /\ disk[<<p, g>>] = saved[s] => p = s

\* Not even an instance of s writes to the Persister that is kept for s.
Superseded(s) == \A g \in Starts : disk[<<s, g>>] # 0 => disk[<<s, g>>] # saved[s]

\* What is kept for the servers that are not alive does not change.
Still(Z, alive) == \A s \in Z \ alive : saved[s] # 0 => heap'[saved'[s]] = heap[saved[s]]

\* Steps that move no Persister.
LEMMA SameDisks ==
  ASSUME NEW Z, Apart(Z), UNCHANGED <<disk, saved>>
  PROVE  Apart(Z)' /\ \A s : Superseded(s)' <=> Superseded(s)
BY DEF Apart, Superseded

\* Steps that write to no Persister.
LEMMA SameHeap ==
  ASSUME NEW Z, NEW alive, UNCHANGED <<heap, saved>>
  PROVE  Still(Z, alive)
BY DEF Still

\* A new Persister for s with the content of the old one: nobody writes to it.
LEMMA CopyApart ==
  ASSUME NEW Z, NEW X, Disks(Z, X), Apart(Z), NEW s \in Z, CopyStep(s)
  PROVE  /\ Apart(Z)' /\ Superseded(s)'
         /\ \A p \in Z : p # s /\ Superseded(p) => Superseded(p)'
         /\ \A alive : Still(Z, alive)
<1>1. /\ heap \in Seq(SUBSET X) /\ Len(heap) \in Nat
      /\ saved \in [Z -> 0..Len(heap)] /\ disk \in [Z \X Starts -> 0..Len(heap)]
      /\ Holds(saved[s]) \in SUBSET X
  BY DEF Disks, DiskTypes, Holds
<1>2. /\ saved'[s] = Len(heap) + 1 /\ UNCHANGED disk
      /\ \A p \in Z : p # s => saved'[p] = saved[p]
      /\ \A p \in Z : saved[p] \in 0..Len(heap) /\ saved[p] # Len(heap) + 1
      /\ \A p \in Z, g \in Starts : disk[<<p, g>>] # Len(heap) + 1
  BY <1>1 DEF CopyStep
<1>3. /\ \A k \in 1..Len(heap) : heap'[k] = heap[k]
      /\ heap'[Len(heap) + 1] = Holds(saved[s])
  BY <1>1 DEF CopyStep
<1>4. Apart(Z)'
  BY <1>2 DEF Apart
<1>5. Superseded(s)' /\ \A p \in Z : p # s /\ Superseded(p) => Superseded(p)'
  BY <1>2 DEF Superseded
<1>6. ASSUME NEW p \in Z, saved[p] # 0 PROVE heap'[saved'[p]] = heap[saved[p]]
  BY <1>2, <1>3, <1>6 DEF Holds
<1> QED
  BY <1>4, <1>5, <1>6 DEF Still

\* An instance of s gets the Persister that is kept for s.
LEMMA StartApart ==
  ASSUME NEW Z, NEW X, Disks(Z, X), Apart(Z), NEW s \in Z, NEW g \in Starts, StartStep(s, g)
  PROVE  /\ Apart(Z)' /\ UNCHANGED <<heap, saved>>
         /\ \A p \in Z : p # s /\ Superseded(p) => Superseded(p)'
<1>1. /\ disk \in [Z \X Starts -> 0..Len(heap)] /\ UNCHANGED <<heap, saved>>
      /\ disk' = [disk EXCEPT ![<<s, g>>] = saved[s]]
  BY DEF Disks, DiskTypes, StartStep
<1>2. \A p \in Z, h \in Starts :
        disk'[<<p, h>>] = IF p = s /\ h = g THEN saved[s] ELSE disk[<<p, h>>]
  BY <1>1
<1>3. Apart(Z)'
  BY <1>1, <1>2 DEF Apart
<1> QED
  BY <1>1, <1>2, <1>3 DEF Superseded

\* StartCtrlerserver does both at once.
LEMMA CtrlerStartApart ==
  ASSUME NEW Z, NEW X, Disks(Z, X), Apart(Z), NEW s \in Z, 1 \in Starts, saved[s] = 0,
         heap' = Append(heap, {}), saved' = [saved EXCEPT ![s] = Len(heap) + 1],
         disk' = [disk EXCEPT ![<<s, 1>>] = Len(heap) + 1]
  PROVE  /\ Apart(Z)' /\ \A alive : Still(Z, alive)
         /\ \A p \in Z : p # s /\ Superseded(p) => Superseded(p)'
<1>1. /\ heap \in Seq(SUBSET X) /\ Len(heap) \in Nat
      /\ saved \in [Z -> 0..Len(heap)] /\ disk \in [Z \X Starts -> 0..Len(heap)]
  BY DEF Disks, DiskTypes
<1>2. /\ saved'[s] = Len(heap) + 1
      /\ \A p \in Z : p # s => saved'[p] = saved[p]
      /\ \A p \in Z : saved[p] \in 0..Len(heap) /\ saved[p] # Len(heap) + 1
      /\ \A p \in Z, g \in Starts : disk[<<p, g>>] # Len(heap) + 1
      /\ \A p \in Z, g \in Starts :
           disk'[<<p, g>>] = IF p = s /\ g = 1 THEN Len(heap) + 1 ELSE disk[<<p, g>>]
  BY <1>1
<1>3. \A k \in 1..Len(heap) : heap'[k] = heap[k]
  BY <1>1
<1>4. Apart(Z)'
  BY <1>2 DEF Apart
<1>5. \A p \in Z : p # s /\ Superseded(p) => Superseded(p)'
  BY <1>2 DEF Superseded
<1>6. ASSUME NEW p \in Z, saved[p] # 0 PROVE heap'[saved'[p]] = heap[saved[p]]
  BY <1>2, <1>3, <1>6
<1> QED
  BY <1>4, <1>5, <1>6 DEF Still

\* A handler saves to the Persister of its instance, which is not the one kept
\* for a server that is down.
LEMMA NetStill ==
  ASSUME NEW Z, NEW X, Disks(Z, X), Apart(Z), NEW c \in X, NetStep(c), NEW alive,
         \A s \in Z \ alive : saved[s] = 0 \/ Superseded(s)
  PROVE  Still(Z, alive)
<1> SUFFICES ASSUME NEW s \in Z \ alive, saved[s] # 0 PROVE heap'[saved[s]] = heap[saved[s]]
  BY DEF Still, NetStep
<1>1. CASE UNCHANGED heap
  BY <1>1
<1>2. CASE handler[c] = "running" /\ heap' = [heap EXCEPT ![disk[inst[c]]] = @ \cup {c}]
  <2>1. inst[c] \in Z \X Starts /\ disk[inst[c]] # 0
    BY <1>2 DEF Disks, DiskTypes
  <2>2. PICK p \in Z, g \in Starts : inst[c] = <<p, g>>
    BY <2>1
  <2>3. disk[inst[c]] # saved[s]
    BY <2>1, <2>2 DEF Apart, Superseded
  <2>4. heap \in Seq(SUBSET X) /\ saved[s] \in 0..Len(heap)
    BY DEF Disks, DiskTypes
  <2>5. saved[s] \in DOMAIN heap
    BY <2>4
  <2> QED
    BY <1>2, <2>3, <2>5
<1> QED
  BY <1>1, <1>2 DEF NetStep

\* shardctrler: nobody writes to what is kept for server i from the copy on.
CtrlerDown ==
  /\ Apart(Servers)
  /\ at \in {"copied", "stopped", "named", "persister"} => Superseded(i)

\* A server without an instance on the tester's list is such a server.
LEMMA CtrlerDownSuperseded ==
  ASSUME CtrlerInv, CtrlerDown, NEW s \in Servers \ up PROVE Superseded(s)
<1> USE CtrlerFacts DEF CtrlerInv, CtrlerTypes, CtrlerStage, Starts
<1>1. CASE s = i
  BY <1>1 DEF CtrlerDown
<1>2. CASE s # i
  <2>1. endnames[s] = 0
    BY <1>2
  <2> QED
    BY <2>1 DEF Superseded
<1> QED
  BY <1>1, <1>2

\* It holds at first ...
LEMMA CtrlerDownInit == Ctrler!Init => CtrlerDown
<1> SUFFICES ASSUME Ctrler!Init PROVE CtrlerDown
  OBVIOUS
<1>1. /\ saved = [s \in Servers |-> 0] /\ disk = [x \in Servers \X Starts |-> 0] /\ 0 \in Servers /\ i = 0
  BY CtrlerFacts DEF Ctrler!Init, Ctrler!CrashInit, Servers
<1> QED
  BY <1>1 DEF CtrlerDown, Apart, Superseded

\* ... and every step keeps it, and leaves what is kept for servers that are
\* down as it is.
LEMMA CtrlerDownNext ==
  ASSUME CtrlerInv, CtrlerInv', CtrlerDown, Ctrler!Next
  PROVE  CtrlerDown' /\ Still(Servers, up)
<1> USE DEF Ctrler!Goto, Ctrler!callVars, Ctrler!crashVars, Ctrler!cfgVars, Ctrler!clerkVars
<1>0. Disks(Servers, Calls2) /\ Apart(Servers) /\ i \in Servers
  BY DEF CtrlerInv, CtrlerTypes, CtrlerDown
<1>1. ASSUME UNCHANGED <<heap, disk, saved>>,
             at' \in {"copied", "stopped", "named", "persister"} =>
               i' = i /\ at \in {"copied", "stopped", "named", "persister"}
      PROVE  CtrlerDown' /\ Still(Servers, up)
  BY <1>0, <1>1, SameDisks, SameHeap DEF CtrlerDown
<1>2. CASE \/ \E s \in Victims : Ctrler!Shutdown(s)
           \/ Ctrler!DeleteServer \/ Ctrler!Kill \/ Ctrler!FreshEnds \/ Ctrler!ConnectAll
  BY <1>1, <1>2 DEF Ctrler!Shutdown, Ctrler!DeleteServer, Ctrler!Kill, Ctrler!FreshEnds,
     Ctrler!ConnectAll
<1>3. CASE Ctrler!CopySaved
  <2>1. i' = i
    BY <1>3 DEF Ctrler!CopySaved
  <2>2. CASE saved[i] # 0
    <3>1. CopyStep(i)
      BY <1>3, <2>2 DEF CopyStep, Holds, Ctrler!CopySaved, Ctrler!Supersede, Ctrler!Copy
    <3> QED
      BY <1>0, <2>1, <3>1, CopyApart DEF CtrlerDown
  <2>3. CASE saved[i] = 0
    <3>1. UNCHANGED <<heap, disk, saved>> /\ Superseded(i)
      BY <1>3, <2>3 DEF Ctrler!CopySaved, Superseded
    <3> QED
      BY <1>0, <2>1, <3>1, SameDisks, SameHeap DEF CtrlerDown
  <2> QED
    BY <2>2, <2>3
<1>4. CASE Ctrler!FreshPersister
  <2>1. CopyStep(i) /\ i' = i
    BY <1>4 DEF CopyStep, Holds, Ctrler!FreshPersister, Ctrler!Supersede, Ctrler!Copy
  <2> QED
    BY <1>0, <2>1, CopyApart DEF CtrlerDown
<1>5. CASE Ctrler!StartServer
  <2>1. StartStep(i, endnames[i]) /\ at' = "started"
    BY <1>5 DEF StartStep, Ctrler!StartServer
  <2>2. endnames[i] \in Starts
    BY <1>5, CtrlerFacts DEF Ctrler!StartServer, CtrlerInv, CtrlerTypes, CtrlerConfig, Starts
  <2> QED
    BY <1>0, <2>1, <2>2, StartApart, SameHeap DEF CtrlerDown
<1>6. CASE Ctrler!AddServer
  <2>1. UNCHANGED <<heap, disk, saved>> /\ (at' = "added" \/ (at' = "stopped" /\ i' = i + 1))
    BY <1>6 DEF Ctrler!AddServer
  <2>2. ASSUME at' = "stopped" PROVE Superseded(i)'
    <3>1. i' \in Servers /\ \E s \in Servers : endnames'[s] = 0
      BY <1>6, <2>2, CtrlerFacts DEF CtrlerInv, CtrlerTypes, Ctrler!AddServer
    <3>2. endnames'[i'] = 0
      BY <2>2, <3>1 DEF CtrlerInv, CtrlerConfig
    <3>3. \A g \in Starts : disk'[<<i', g>>] = 0
      BY <3>1, <3>2, CtrlerFacts DEF CtrlerInv, CtrlerStage, Starts
    <3> QED
      BY <3>3 DEF Superseded
  <2> QED
    BY <1>0, <2>1, <2>2, SameDisks, SameHeap DEF CtrlerDown
<1>7. ASSUME NEW ck \in Users, Ctrler!makeClient(ck) \/ Ctrler!Begin(ck) \/ Ctrler!Return(ck)
                               \/ Ctrler!TryNext(ck)
      PROVE  CtrlerDown' /\ Still(Servers, up)
  BY <1>1, <1>7 DEF Ctrler!makeClient, Ctrler!Begin, Ctrler!Return, Ctrler!TryNext
<1>8. ASSUME NEW c \in Calls2, Ctrler!ServerCalls(c) \/ \E ck \in Users : Ctrler!Attempt(ck, c)
      PROVE  CtrlerDown' /\ Still(Servers, up)
  BY <1>1, <1>8 DEF Ctrler!ServerCalls, Ctrler!Attempt, Ctrler!Call, Ctrler!Send
<1>9. ASSUME NEW c \in Calls2, UNCHANGED <<Ctrler!cfgVars, Ctrler!clerkVars>>,
             Ctrler!Deliver(c) \/ Ctrler!Save(c) \/ Ctrler!Refuse(c) \/ Ctrler!Reply(c) \/ Ctrler!Fail(c)
      PROVE  CtrlerDown' /\ Still(Servers, up)
  <2>1. NetStep(c) /\ UNCHANGED <<disk, saved, at, i>>
    BY <1>9 DEF NetStep, Ctrler!Deliver, Ctrler!Save, Ctrler!Refuse, Ctrler!Reply, Ctrler!Fail,
       Ctrler!Handled, Ctrler!IsServerDead
  <2>2. Still(Servers, up)
    BY <1>0, <2>1, NetStill, CtrlerDownSuperseded
  <2> QED
    BY <1>0, <2>1, <2>2, SameDisks DEF CtrlerDown
<1> QED
  BY <1>2, <1>3, <1>4, <1>5, <1>6, <1>7, <1>8, <1>9 DEF Ctrler!Next, Ctrler!Network

\* shardkv: the same for each server of a group, and which of them are running.
ShardDown ==
  /\ Apart(GroupsAndCtrlers)
  /\ \A s \in Shard!Shards :
       /\ at[s] \in {"copied", "down", "named", "persister"} => Superseded(s)
       /\ s \notin running => at[s] \in {"down", "named", "persister"}

\* A server that is not running has no Persister yet, or is such a server.
LEMMA ShardDownSuperseded ==
  ASSUME ShardInv, ShardDown, NEW s \in GroupsAndCtrlers \ running
  PROVE  saved[s] = 0 \/ Superseded(s)
BY ShardFacts DEF ShardInv, CtrlersOff, ShardDown

\* It holds at first ...
LEMMA ShardDownInit == Shard!Init => ShardDown
<1> SUFFICES ASSUME Shard!Init PROVE ShardDown
  OBVIOUS
<1>1. /\ saved = [s \in GroupsAndCtrlers |-> 0] /\ disk = [x \in GroupsAndCtrlers \X Starts |-> 0]
      /\ at = [s \in Shard!Shards |-> "down"] /\ Shard!Shards \subseteq GroupsAndCtrlers
  BY ShardFacts DEF Shard!Init, Shard!CrashInit
<1> QED
  BY <1>1 DEF ShardDown, Apart, Superseded

\* ... and every step keeps it, and leaves what is kept for servers that are
\* down as it is.
LEMMA ShardDownNext ==
  ASSUME ShardInv, ShardDown, Shard!Next
  PROVE  ShardDown' /\ Still(GroupsAndCtrlers, running)
<1> DEFINE Good == ShardDown' /\ Still(GroupsAndCtrlers, running)
<1> USE DEF Shard!Goto, Shard!callVars, Shard!crashVars, Shard!cfgVars
<1>0. /\ Disks(GroupsAndCtrlers, Calls1) /\ Apart(GroupsAndCtrlers)
      /\ Shard!Shards \subseteq GroupsAndCtrlers /\ Shard!Ctrlers \subseteq GroupsAndCtrlers
      /\ \A s \in Shard!Ctrlers : s \notin Shard!Shards
      /\ DOMAIN at = Shard!Shards
  BY ShardFacts DEF ShardInv, ShardDown, ShardTypes
<1>1. ASSUME UNCHANGED <<heap, disk, saved, at, running>> PROVE Good
  BY <1>0, <1>1, SameDisks, SameHeap DEF ShardDown
<1>2. ASSUME NEW s \in Shard!Ctrlers, Shard!StartCtrlerserver(s) PROVE Good
  <2>1. saved[s] = 0 /\ 1 \in Starts
    BY <1>2, ShardFacts DEF Shard!StartCtrlerserver, ShardInv, CtrlersOff, Starts
  <2>2. /\ heap' = Append(heap, {}) /\ saved' = [saved EXCEPT ![s] = Len(heap) + 1]
        /\ disk' = [disk EXCEPT ![<<s, 1>>] = Len(heap) + 1]
        /\ UNCHANGED at /\ running' = running \cup {s}
    BY <1>2 DEF Shard!StartCtrlerserver, Shard!Supersede
  <2>3. /\ Apart(GroupsAndCtrlers)' /\ \A alive : Still(GroupsAndCtrlers, alive)
        /\ \A p \in GroupsAndCtrlers : p # s /\ Superseded(p) => Superseded(p)'
    BY <1>0, <2>1, <2>2, CtrlerStartApart
  <2> QED
    BY <1>0, <2>2, <2>3 DEF ShardDown
<1>3. ASSUME NEW s \in Shard!Shards, UNCHANGED <<heap, disk, saved>>, NEW to,
             at' = [at EXCEPT ![s] = to],
             \/ to \in {"silenced", "deleted", "up"} /\ UNCHANGED running /\ s \in running
             \/ to = "down" /\ at[s] = "copied" /\ running' = running \ {s}
             \/ to = "named" /\ at[s] = "down" /\ UNCHANGED running
      PROVE  Good
  BY <1>0, <1>3, SameDisks, SameHeap DEF ShardDown
<1>4. ASSUME NEW s \in Shard!Shards, Shard!Silence(s) \/ Shard!DeleteServer(s) \/ Shard!AddServer(s)
      PROVE  Good
  <2>1. s \in running
    BY <1>4 DEF ShardDown, Shard!Silence, Shard!DeleteServer, Shard!AddServer
  <2> HIDE DEF Good
  <2>2. CASE Shard!Silence(s)
    BY <1>3, <2>1, <2>2 DEF Shard!Silence
  <2>3. CASE Shard!DeleteServer(s)
    BY <1>3, <2>1, <2>3 DEF Shard!DeleteServer
  <2>4. CASE Shard!AddServer(s)
    BY <1>3, <2>1, <2>4 DEF Shard!AddServer
  <2> QED
    BY <1>4, <2>2, <2>3, <2>4
<1>5. ASSUME NEW s \in Shard!Shards, Shard!Kill(s) \/ Shard!FreshEnds(s) PROVE Good
  <2> HIDE DEF Good
  <2> QED
    BY <1>3, <1>5 DEF Shard!Kill, Shard!FreshEnds
<1>6. ASSUME NEW s \in Shard!Shards, Shard!CopySaved(s) PROVE Good
  <2>1. at' = [at EXCEPT ![s] = "copied"] /\ UNCHANGED running /\ s \in running
    BY <1>6 DEF Shard!CopySaved, ShardDown
  <2>2. CASE saved[s] # 0
    <3>1. CopyStep(s)
      BY <1>6, <2>2 DEF CopyStep, Holds, Shard!CopySaved, Shard!Supersede, Shard!Copy
    <3> QED
      BY <1>0, <2>1, <3>1, CopyApart DEF ShardDown
  <2>3. CASE saved[s] = 0
    <3>1. UNCHANGED <<heap, disk, saved>> /\ Superseded(s)
      BY <1>6, <2>3 DEF Shard!CopySaved, Superseded
    <3> QED
      BY <1>0, <2>1, <3>1, SameDisks, SameHeap DEF ShardDown
  <2> QED
    BY <2>2, <2>3
<1>7. ASSUME NEW s \in Shard!Shards, Shard!FreshPersister(s) PROVE Good
  <2>1. CopyStep(s) /\ at' = [at EXCEPT ![s] = "persister"] /\ UNCHANGED running
    BY <1>7 DEF CopyStep, Holds, Shard!FreshPersister, Shard!Supersede, Shard!Copy
  <2> QED
    BY <1>0, <2>1, CopyApart DEF ShardDown
<1>8. ASSUME NEW s \in Shard!Shards, Shard!StartServer(s) PROVE Good
  <2>1. /\ StartStep(s, gen[s]) /\ at' = [at EXCEPT ![s] = "started"]
        /\ running' = running \cup {s}
    BY <1>8 DEF StartStep, Shard!StartServer, Shard!Inst
  <2>2. gen[s] \in Starts
    <3>1. at[s] = "persister"
      BY <1>8 DEF Shard!StartServer
    <3>2. gen[s] # 0 /\ gen[s] \in 0..MaxStarts /\ MaxStarts \in Nat
      BY <3>1, KvFacts DEF ShardInv, ShardTypes, ShardStage
    <3> QED
      BY <3>2 DEF Starts
  <2>3. /\ Apart(GroupsAndCtrlers)' /\ UNCHANGED <<heap, saved>>
        /\ \A p \in GroupsAndCtrlers : p # s /\ Superseded(p) => Superseded(p)'
    BY <1>0, <2>1, <2>2, StartApart
  <2> QED
    BY <1>0, <2>1, <2>3, SameHeap DEF ShardDown
<1>9. ASSUME \/ Shard!shardclerk
             \/ \E ck \in Users : Shard!makeClient(ck) \/ Shard!deleteClient(ck)
             \/ \E c \in Calls1 : Shard!ServerCalls(c) \/ Shard!CtrlerCalls(c) \/ Shard!make_end(c)
      PROVE  Good
  <2> HIDE DEF Good
  <2> QED
    BY <1>1, <1>9 DEF Shard!shardclerk, Shard!makeClient, Shard!deleteClient, Shard!ServerCalls,
       Shard!CtrlerCalls, Shard!make_end, Shard!Call, Shard!Send
<1>10. ASSUME NEW c \in Calls1, UNCHANGED Shard!cfgVars,
              Shard!Deliver(c) \/ Shard!Save(c) \/ Shard!Refuse(c) \/ Shard!Reply(c) \/ Shard!Fail(c)
       PROVE  Good
  <2>1. NetStep(c) /\ UNCHANGED <<disk, saved, at, running>>
    BY <1>10 DEF NetStep, Shard!Deliver, Shard!Save, Shard!Refuse, Shard!Reply, Shard!Fail,
       Shard!Handled, Shard!IsServerDead
  <2>2. Still(GroupsAndCtrlers, running)
    BY <1>0, <2>1, NetStill, ShardDownSuperseded
  <2> QED
    BY <1>0, <2>1, <2>2, SameDisks DEF ShardDown
<1> HIDE DEF Good
<1>11. Good
  BY <1>2, <1>4, <1>5, <1>6, <1>7, <1>8, <1>9, <1>10 DEF Shard!Next, Shard!Network
<1> QED
  BY <1>11 DEF Good

\* kvraft: a kill comes after the copy of the same server, and until the next
\* start nobody writes to what is kept for it.
Kills == \A l \in DOMAIN todo : Op(l) = "kill" => Superseded(Who(l)) \/ Before(l, "copy", Who(l))

KvDown == Apart(Servers) /\ (\A s \in Servers \ kvservers : Superseded(s)) /\ Kills

\* In a list, every kill comes after a copy of the same server.
CopiesFirst(T) == \A l \in DOMAIN T : T[l].op = "kill" =>
  \E k \in 1..l-1 : T[k].op = "copy" /\ T[k].i = T[l].i

\* ShutdownServer makes the copy before it kills the server.
LEMMA RestartCopies == CopiesFirst(Restarts)
<1>1. N \in Nat \ {0} /\ \A s \in Servers : s \in 0..N-1
  BY KvFacts DEF Servers
<1>2. PICK T : T = Restarts
  OBVIOUS
<1>3. T \in Seq(KvSteps) /\ Len(T) = 10*N
  BY <1>2, RestartSteps
<1>4. DOMAIN T = 1..10*N
  <2> HIDE DEF KvSteps
  <2> QED
    BY <1>3
<1>5. ASSUME NEW l \in DOMAIN T, T[l].op = "kill"
      PROVE  \E k \in 1..l-1 : T[k].op = "copy" /\ T[k].i = T[l].i
  <2>1. PICK s \in Servers : IsRestart(T, l, s)
    BY <1>2, <1>4, RestartSteps
  <2>2. ~IsConnect(T, 0, l, s) /\ ~IsConnect(T, 9*N, l, s) /\ ~IsStart(T, 5*N, l, s)
    BY <1>5 DEF IsConnect, IsStart, Kv!Do
  <2>3. IsShutdown(T, N, l, s)
    BY <2>1, <2>2 DEF IsRestart
  <2>4. l = N + 4*s + 4 /\ T[l] = Kv!Do("kill", s, <<>>)
    BY <1>5, <2>3 DEF IsShutdown, Kv!Do
  <2>5. PICK k : k = N + 4*s + 3
    OBVIOUS
  <2>6. T[k] = Kv!Do("copy", s, <<>>)
    BY <1>2, <2>5, RestartSteps
  <2>7. k \in 1..l-1
    BY <1>1, <2>4, <2>5
  <2>8. T[k].op = "copy" /\ T[k].i = s /\ T[l].i = s
    BY <2>4, <2>6 DEF Kv!Do
  <2> QED
    BY <2>7, <2>8
<1> QED
  BY <1>2, <1>5 DEF CopiesFirst

\* make_config kills nobody.
LEMMA ConfigCopies == CopiesFirst(Kv!make_config)
<1>1. PICK T : T = Kv!make_config
  OBVIOUS
<1>2. T \in Seq(KvSteps) /\ Len(T) = 5*N
  BY <1>1, ConfigSteps
<1>3. DOMAIN T = 1..5*N
  <2> HIDE DEF KvSteps
  <2> QED
    BY <1>2
<1>4. ASSUME NEW l \in DOMAIN T PROVE T[l].op # "kill"
  <2>1. PICK s \in Servers : IsConfig(T, l, s)
    BY <1>1, <1>3, ConfigSteps
  <2> QED
    BY <2>1 DEF IsConfig, IsConnect, IsStart, Kv!Do
<1> QED
  BY <1>1, <1>4 DEF CopiesFirst

\* Nor does ConnectAll.
LEMMA ConnectCopies == CopiesFirst(Kv!ConnectAll)
<1>1. PICK T : T = Kv!ConnectAll
  OBVIOUS
<1>2. T \in Seq(KvSteps) /\ Len(T) = N
  BY <1>1, ConnectSteps
<1>3. DOMAIN T = 1..N
  <2> HIDE DEF KvSteps
  <2> QED
    BY <1>2
<1>4. ASSUME NEW l \in DOMAIN T PROVE T[l].op # "kill"
  <2>1. PICK s \in Servers : IsConnect(T, 0, l, s)
    BY <1>1, <1>3, ConnectSteps
  <2> QED
    BY <2>1 DEF IsConnect, Kv!Do
<1> QED
  BY <1>1, <1>4 DEF CopiesFirst

\* Nor does partition.
LEMMA PartitionCopies ==
  ASSUME NEW p \in Seq(Servers), NEW q \in Seq(Servers) PROVE CopiesFirst(Kv!partition(p, q))
<1>1. PICK T : T = Kv!partition(p, q)
  OBVIOUS
<1>2. \A l \in DOMAIN T : OfSide(T[l], p, q) \/ OfSide(T[l], q, p)
  BY <1>1, PartitionSteps
<1>3. \A r : OfSide(r, p, q) \/ OfSide(r, q, p) => r.op # "kill"
  BY DEF OfSide, Kv!Do
<1> QED
  BY <1>1, <1>2, <1>3 DEF CopiesFirst

\* A new list of steps.
LEMMA ListDown ==
  ASSUME KvDown, UNCHANGED <<heap, disk, saved, kvservers>>, CopiesFirst(todo')
  PROVE  KvDown' /\ Still(Servers, kvservers)
<1>1. Kills'
  BY DEF Kills, CopiesFirst, Before, Op, Who
<1>2. Apart(Servers)' /\ \A s : Superseded(s)' <=> Superseded(s)
  BY SameDisks DEF KvDown
<1> QED
  BY <1>1, <1>2, SameHeap DEF KvDown

\* When the first step is taken, the kills that are left still come after a copy.
LEMMA KillsAdvance ==
  ASSUME KvInv, Kills, NEW op, NEW s, todo # <<>>, op = Op(1), s = Who(1), todo' = Tail(todo),
         \A p \in Servers : p # s /\ Superseded(p) => Superseded(p)',
         op = "copy" => Superseded(s)', op # "start" /\ Superseded(s) => Superseded(s)'
  PROVE  Kills'
<1>1. /\ 1 \in DOMAIN todo /\ DOMAIN todo = 1..Len(todo) /\ Len(todo) \in Nat
      /\ DOMAIN todo' = 1..Len(todo) - 1
      /\ \A l \in DOMAIN todo' : l + 1 \in DOMAIN todo /\ todo'[l] = todo[l + 1]
      /\ \A l \in 1..Len(todo) : \A o, p :
           Before(l + 1, o, p) <=> (Op(1) = o /\ Who(1) = p) \/ Before(l, o, p)'
  BY Advances DEF KvInv
<1>2. \A l \in DOMAIN todo : Who(l) \in Servers
  <2>1. todo \in Seq(KvSteps)
    BY DEF KvInv, KvTypes, KvSteps
  <2> HIDE DEF KvSteps
  <2>2. \A l \in DOMAIN todo : todo[l] \in KvSteps
    BY <2>1
  <2> QED
    BY <2>2 DEF KvSteps, Who
<1>3. ASSUME NEW l \in DOMAIN todo', Op(l)' = "kill"
      PROVE  Superseded(Who(l))' \/ Before(l, "copy", Who(l))'
  <2>1. PICK w : w = Who(l + 1)
    OBVIOUS
  <2>2. /\ l \in 1..Len(todo) /\ l + 1 \in DOMAIN todo /\ 1 < l + 1
        /\ Op(l + 1) = "kill" /\ Who(l)' = w /\ w \in Servers
    BY <1>1, <1>2, <1>3, <2>1 DEF Op, Who
  <2>3. Superseded(w) \/ Before(l + 1, "copy", w)
    BY <2>1, <2>2 DEF Kills
  <2>4. CASE Before(l + 1, "copy", w)
    <3>1. (Op(1) = "copy" /\ Who(1) = w) \/ Before(l, "copy", w)'
      BY <1>1, <2>2, <2>4
    <3> QED
      BY <2>2, <3>1
  <2>5. CASE Superseded(w)
    <3>1. ASSUME w = s PROVE op # "start"
      <4>1. SUFFICES ASSUME op = "start" PROVE FALSE
        OBVIOUS
      <4>2. Rank(Op(1)) < Rank(Op(l + 1))
        BY <1>1, <2>1, <2>2, <3>1, <4>1, Ranks DEF KvInv, InOrder
      <4> QED
        BY <2>2, <4>1, <4>2, Ranks
    <3>2. Superseded(w)'
      BY <2>2, <2>5, <3>1
    <3> QED
      BY <2>2, <3>2
  <2> QED
    BY <2>3, <2>4, <2>5
<1> QED
  BY <1>3 DEF Kills

\* The invariant holds at first ...
LEMMA KvDownInit == Kv!Init => KvDown
<1> SUFFICES ASSUME Kv!Init PROVE KvDown
  OBVIOUS
<1>1. saved = [s \in Servers |-> 0] /\ disk = [x \in Servers \X Starts |-> 0] /\ todo = Kv!make_config
  BY KvFacts DEF Kv!Init, Kv!CrashInit
<1>2. Apart(Servers) /\ \A s \in Servers : Superseded(s)
  BY <1>1 DEF Apart, Superseded
<1>3. Kills
  BY <1>1, ConfigCopies DEF Kills, CopiesFirst, Before, Op, Who
<1> QED
  BY <1>2, <1>3 DEF KvDown

\* The steps of the tester that move Persisters, or take an instance off its list.
LEMMA LifeDown ==
  ASSUME KvInv, KvDown,
         \/ Kv!connectUnlocked \/ Kv!disconnectUnlocked \/ Kv!DeleteServer \/ Kv!CopySaved
         \/ Kv!KillServer \/ Kv!FreshEnds \/ Kv!FreshPersister \/ Kv!StartKVServer \/ Kv!AddServer
  PROVE  KvDown' /\ Still(Servers, kvservers)
<1> USE DEF Kv!Advance, Kv!callVars, Kv!crashVars, Kv!kvVars
<1>0. PICK s : s = Kv!I
  OBVIOUS
<1>1. ASSUME NEW op, Kv!Step(op)
      PROVE  todo # <<>> /\ op = Op(1) /\ s = Who(1) /\ s \in Servers /\ 1 \in DOMAIN todo
  BY <1>0, <1>1, FirstStep
<1>2. Disks(Servers, Calls1) /\ Apart(Servers) /\ Kills /\ \A p \in Servers \ kvservers : Superseded(p)
  BY DEF KvInv, KvDown
<1>3. ASSUME NEW op, Kv!Step(op), op \notin {"copy", "start"}, todo' = Tail(todo),
             UNCHANGED <<heap, disk, saved>>,
             kvservers' = kvservers \/ (op = "kill" /\ kvservers' = kvservers \ {s})
      PROVE  KvDown' /\ Still(Servers, kvservers)
  <2>1. Apart(Servers)' /\ \A p : Superseded(p)' <=> Superseded(p)
    BY <1>2, <1>3, SameDisks
  <2>2. todo # <<>> /\ op = Op(1) /\ s = Who(1) /\ s \in Servers /\ 1 \in DOMAIN todo
    BY <1>1, <1>3
  <2>3. Kills'
    BY <1>2, <1>3, <2>1, <2>2, KillsAdvance
  <2>4. ASSUME op = "kill" PROVE Superseded(s)
    <3>1. ~Before(1, "copy", s)
      BY DEF Before
    <3> QED
      BY <1>2, <2>2, <2>4, <3>1 DEF Kills
  <2> QED
    BY <1>2, <1>3, <2>1, <2>3, <2>4, SameHeap DEF KvDown
<1>4. CASE Kv!connectUnlocked
  BY <1>3, <1>4 DEF Kv!connectUnlocked
<1>5. CASE Kv!disconnectUnlocked
  BY <1>3, <1>5 DEF Kv!disconnectUnlocked
<1>6. CASE Kv!DeleteServer
  BY <1>3, <1>6 DEF Kv!DeleteServer
<1>7. CASE Kv!KillServer
  BY <1>0, <1>3, <1>7 DEF Kv!KillServer
<1>8. CASE Kv!FreshEnds
  BY <1>3, <1>8 DEF Kv!FreshEnds
<1>9. CASE Kv!AddServer
  BY <1>3, <1>9 DEF Kv!AddServer
<1>10. ASSUME NEW op, Kv!Step(op), op # "start", todo' = Tail(todo), UNCHANGED kvservers, CopyStep(s)
       PROVE  KvDown' /\ Still(Servers, kvservers)
  <2>1. todo # <<>> /\ op = Op(1) /\ s = Who(1) /\ s \in Servers
    BY <1>1, <1>10
  <2>2. /\ Apart(Servers)' /\ Superseded(s)' /\ Still(Servers, kvservers)
        /\ \A p \in Servers : p # s /\ Superseded(p) => Superseded(p)'
    BY <1>2, <1>10, <2>1, CopyApart
  <2>3. Kills'
    BY <1>2, <1>10, <2>1, <2>2, KillsAdvance
  <2> QED
    BY <1>2, <1>10, <2>1, <2>2, <2>3 DEF KvDown
<1>11. CASE Kv!CopySaved
  <2>1. Kv!Step("copy") /\ todo' = Tail(todo) /\ UNCHANGED <<kvservers, disk>>
    BY <1>11 DEF Kv!CopySaved
  <2>2. CASE saved[s] # 0
    <3>1. CopyStep(s)
      BY <1>0, <1>11, <2>2 DEF CopyStep, Holds, Kv!CopySaved, Kv!Supersede, Kv!Copy
    <3> QED
      BY <1>10, <2>1, <3>1
  <2>3. CASE saved[s] = 0
    <3>1. UNCHANGED <<heap, saved>>
      BY <1>0, <1>11, <2>3 DEF Kv!CopySaved
    <3>2. Apart(Servers)' /\ \A p : Superseded(p)' <=> Superseded(p)
      BY <1>2, <2>1, <3>1, SameDisks
    <3>3. Superseded(s)
      BY <2>3 DEF Superseded
    <3>4. todo # <<>> /\ "copy" = Op(1) /\ s = Who(1)
      BY <1>1, <2>1
    <3>5. Kills'
      BY <1>2, <2>1, <3>2, <3>3, <3>4, KillsAdvance
    <3> QED
      BY <1>2, <2>1, <3>1, <3>2, <3>5, SameHeap DEF KvDown
  <2> QED
    BY <2>2, <2>3
<1>12. CASE Kv!FreshPersister
  <2>1. Kv!Step("persister") /\ todo' = Tail(todo) /\ UNCHANGED kvservers
    BY <1>12 DEF Kv!FreshPersister
  <2>2. CopyStep(s)
    BY <1>0, <1>12 DEF CopyStep, Holds, Kv!FreshPersister, Kv!Supersede, Kv!Copy
  <2> QED
    BY <1>10, <2>1, <2>2
<1>13. CASE Kv!StartKVServer
  <2>1. /\ Kv!Step("start") /\ todo' = Tail(todo) /\ kvservers' = kvservers \cup {s}
        /\ StartStep(s, gen[s])
    BY <1>0, <1>13 DEF StartStep, Kv!StartKVServer
  <2>2. todo # <<>> /\ "start" = Op(1) /\ s = Who(1) /\ s \in Servers /\ 1 \in DOMAIN todo
    BY <1>1, <2>1
  <2>3. gen[s] \in Starts
    <3>1. ~Before(1, "names", s)
      BY DEF Before
    <3>2. gen[s] # 0 /\ gen[s] \in 0..MaxStarts /\ MaxStarts \in Nat
      BY <2>2, <3>1, KvFacts DEF KvInv, KvStage, KvTypes
    <3> QED
      BY <3>2 DEF Starts
  <2>4. /\ Apart(Servers)' /\ UNCHANGED <<heap, saved>>
        /\ \A p \in Servers : p # s /\ Superseded(p) => Superseded(p)'
    BY <1>2, <2>1, <2>2, <2>3, StartApart
  <2>5. Kills'
    BY <1>2, <2>1, <2>2, <2>4, KillsAdvance
  <2> QED
    BY <1>2, <2>1, <2>4, <2>5, SameHeap DEF KvDown
<1> QED
  BY <1>4, <1>5, <1>6, <1>7, <1>8, <1>9, <1>11, <1>12, <1>13

\* The beginnings of the procedures, and Leader's loop.
LEMMA BeginDown ==
  ASSUME KvInv, KvDown,
         \/ Kv!Repartition \/ Kv!PartitionLeader \/ Kv!Heal \/ Kv!Restart \/ Kv!Leader \/ Kv!LookOn
  PROVE  KvDown' /\ Still(Servers, kvservers)
<1> USE DEF Kv!callVars, Kv!crashVars, Kv!kvVars
<1>1. UNCHANGED <<heap, disk, saved, kvservers>>
  BY DEF Kv!Repartition, Kv!PartitionLeader, Kv!Heal, Kv!Restart, Kv!Begin, Kv!Leader, Kv!LookOn
<1>2. \A s : CopiesFirst(<<Kv!Do("look", s, <<>>)>>)
  BY DEF CopiesFirst, Kv!Do
<1>3. CopiesFirst(todo')
  <2>1. CASE Kv!Repartition
    <3>1. PICK P \in SUBSET Servers : \E p \in Kv!Lists(P), q \in Kv!Lists(Servers \ P) :
            todo' = Kv!partition(p, q)
      BY <2>1, KvFacts DEF Kv!Repartition, Kv!Begin
    <3>2. PICK p \in Kv!Lists(P), q \in Kv!Lists(Servers \ P) : todo' = Kv!partition(p, q)
      BY <3>1
    <3>3. p \in Seq(Servers) /\ q \in Seq(Servers)
      BY ListsOf
    <3> QED
      BY <3>2, <3>3, PartitionCopies
  <2>2. CASE Kv!PartitionLeader \/ Kv!LookOn
    <3>1. \E s : todo' = <<Kv!Do("look", s, <<>>)>>
      BY <2>2 DEF Kv!PartitionLeader, Kv!LookOn, Kv!Begin
    <3> QED
      BY <1>2, <3>1
  <2>3. CASE Kv!Heal
    BY <2>3, ConnectCopies DEF Kv!Heal, Kv!Begin
  <2>4. CASE Kv!Restart
    <3>1. todo' = Restarts
      BY <2>4 DEF Kv!Restart, Kv!Begin, Restarts
    <3> QED
      BY <3>1, RestartCopies
  <2>5. CASE Kv!Leader
    <3>0. Kv!Step("look")
      BY <2>5 DEF Kv!Leader
    <3>1. Kv!I \in Servers
      BY <3>0, FirstStep
    <3>2. PICK l \in Servers : sides' = Kv!make_partition(l)
      BY <2>5, <3>1, KvFacts DEF Kv!Leader, Servers
    <3>3. PICK p, q, h : Kv!make_partition(l) = <<p, q>> /\ MinoritySides(p, q, l, h)
      BY MakePartition
    <3>4. todo' = Kv!partition(p, q) /\ p \in Seq(Servers) /\ q \in Seq(Servers)
      BY <2>5, <3>2, <3>3 DEF Kv!Leader, MinoritySides
    <3> QED
      BY <3>4, PartitionCopies
  <2> QED
    BY <2>1, <2>2, <2>3, <2>4, <2>5
<1> QED
  BY <1>1, <1>3, ListDown

\* ... and every step keeps it, and leaves what is kept for servers that are
\* down as it is.
LEMMA KvDownNext ==
  ASSUME KvInv, KvDown, Kv!Next
  PROVE  KvDown' /\ Still(Servers, kvservers)
<1> DEFINE Good == KvDown' /\ Still(Servers, kvservers)
<1> USE DEF Kv!callVars, Kv!crashVars, Kv!kvVars
<1>0. Disks(Servers, Calls1) /\ Apart(Servers)
  BY DEF KvInv, KvDown
<1>1. ASSUME Kv!Tester PROVE Good
  BY <1>1, LifeDown, BeginDown DEF Kv!Tester
<1>2. ASSUME UNCHANGED <<disk, saved, kvservers, todo>> PROVE KvDown'
  <2>1. Apart(Servers)' /\ \A s : Superseded(s)' <=> Superseded(s)
    BY <1>0, <1>2, SameDisks
  <2>2. Kills'
    BY <1>2, <2>1 DEF KvDown, Kills, Before, Op, Who
  <2> QED
    BY <1>2, <2>1, <2>2 DEF KvDown
<1>3. ASSUME NEW ck \in Users, Kv!makeClient(ck) \/ Kv!deleteClient(ck) \/ Kv!ConnectClient(ck)
                               \/ Kv!DisconnectClient(ck)
      PROVE  Good
  <2>1. UNCHANGED <<heap, disk, saved, kvservers, todo>>
    BY <1>3 DEF Kv!makeClient, Kv!deleteClient, Kv!ConnectClient, Kv!DisconnectClient
  <2> QED
    BY <1>2, <2>1, SameHeap
<1>4. ASSUME NEW c \in Calls1, Kv!ClerkCalls(c) \/ Kv!ServerCalls(c) PROVE Good
  <2>1. UNCHANGED <<heap, disk, saved, kvservers, todo>>
    BY <1>4 DEF Kv!ClerkCalls, Kv!ServerCalls, Kv!Call, Kv!Send
  <2> QED
    BY <1>2, <2>1, SameHeap
<1>5. ASSUME NEW c \in Calls1, UNCHANGED <<Kv!kvVars, todo>>,
             Kv!Deliver(c) \/ Kv!Save(c) \/ Kv!Refuse(c) \/ Kv!Reply(c) \/ Kv!Fail(c)
      PROVE  Good
  <2>1. NetStep(c) /\ UNCHANGED <<disk, saved, kvservers, todo>>
    BY <1>5 DEF NetStep, Kv!Deliver, Kv!Save, Kv!Refuse, Kv!Reply, Kv!Fail, Kv!Handled,
       Kv!IsServerDead
  <2>2. Still(Servers, kvservers)
    BY <1>0, <2>1, NetStill DEF KvDown
  <2> QED
    BY <1>2, <2>1, <2>2
<1> HIDE DEF Good
<1>6. Good
  BY <1>1, <1>3, <1>4, <1>5 DEF Kv!Next, Kv!Network
<1> QED
  BY <1>6 DEF Good

\* The three testers together.
DownInv ==
  /\ TesterInv
  /\ part = "kvraft" => KvDown
  /\ part = "shardctrler" => CtrlerDown
  /\ part = "shardkv" => ShardDown

TesterStill ==
  /\ part = "kvraft" => Still(Servers, kvservers)
  /\ part = "shardctrler" => Still(Servers, up)
  /\ part = "shardkv" => Still(GroupsAndCtrlers, running)

\* It holds at first ...
LEMMA InitDown == AnyInit => DownInv
BY InitTesters, KvDownInit, CtrlerDownInit, ShardDownInit DEF AnyInit, DownInv

\* ... and every step keeps it.
LEMMA NextDown == DownInv /\ [AnyNext]_all => DownInv' /\ TesterStill
<1> SUFFICES ASSUME DownInv, [AnyNext]_all PROVE DownInv' /\ TesterStill
  OBVIOUS
<1>0. TesterInv /\ TesterInv'
  BY NextTesters DEF DownInv
<1>1. CASE AnyNext
  <2>0. part' = part
    BY <1>1 DEF AnyNext
  <2>1. CASE part = "kvraft"
    <3>1. KvInv /\ KvDown /\ Kv!Next
      BY <1>1, <2>1 DEF AnyNext, DownInv, TesterInv
    <3>2. KvDown' /\ Still(Servers, kvservers)
      BY <3>1, KvDownNext
    <3> QED
      BY <1>0, <2>0, <2>1, <3>2 DEF DownInv, TesterStill
  <2>2. CASE part = "shardctrler"
    <3>1. CtrlerInv /\ CtrlerInv' /\ CtrlerDown /\ Ctrler!Next
      BY <1>0, <1>1, <2>0, <2>2 DEF AnyNext, DownInv, TesterInv
    <3>2. CtrlerDown' /\ Still(Servers, up)
      BY <3>1, CtrlerDownNext
    <3> QED
      BY <1>0, <2>0, <2>2, <3>2 DEF DownInv, TesterStill
  <2>3. CASE part = "shardkv"
    <3>1. ShardInv /\ ShardDown /\ Shard!Next
      BY <1>1, <2>3 DEF AnyNext, DownInv, TesterInv
    <3>2. ShardDown' /\ Still(GroupsAndCtrlers, running)
      BY <3>1, ShardDownNext
    <3> QED
      BY <1>0, <2>0, <2>3, <3>2 DEF DownInv, TesterStill
  <2>4. CASE part \notin {"kvraft", "shardctrler", "shardkv"}
    BY <1>0, <2>0, <2>4 DEF DownInv, TesterStill
  <2> QED
    BY <2>1, <2>2, <2>3, <2>4
<1>2. CASE UNCHANGED all
  <2>1. UNCHANGED <<part, heap, disk, saved, kvservers, todo, at, i, running, up>>
    BY <1>2 DEF all, net, kv, ctrler
  <2>2. TesterStill
    BY <2>1, SameHeap DEF TesterStill
  <2>3. KvDown => KvDown'
    BY <2>1 DEF KvDown, Kills, Before, Op, Who, Apart, Superseded
  <2>4. CtrlerDown => CtrlerDown'
    BY <2>1 DEF CtrlerDown, Apart, Superseded
  <2>5. ShardDown => ShardDown'
    BY <2>1 DEF ShardDown, Apart, Superseded
  <2> QED
    BY <1>0, <2>1, <2>2, <2>3, <2>4, <2>5 DEF DownInv
<1> QED
  BY <1>1, <1>2

\* No late handler of an old instance reaches what is kept for a server that is
\* down, in any state of the testers.
LEMMA DownInvariant == AnySpec => []DownInv
<1>1. DownInv /\ [AnyNext]_all => DownInv'
  BY NextDown
<1> QED
  BY <1>1, InitDown, PTL DEF AnySpec

-----------------------------------------------------------------------------

(* At every point of ShutdownServer and StartServer, and while clerks go   *)
(* round and old instances go on writing, an update that was acknowledged  *)
(* is in the Persister that the next instance gets; a clerk of shardctrler *)
(* returns only on such an answer.                                         *)
THEOREM AckedDurableHolds == AnySpec => []AckedDurable
<1>1. TesterInv => AckedDurable
  <2> SUFFICES ASSUME TesterInv PROVE AckedDurable
    OBVIOUS
  <2>1. ASSUME part = "kvraft" PROVE Kv!AckedDurable
    BY <2>1 DEF TesterInv, KvInv, Disks, Written, Holds, Kv!AckedDurable, Kv!Copy
  <2>2. ASSUME part = "shardctrler" PROVE Ctrler!AckedDurable /\ Ctrler!ReturnedDurable
    <3>1. Disks(Servers, Calls2) /\ CtrlerTypes
      BY <2>2 DEF TesterInv, CtrlerInv
    <3> QED
      BY <3>1 DEF Disks, Written, Holds, CtrlerTypes, Ctrler!AckedDurable,
         Ctrler!ReturnedDurable, Ctrler!Copy
  <2>3. ASSUME part = "shardkv" PROVE Shard!AckedDurable
    BY <2>3 DEF TesterInv, ShardInv, Disks, Written, Holds, Shard!AckedDurable, Shard!Copy
  <2> QED
    BY <2>1, <2>2, <2>3 DEF AckedDurable
<1> QED
  BY <1>1, TesterInvariant, PTL

(* No step of a tester, of the network or of an instance, shut down or     *)
(* not, makes the Persister that the tester keeps for a server lose an     *)
(* update.                                                                 *)
THEOREM NothingLostHolds == AnySpec => NothingLost
<1>1. TesterInv /\ [AnyNext]_all =>
        [ /\ part = "kvraft" => Kv!Keeps
          /\ part = "shardctrler" => Ctrler!Keeps
          /\ part = "shardkv" => Shard!Keeps ]_all
  BY NextTesters DEF TesterKeeps, Kept, Kv!Keeps, Ctrler!Keeps, Shard!Keeps
<1> QED
  BY <1>1, TesterInvariant, PTL DEF AnySpec, NothingLost

(* From the moment a server's instance is taken off the tester's list      *)
(* until the next one is started, nothing changes what the next one will   *)
(* find in its Persister: ShutdownServer and StartServer copy it, so that  *)
(* old instances, which cannot be killed, write to a superseded one.       *)
THEOREM FrozenWhileDownHolds == AnySpec => FrozenWhileDown
<1>1. DownInv /\ [AnyNext]_all =>
        [ /\ part = "kvraft" => Kv!Frozen(kvservers)
          /\ part = "shardctrler" => Ctrler!Frozen(up)
          /\ part = "shardkv" => Shard!Frozen(running) ]_all
  BY NextDown DEF TesterStill, Still, Kv!Frozen, Ctrler!Frozen, Shard!Frozen
<1> QED
  BY <1>1, DownInvariant, PTL DEF AnySpec, FrozenWhileDown

(* Whatever partitions, shutdowns, starts and heals came before, and in    *)
(* whatever order clerks and handlers ran in between: once the tester is   *)
(* done the servers that are up reach each other exactly as it asked for.  *)
THEOREM LinksAsAskedHolds == AnySpec => []LinksAsAsked
<1>1. TesterInv => LinksAsAsked
  <2> SUFFICES ASSUME TesterInv PROVE LinksAsAsked
    OBVIOUS
  <2>1. ASSUME part = "kvraft" PROVE Kv!Partitioned
    BY <2>1, PartitionedWhenDone DEF TesterInv
  <2>2. ASSUME part = "shardctrler" PROVE Ctrler!Reconnected
    BY <2>2 DEF TesterInv, CtrlerInv
  <2>3. ASSUME part = "shardkv" PROVE Shard!GroupWired
    <3>1. ShardStage /\ ShardEnds
      BY <2>3 DEF TesterInv, ShardInv
    <3>2. \A gid \in Gids : Shard!Group(gid) \subseteq Shard!Shards
      BY LabSizes DEF Shard!Sizes, Shard!Group, Shard!Shards
    <3> SUFFICES ASSUME NEW gid \in Gids, NEW s \in Shard!Group(gid), NEW p \in Shard!Group(gid),
                        at[s] = "up", at[p] = "up"
                 PROVE  <<Shard!Inst(s), p>> \in enabled /\ servers[p] = Shard!Inst(p)
      BY DEF Shard!GroupWired
    <3>3. s \in Shard!Shards /\ p \in Shard!Shards /\ Shard!Group(s[1]) = Shard!Group(gid)
      BY <3>2 DEF Shard!Group
    <3>4. servers[p] = <<p, gen[p]>> /\ Shard!Outgoing(<<s, gen[s]>>) \subseteq enabled
      BY <3>1, <3>3 DEF ShardStage, ShardEnds
    <3>5. << <<s, gen[s]>>, p>> \in Shard!Outgoing(<<s, gen[s]>>)
      BY <3>3 DEF Shard!Outgoing
    <3> QED
      BY <3>4, <3>5 DEF Shard!Inst
  <2> QED
    BY <2>1, <2>2, <2>3 DEF LinksAsAsked
<1> QED
  BY <1>1, TesterInvariant, PTL

(* After make_partition and partition, for every odd number of servers,    *)
(* the server that Leader found reaches no majority and a majority of the  *)
(* others is fully connected.                                              *)
THEOREM LeaderInMinorityHolds == AnySpec => []LeaderInMinority
<1>1. TesterInv => LeaderInMinority
  BY MinorityWhenDone DEF TesterInv, LeaderInMinority
<1> QED
  BY <1>1, TesterInvariant, PTL

(* An instance that was shut down can use none of the ends StartServer     *)
(* gave it, although cfg.endnames names them until the next StartServer    *)
(* and ConnectAll enables all that cfg.endnames names.                     *)
THEOREM OldInstanceSilencedHolds == AnySpec => []OldInstanceSilenced
<1>1. TesterInv => OldInstanceSilenced
  <2> SUFFICES ASSUME TesterInv PROVE OldInstanceSilenced
    OBVIOUS
  <2>1. ASSUME part = "kvraft" PROVE Kv!OldInstanceSilenced
    BY <2>1 DEF TesterInv, KvInv
  <2>2. ASSUME part = "shardctrler" PROVE Ctrler!OldInstanceSilenced
    <3>1. CtrlerTypes /\ CtrlerStage /\ CtrlerEnds
      BY <2>2 DEF TesterInv, CtrlerInv
    <3> SUFFICES ASSUME NEW x \in Servers \X Starts, NEW j \in Servers, <<x, j>> \in enabled
                 PROVE  x[1] \in up /\ x[2] = endnames[x[1]]
      BY CtrlerFacts DEF Ctrler!OldInstanceSilenced
    <3>2. x[2] = endnames[x[1]] /\ (x[1] = i => at = "connected")
      BY <3>1 DEF CtrlerEnds
    <3>3. endnames[x[1]] # 0
      BY <3>2 DEF Starts
    <3> QED
      BY <3>1, <3>2, <3>3 DEF CtrlerStage
  <2>3. ASSUME part = "shardkv" PROVE Shard!GivenEndsSilenced
    BY <2>3 DEF TesterInv, ShardInv
  <2> QED
    BY <2>1, <2>2, <2>3 DEF OldInstanceSilenced
<1> QED
  BY <1>1, TesterInvariant, PTL
=============================================================================
