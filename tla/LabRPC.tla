------------------------------- MODULE LabRPC -------------------------------
(***************************************************************************)
(* The channel-based RPC package of the labs (labrpc/labrpc.go): a Network *)
(* that may lose requests, lose or delay replies and disconnect hosts.     *)
(*                                                                         *)
(* Each Call runs in the caller's goroutine and, once the Network's single *)
(* goroutine has accepted the request, in three more: processReq, the      *)
(* goroutine that runs server.dispatch, and (when the server is found      *)
(* dead) one that drains the dispatch goroutine's channel.  One action is  *)
(* one step of one goroutine between two points where another can run.     *)
(* Time is abstracted to "at any later moment", so LongDelays, which only  *)
(* stretches a delay, has no counterpart; a message weighs one byte.       *)
(***************************************************************************)
EXTENDS Naturals, FiniteSets

CONSTANTS Calls,        \* one element per invocation of ClientEnd.Call
          EndNames,     \* names given to MakeEnd
          ServerNames,  \* names given to AddServer
          Instances,    \* the *Server objects MakeServer can allocate
          Hanging,      \* the Calls whose handler never returns
          Nil

ASSUME ConstantsAssumption ==
  /\ Hanging \subseteq Calls
  /\ Nil \notin ServerNames
  /\ Nil \notin Instances
  /\ Nil \notin EndNames

VARIABLES
  \* the Network object
  reliable, longReordering,
  ends,          \* the end names that exist
  enabled,       \* by end name
  connections,   \* end name -> server name, or Nil
  servers,       \* server name -> *Server, or Nil
  rpcCount,      \* Network.count
  bytes,
  done,          \* the done channel is closed
  netLoop,       \* the goroutine MakeNetwork starts is still running
  \* the Server objects
  allocated,     \* the *Server objects that exist
  count,         \* Server.count
  \* the goroutines of each Call
  client,        \* the caller inside Call
  callEnd,       \* the ClientEnd it calls on
  proc,          \* processReq
  handler,       \* the goroutine around server.dispatch
  draining,      \* the goroutine that drains ech exists
  \* processReq's locals, read once under the lock
  target, server, wasReliable, wasReordering,
  \* history: was the server still registered when its handler finished?
  finishedLive

netVars   == <<reliable, longReordering, ends, enabled, connections, servers,
               done, netLoop, allocated>>
statVars  == <<rpcCount, bytes, count>>
localVars == <<target, server, wasReliable, wasReordering>>
callVars  == <<client, callEnd, proc, handler, draining, localVars, finishedLive>>
vars      == <<netVars, statVars, callVars>>

ClientStates  == {"idle", "sending", "waiting", "ok", "fail"}
ProcStates    == {"none", "start", "deliver", "await", "replied", "gaveup",
                  "failing", "answering", "late", "timeout", "done"}
HandlerStates == {"none", "spawned", "running", "finished", "exit"}

(* Every variable has its type, and a request is only ever given to a      *)
(* *Server that is not nil: server.dispatch takes its lock, so a nil one,   *)
(* read from rn.servers after DeleteServer, would end the tester's process. *)
TypeOK ==
  /\ reliable \in BOOLEAN /\ longReordering \in BOOLEAN
  /\ ends \subseteq EndNames
  /\ enabled \in [EndNames -> BOOLEAN]
  /\ connections \in [EndNames -> ServerNames \cup {Nil}]
  /\ servers \in [ServerNames -> Instances \cup {Nil}]
  /\ rpcCount \in Nat /\ bytes \in Nat
  /\ done \in BOOLEAN /\ netLoop \in BOOLEAN
  /\ allocated \subseteq Instances
  /\ count \in [Instances -> Nat]
  /\ client \in [Calls -> ClientStates]
  /\ callEnd \in [Calls -> EndNames \cup {Nil}]
  /\ proc \in [Calls -> ProcStates]
  /\ handler \in [Calls -> HandlerStates]
  /\ draining \in [Calls -> BOOLEAN]
  /\ target \in [Calls -> ServerNames \cup {Nil}]
  /\ server \in [Calls -> Instances \cup {Nil}]
  /\ wasReliable \in [Calls -> BOOLEAN] /\ wasReordering \in [Calls -> BOOLEAN]
  /\ finishedLive \in [Calls -> BOOLEAN]
  /\ \A c \in Calls : handler[c] # "none" => server[c] # Nil

\* MakeNetwork
Init ==
  /\ reliable = TRUE /\ longReordering = FALSE
  /\ ends = {}
  /\ enabled = [e \in EndNames |-> FALSE]
  /\ connections = [e \in EndNames |-> Nil]
  /\ servers = [s \in ServerNames |-> Nil]
  /\ rpcCount = 0 /\ bytes = 0
  /\ done = FALSE /\ netLoop = TRUE
  /\ allocated = {} /\ count = [rs \in Instances |-> 0]
  /\ client = [c \in Calls |-> "idle"]
  /\ callEnd = [c \in Calls |-> Nil]
  /\ proc = [c \in Calls |-> "none"]
  /\ handler = [c \in Calls |-> "none"]
  /\ draining = [c \in Calls |-> FALSE]
  /\ target = [c \in Calls |-> Nil] /\ server = [c \in Calls |-> Nil]
  /\ wasReliable = [c \in Calls |-> FALSE]
  /\ wasReordering = [c \in Calls |-> FALSE]
  /\ finishedLive = [c \in Calls |-> FALSE]

-----------------------------------------------------------------------------
(* Operations the tester calls on the Network, each under rn.mu.           *)

\* A second MakeEnd of a name is log.Fatalf: the process is gone.
MakeEnd(e) ==
  /\ e \notin ends
  /\ ends' = ends \cup {e}
  /\ enabled' = [enabled EXCEPT ![e] = FALSE]
  /\ connections' = [connections EXCEPT ![e] = Nil]
  /\ UNCHANGED <<reliable, longReordering, servers, done, netLoop, allocated,
                 statVars, callVars>>

Connect(e, s) ==
  /\ e \in ends
  /\ connections' = [connections EXCEPT ![e] = s]
  /\ UNCHANGED <<reliable, longReordering, ends, enabled, servers, done, netLoop,
                 allocated, statVars, callVars>>

Enable(e, yes) ==
  /\ e \in ends
  /\ enabled' = [enabled EXCEPT ![e] = yes]
  /\ UNCHANGED <<reliable, longReordering, ends, connections, servers, done,
                 netLoop, allocated, statVars, callVars>>

\* MakeServer and AddService come just before: rs is a new *Server.
AddServer(s, rs) ==
  /\ rs \notin allocated
  /\ allocated' = allocated \cup {rs}
  /\ servers' = [servers EXCEPT ![s] = rs]
  /\ UNCHANGED <<reliable, longReordering, ends, enabled, connections, done,
                 netLoop, statVars, callVars>>

DeleteServer(s) ==
  /\ servers' = [servers EXCEPT ![s] = Nil]
  /\ UNCHANGED <<reliable, longReordering, ends, enabled, connections, done,
                 netLoop, allocated, statVars, callVars>>

Reliable(yes) ==
  /\ reliable' = yes
  /\ UNCHANGED <<longReordering, ends, enabled, connections, servers, done,
                 netLoop, allocated, statVars, callVars>>

LongReordering(yes) ==
  /\ longReordering' = yes
  /\ UNCHANGED <<reliable, ends, enabled, connections, servers, done, netLoop,
                 allocated, statVars, callVars>>

\* Closing done twice would panic.
Cleanup ==
  /\ ~done
  /\ done' = TRUE
  /\ UNCHANGED <<reliable, longReordering, ends, enabled, connections, servers,
                 netLoop, allocated, statVars, callVars>>

-----------------------------------------------------------------------------
(* ClientEnd.Call and the Network's own goroutine.                         *)

\* Call encodes its arguments and reaches the select on e.ch and e.done.
Call(c, e) ==
  /\ client[c] = "idle" /\ e \in ends
  /\ client' = [client EXCEPT ![c] = "sending"]
  /\ callEnd' = [callEnd EXCEPT ![c] = e]
  /\ UNCHANGED <<netVars, statVars, proc, handler, draining, localVars, finishedLive>>

\* The rendezvous on endCh; the Network's select may still pick this case
\* after Cleanup, until it picks done.
AcceptReq(c) ==
  /\ client[c] = "sending" /\ netLoop
  /\ client' = [client EXCEPT ![c] = "waiting"]
  /\ proc' = [proc EXCEPT ![c] = "start"]
  /\ rpcCount' = rpcCount + 1 /\ bytes' = bytes + 1
  /\ UNCHANGED <<netVars, count, callEnd, handler, draining, localVars, finishedLive>>

\* Mutant: Call does not watch e.done.
NeverAbort(c) ==
  /\ client[c] = "sending" /\ FALSE
  /\ UNCHANGED vars

\* Call's select picks e.done.
AbortCall(c) ==
  /\ client[c] = "sending" /\ done
  /\ client' = [client EXCEPT ![c] = "fail"]
  /\ UNCHANGED <<netVars, statVars, callEnd, proc, handler, draining, localVars,
                 finishedLive>>

NetLoopExit ==
  /\ done /\ netLoop
  /\ netLoop' = FALSE
  /\ UNCHANGED <<reliable, longReordering, ends, enabled, connections, servers,
                 done, allocated, statVars, callVars>>

-----------------------------------------------------------------------------
(* processReq.                                                             *)

ServerOf(e) == IF connections[e] = Nil THEN Nil ELSE servers[connections[e]]

\* Mutant: processReq does not test server != nil.
ReachableByName(e) == enabled[e] /\ connections[e] # Nil

Reachable(e) == enabled[e] /\ connections[e] # Nil /\ ServerOf(e) # Nil

ProcGoto(c, from, to) ==
  /\ proc[c] = from
  /\ proc' = [proc EXCEPT ![c] = to]

ReadEndnameInfo(c) ==
  /\ ProcGoto(c, "start", "deliver")
  /\ Reachable(callEnd[c])
  /\ target' = [target EXCEPT ![c] = connections[callEnd[c]]]
  /\ server' = [server EXCEPT ![c] = ServerOf(callEnd[c])]
  /\ wasReliable' = [wasReliable EXCEPT ![c] = reliable]
  /\ wasReordering' = [wasReordering EXCEPT ![c] = longReordering]
  /\ UNCHANGED <<netVars, statVars, client, callEnd, handler, draining, finishedLive>>

\* Nobody to deliver to: a timer will answer false after a while.
Unreachable(c) ==
  /\ ProcGoto(c, "start", "timeout")
  /\ ~Reachable(callEnd[c])
  /\ UNCHANGED <<netVars, statVars, client, callEnd, handler, draining, localVars,
                 finishedLive>>

DropRequest(c) ==
  /\ ~wasReliable[c]
  /\ ProcGoto(c, "deliver", "failing")
  /\ UNCHANGED <<netVars, statVars, client, callEnd, handler, draining, localVars,
                 finishedLive>>

Deliver(c) ==
  /\ ProcGoto(c, "deliver", "await")
  /\ handler' = [handler EXCEPT ![c] = "spawned"]
  /\ UNCHANGED <<netVars, statVars, client, callEnd, draining, localVars, finishedLive>>

\* Mutant: the server's registration is not looked at.
IsEndDisabled(c) == ~enabled[callEnd[c]]

IsServerDead(c) == ~enabled[callEnd[c]] \/ servers[target[c]] # server[c]

\* reply = <-ech
ReceiveReply(c) ==
  /\ handler[c] = "finished"
  /\ ProcGoto(c, "await", "replied")
  /\ handler' = [handler EXCEPT ![c] = "exit"]
  /\ UNCHANGED <<netVars, statVars, client, callEnd, draining, localVars, finishedLive>>

\* Mutant: processReq returns without the goroutine that drains ech.
GiveUpWithoutDrain(c) ==
  /\ ProcGoto(c, "await", "gaveup")
  /\ IsServerDead(c)
  /\ UNCHANGED <<netVars, statVars, client, callEnd, handler, draining, localVars,
                 finishedLive>>

\* The 100 ms poll finds the server dead (finding it alive changes nothing).
GiveUp(c) ==
  /\ ProcGoto(c, "await", "gaveup")
  /\ IsServerDead(c)
  /\ draining' = [draining EXCEPT ![c] = TRUE]
  /\ UNCHANGED <<netVars, statVars, client, callEnd, handler, localVars, finishedLive>>

\* Mutant: the second isServerDead is gone.
ConcludeUnchecked(c) ==
  /\ \/ proc[c] = "gaveup" /\ proc' = [proc EXCEPT ![c] = "failing"]
     \/ ProcGoto(c, "replied", "failing") /\ ~wasReliable[c]
     \/ ProcGoto(c, "replied", "late") /\ wasReordering[c]
     \/ ProcGoto(c, "replied", "answering")
  /\ UNCHANGED <<netVars, statVars, client, callEnd, handler, draining, localVars,
                 finishedLive>>

\* Mutant: replyOK is not looked at.
ConcludeIgnoringReplyOK(c) ==
  /\ proc[c] \in {"gaveup", "replied"}
  /\ \/ proc' = [proc EXCEPT ![c] = "failing"] /\ (IsServerDead(c) \/ ~wasReliable[c])
     \/ proc' = [proc EXCEPT ![c] = "late"] /\ ~IsServerDead(c) /\ wasReordering[c]
     \/ proc' = [proc EXCEPT ![c] = "answering"] /\ ~IsServerDead(c)
  /\ UNCHANGED <<netVars, statVars, client, callEnd, handler, draining, localVars,
                 finishedLive>>

\* The second isServerDead, and the choice of what to answer.
Conclude(c) ==
  /\ \/ proc[c] = "gaveup" /\ proc' = [proc EXCEPT ![c] = "failing"]
     \/ ProcGoto(c, "replied", "failing") /\ (IsServerDead(c) \/ ~wasReliable[c])
     \/ ProcGoto(c, "replied", "late") /\ ~IsServerDead(c) /\ wasReordering[c]
     \/ ProcGoto(c, "replied", "answering") /\ ~IsServerDead(c)
  /\ UNCHANGED <<netVars, statVars, client, callEnd, handler, draining, localVars,
                 finishedLive>>

\* req.replyCh <- replyMsg{false, nil}, from processReq or from its timer
AnswerFalse(c) ==
  /\ proc[c] \in {"failing", "timeout"}
  /\ proc' = [proc EXCEPT ![c] = "done"]
  /\ client' = [client EXCEPT ![c] = "fail"]
  /\ UNCHANGED <<netVars, statVars, callEnd, handler, draining, localVars, finishedLive>>

\* Mutant: the timer does not count the bytes of a late reply.
AnswerReplyUncounted(c) ==
  /\ proc[c] \in {"answering", "late"}
  /\ proc' = [proc EXCEPT ![c] = "done"]
  /\ client' = [client EXCEPT ![c] = "ok"]
  /\ bytes' = IF proc[c] = "late" THEN bytes ELSE bytes + 1
  /\ UNCHANGED <<netVars, rpcCount, count, callEnd, handler, draining, localVars,
                 finishedLive>>

\* req.replyCh <- reply, from processReq or from the long-reordering timer
AnswerReply(c) ==
  /\ proc[c] \in {"answering", "late"}
  /\ proc' = [proc EXCEPT ![c] = "done"]
  /\ client' = [client EXCEPT ![c] = "ok"]
  /\ bytes' = bytes + 1
  /\ UNCHANGED <<netVars, rpcCount, count, callEnd, handler, draining, localVars,
                 finishedLive>>

-----------------------------------------------------------------------------
(* The goroutine that runs server.dispatch.                                *)

Dispatch(c) ==
  /\ handler[c] = "spawned"
  /\ handler' = [handler EXCEPT ![c] = "running"]
  /\ count' = [count EXCEPT ![server[c]] = @ + 1]
  /\ UNCHANGED <<netVars, rpcCount, bytes, client, callEnd, proc, draining, localVars,
                 finishedLive>>

\* service.dispatch: the method has run and its reply is encoded.
Finish(c) ==
  /\ handler[c] = "running" /\ c \notin Hanging
  /\ handler' = [handler EXCEPT ![c] = "finished"]
  /\ finishedLive' = [finishedLive EXCEPT ![c] = (servers[target[c]] = server[c])]
  /\ UNCHANGED <<netVars, statVars, client, callEnd, proc, draining, localVars>>

\* <-ech in the goroutine that processReq leaves behind
Drain(c) ==
  /\ draining[c] /\ handler[c] = "finished"
  /\ handler' = [handler EXCEPT ![c] = "exit"]
  /\ draining' = [draining EXCEPT ![c] = FALSE]
  /\ UNCHANGED <<netVars, statVars, client, callEnd, proc, localVars, finishedLive>>

-----------------------------------------------------------------------------
Tester ==
  \/ \E e \in EndNames : MakeEnd(e)
  \/ \E e \in EndNames, s \in ServerNames : Connect(e, s)
  \/ \E e \in EndNames, yes \in BOOLEAN : Enable(e, yes)
  \/ \E s \in ServerNames, rs \in Instances : AddServer(s, rs)
  \/ \E s \in ServerNames : DeleteServer(s)
  \/ \E yes \in BOOLEAN : Reliable(yes)
  \/ \E yes \in BOOLEAN : LongReordering(yes)
  \/ Cleanup

ProcessReq(c) ==
  \/ ReadEndnameInfo(c) \/ Unreachable(c) \/ DropRequest(c) \/ Deliver(c)
  \/ ReceiveReply(c) \/ GiveUp(c) \/ Conclude(c) \/ AnswerFalse(c) \/ AnswerReply(c)

Next ==
  \/ Tester
  \/ NetLoopExit
  \/ \E c \in Calls :
       \/ \E e \in EndNames : Call(c, e)
       \/ AcceptReq(c) \/ AbortCall(c)
       \/ ProcessReq(c)
       \/ Dispatch(c) \/ Finish(c) \/ Drain(c)

Spec == Init /\ [][Next]_vars

\* Every goroutine that can take a step eventually takes one, and a timer
\* fires; nothing makes the tester act or a caller start a Call.
Fairness ==
  /\ WF_vars(NetLoopExit)
  /\ \A c \in Calls :
       /\ WF_vars(AcceptReq(c) \/ AbortCall(c))
       /\ WF_vars(ProcessReq(c))
       /\ WF_vars(Dispatch(c)) /\ WF_vars(Finish(c)) /\ WF_vars(Drain(c))

FairSpec == Spec /\ Fairness

-----------------------------------------------------------------------------
(* What a caller may rely on.                                              *)

(* A Call returns true only if its handler had finished while the *Server  *)
(* it ran on was still registered: whatever the handler persisted was in   *)
(* place before DeleteServer, hence before config.go superseded the        *)
(* Persister.  The race is between the handler, DeleteServer and AddServer *)
(* of a successor, and the second isServerDead of processReq, which must   *)
(* catch the handler that finished too late.                               *)
NoStaleAck == \A c \in Calls : client[c] = "ok" => finishedLive[c]

(* The counters agree with what the goroutines did, however they interleave*)
(* and whoever was told false: every accepted request is counted once, no  *)
(* request is dispatched twice, and a reply's bytes are counted exactly    *)
(* when the caller gets it (TestCounts and TestBytes read these counters). *)
Accounting ==
  /\ rpcCount = Cardinality({c \in Calls : proc[c] # "none"})
  /\ bytes = rpcCount + Cardinality({c \in Calls : client[c] = "ok"})
  /\ \A rs \in Instances : count[rs] =
       Cardinality({c \in Calls : server[c] = rs
                                  /\ handler[c] \in {"running", "finished", "exit"}})

\* What the caller of c sees, and whether its handler ran, in RpcService.
Outcome(c)  == IF client[c] \in {"sending", "waiting"} THEN "pending" ELSE client[c]
Executed(c) == handler[c] \in {"finished", "exit"}

RS == INSTANCE RpcService WITH outcome  <- [c \in Calls |-> Outcome(c)],
                               executed <- [c \in Calls |-> Executed(c)]

(* Call keeps the promise of RpcService, whatever the network, the tester  *)
(* and Cleanup do: it returns once, and true only after the handler ran,   *)
(* which it does at most once.                                             *)
ImplementsRpcService == RS!Spec

Returned(c) == client[c] \in {"ok", "fail"}

(* "Call() is guaranteed to return (perhaps after a delay) *except* if the *)
(* handler function on the server side does not return": also when the     *)
(* server is deleted, the end disabled or the Network destroyed meanwhile. *)
CallReturns == \A c \in Calls \ Hanging : client[c] = "sending" ~> Returned(c)

(* DeleteServer frees the caller of a handler that never returns, provided *)
(* the periodic isServerDead of processReq sees the deletion.              *)
HungCallFreed ==
  \A c \in Calls :
    (proc[c] = "await" /\ servers[target[c]] # server[c]) ~> Returned(c)

(* No dispatch goroutine is left blocked on ech: somebody receives what it *)
(* sends even when processReq has given up on the server.                  *)
NoGoroutineLeak == \A c \in Calls : handler[c] = "finished" ~> handler[c] = "exit"
=============================================================================
