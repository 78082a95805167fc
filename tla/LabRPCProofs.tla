---------------------------- MODULE LabRPCProofs ----------------------------
(***************************************************************************)
(* Proofs about LabRPC for every set of Calls, end names, server names and *)
(* *Server objects: type correctness, NoStaleAck, the implementation of     *)
(* RpcService, and Accounting.                                             *)
(***************************************************************************)
EXTENDS LabRPC, TLAPS, FiniteSetTheorems

\* Which steps of the three goroutines of a Call go together.
Phases ==
  \A c \in Calls :
    /\ client[c] # "idle" => callEnd[c] \in EndNames
    /\ client[c] \in {"idle", "sending"} => proc[c] = "none"
    /\ (client[c] = "waiting") <=> (proc[c] \notin {"none", "done"})
    /\ proc[c] \in {"none", "start", "deliver", "timeout"} => handler[c] = "none"
    /\ proc[c] \in {"replied", "answering", "late"} => handler[c] = "exit"
    /\ client[c] = "ok" => handler[c] = "exit"

\* processReq's locals name *Server objects that exist, and so does the Network.
Targets ==
  /\ \A s \in ServerNames : servers[s] # Nil => servers[s] \in allocated
  /\ \A c \in Calls :
       proc[c] \in {"deliver", "await", "replied", "gaveup", "answering", "late"}
         \/ handler[c] # "none"
       => target[c] \in ServerNames /\ server[c] \in allocated

\* A handler that has finished and whose *Server is registered now finished
\* while it was registered, because no *Server is ever registered again; and
\* what processReq has decided to pass on finished that way.
Freshness ==
  \A c \in Calls :
    /\ handler[c] \in {"finished", "exit"} /\ servers[target[c]] = server[c]
         => finishedLive[c]
    /\ proc[c] \in {"answering", "late"} \/ client[c] = "ok" => finishedLive[c]

\* The inductive invariant.
IInv == TypeOK /\ Phases /\ Targets /\ Freshness

LEMMA InitIInv == Init => IInv
<1> SUFFICES ASSUME Init PROVE IInv
  OBVIOUS
<1>1. TypeOK
  BY ConstantsAssumption DEF Init, TypeOK, ClientStates, ProcStates, HandlerStates
<1>2. Phases
  BY DEF Init, Phases
<1>3. Targets
  BY DEF Init, Targets
<1>4. Freshness
  BY DEF Init, Freshness
<1> QED
  BY <1>1, <1>2, <1>3, <1>4 DEF IInv

LEMMA NextIInv == IInv /\ [Next]_vars => IInv'
<1> SUFFICES ASSUME IInv, [Next]_vars PROVE IInv'
  OBVIOUS
<1> USE ConstantsAssumption DEF IInv, TypeOK, Phases, Targets, Freshness,
        ClientStates, ProcStates, HandlerStates, netVars, statVars, localVars,
        callVars, ProcGoto
<1>1. ASSUME NEW e \in EndNames, MakeEnd(e)
      PROVE  IInv'
  BY <1>1 DEF MakeEnd
<1>2. ASSUME NEW e \in EndNames, NEW s \in ServerNames, Connect(e, s)
      PROVE  IInv'
  BY <1>2 DEF Connect
<1>3. ASSUME NEW e \in EndNames, NEW yes \in BOOLEAN, Enable(e, yes)
      PROVE  IInv'
  BY <1>3 DEF Enable
<1>4. ASSUME NEW s \in ServerNames, NEW rs \in Instances, AddServer(s, rs)
      PROVE  IInv'
  BY <1>4 DEF AddServer
<1>5. ASSUME NEW s \in ServerNames, DeleteServer(s)
      PROVE  IInv'
  BY <1>5 DEF DeleteServer
<1>6. ASSUME NEW yes \in BOOLEAN, Reliable(yes)
      PROVE  IInv'
  BY <1>6 DEF Reliable
<1>7. ASSUME NEW yes \in BOOLEAN, LongReordering(yes)
      PROVE  IInv'
  BY <1>7 DEF LongReordering
<1>8. ASSUME Cleanup
      PROVE  IInv'
  BY <1>8 DEF Cleanup
<1>9. ASSUME NetLoopExit
      PROVE  IInv'
  BY <1>9 DEF NetLoopExit
<1>10. ASSUME NEW c \in Calls, NEW e \in EndNames, Call(c, e)
      PROVE  IInv'
  BY <1>10 DEF Call
<1>11. ASSUME NEW c \in Calls, AcceptReq(c)
      PROVE  IInv'
  BY <1>11 DEF AcceptReq
<1>12. ASSUME NEW c \in Calls, AbortCall(c)
      PROVE  IInv'
  BY <1>12 DEF AbortCall
<1>13. ASSUME NEW c \in Calls, ReadEndnameInfo(c)
      PROVE  IInv'
  BY <1>13 DEF ReadEndnameInfo, ServerOf, Reachable
<1>14. ASSUME NEW c \in Calls, Unreachable(c)
      PROVE  IInv'
  BY <1>14 DEF Unreachable
<1>15. ASSUME NEW c \in Calls, DropRequest(c)
      PROVE  IInv'
  BY <1>15 DEF DropRequest
<1>16. ASSUME NEW c \in Calls, Deliver(c)
      PROVE  IInv'
  BY <1>16 DEF Deliver
<1>17. ASSUME NEW c \in Calls, ReceiveReply(c)
      PROVE  IInv'
  BY <1>17 DEF ReceiveReply
<1>18. ASSUME NEW c \in Calls, GiveUp(c)
      PROVE  IInv'
  BY <1>18 DEF GiveUp
<1>19. ASSUME NEW c \in Calls, Conclude(c)
      PROVE  IInv'
  BY <1>19 DEF Conclude, IsServerDead
<1>20. ASSUME NEW c \in Calls, AnswerFalse(c)
      PROVE  IInv'
  BY <1>20 DEF AnswerFalse
<1>21. ASSUME NEW c \in Calls, AnswerReply(c)
      PROVE  IInv'
  BY <1>21 DEF AnswerReply
<1>22. ASSUME NEW c \in Calls, Dispatch(c)
      PROVE  IInv'
  BY <1>22 DEF Dispatch
<1>23. ASSUME NEW c \in Calls, Finish(c)
      PROVE  IInv'
  <2> USE <1>23 DEF Finish
  <2>1. CASE servers[target[c]] = server[c]
    <3>1. finishedLive' = [finishedLive EXCEPT ![c] = TRUE]
      BY <2>1
    <3> QED
      BY <3>1
  <2>2. CASE servers[target[c]] # server[c]
    <3>1. finishedLive' = [finishedLive EXCEPT ![c] = FALSE]
      BY <2>2
    <3> QED
      BY <2>2, <3>1
  <2> QED
    BY <2>1, <2>2
<1>24. ASSUME NEW c \in Calls, Drain(c)
      PROVE  IInv'
  BY <1>24 DEF Drain
<1>25. CASE UNCHANGED vars
  BY <1>25 DEF vars
<1> HIDE DEF IInv
<1> QED
  BY <1>1, <1>2, <1>3, <1>4, <1>5, <1>6, <1>7, <1>8, <1>9, <1>10, <1>11, <1>12, <1>13, <1>14, <1>15, <1>16, <1>17, <1>18, <1>19, <1>20, <1>21, <1>22, <1>23, <1>24, <1>25
     DEF Next, Tester, ProcessReq

(* In every reachable state of the network the variables have their types: *)
(* in particular processReq never looks up a server through a nil name and *)
(* never dispatches a request to a nil *Server, whatever is deleted when.  *)
THEOREM TypeCorrect == Spec => []TypeOK
<1>1. IInv => TypeOK
  BY DEF IInv
<1> QED
  BY <1>1, InitIInv, NextIInv, PTL DEF Spec

(* For any number of concurrent Calls, ends and server restarts, Call      *)
(* returns true only for a handler that finished before DeleteServer       *)
(* (labrpc.go's second isServerDead).                                      *)
THEOREM NoStaleAckHolds == Spec => []NoStaleAck
<1>1. IInv => NoStaleAck
  BY DEF IInv, Freshness, NoStaleAck
<1> QED
  BY <1>1, InitIInv, NextIInv, PTL DEF Spec

-----------------------------------------------------------------------------
(* Call implements RpcService.                                             *)

LEMMA InitRefines == Init => RS!Init
<1> SUFFICES ASSUME Init PROVE RS!Init
  OBVIOUS
<1>1. \A c \in Calls : Outcome(c) = "idle" /\ Executed(c) = FALSE
  BY DEF Init, Outcome, Executed
<1> QED
  BY <1>1 DEF RS!Init

LEMMA NextRefines == IInv /\ [Next]_vars => [RS!Next]_(RS!vars)
<1> SUFFICES ASSUME IInv, [Next]_vars PROVE [RS!Next]_(RS!vars)
  OBVIOUS
<1> USE DEF IInv, TypeOK, Phases, ClientStates, ProcStates, HandlerStates
<1>1. CASE UNCHANGED <<client, handler>>
  BY <1>1 DEF RS!vars, Outcome, Executed
<1>2. ASSUME NEW c \in Calls, NEW e \in EndNames, Call(c, e)
      PROVE  RS!Invoke(c)
  BY <1>2 DEF Call, RS!Invoke, Outcome, Executed
<1>3. ASSUME NEW c \in Calls, AcceptReq(c)
      PROVE  UNCHANGED RS!vars
  BY <1>3 DEF AcceptReq, RS!vars, Outcome, Executed
<1>4. ASSUME NEW c \in Calls, AbortCall(c)
      PROVE  RS!ReturnFalse(c)
  BY <1>4 DEF AbortCall, RS!ReturnFalse, Outcome, Executed
<1>5. ASSUME NEW c \in Calls, AnswerFalse(c)
      PROVE  RS!ReturnFalse(c)
  BY <1>5 DEF AnswerFalse, RS!ReturnFalse, Outcome, Executed
<1>6. ASSUME NEW c \in Calls, AnswerReply(c)
      PROVE  RS!ReturnTrue(c)
  BY <1>6 DEF AnswerReply, RS!ReturnTrue, Outcome, Executed
<1>7. ASSUME NEW c \in Calls, Deliver(c) \/ ReceiveReply(c) \/ Dispatch(c) \/ Drain(c)
      PROVE  UNCHANGED RS!vars
  BY <1>7 DEF Deliver, ReceiveReply, Dispatch, Drain, ProcGoto, RS!vars, Outcome, Executed
<1>8. ASSUME NEW c \in Calls, Finish(c)
      PROVE  RS!Execute(c)
  BY <1>8 DEF Finish, RS!Execute, Outcome, Executed
<1>9. ASSUME NEW c \in Calls,
             ReadEndnameInfo(c) \/ Unreachable(c) \/ DropRequest(c) \/ GiveUp(c)
               \/ Conclude(c)
      PROVE  UNCHANGED <<client, handler>>
  BY <1>9 DEF ReadEndnameInfo, Unreachable, DropRequest, GiveUp, Conclude
<1>10. ASSUME Tester \/ NetLoopExit \/ UNCHANGED vars
       PROVE  UNCHANGED <<client, handler>>
  BY <1>10 DEF Tester, MakeEnd, Connect, Enable, AddServer, DeleteServer, Reliable,
     LongReordering, Cleanup, NetLoopExit, vars, callVars
<1> QED
  BY <1>1, <1>2, <1>3, <1>4, <1>5, <1>6, <1>7, <1>8, <1>9, <1>10
     DEF Next, ProcessReq, RS!Next

(* Whatever the network loses, delays or disconnects, and whenever servers *)
(* are deleted and replaced, every Call keeps the promise of RpcService.   *)
THEOREM Refinement == Spec => ImplementsRpcService
<1>1. Init => RS!Init
  BY InitRefines
<1>2. IInv /\ [Next]_vars => [RS!Next]_(RS!vars)
  BY NextRefines
<1> QED
  BY <1>1, <1>2, InitIInv, NextIInv, PTL DEF Spec, ImplementsRpcService, RS!Spec

-----------------------------------------------------------------------------
(* The counters.  Each is the cardinality of a set of Calls, and a step    *)
(* adds at most one Call to at most one of these sets.                     *)

Accepted       == {c \in Calls : proc[c] # "none"}
Answered       == {c \in Calls : client[c] = "ok"}
Dispatched(rs) == {c \in Calls : server[c] = rs
                                 /\ handler[c] \in {"running", "finished", "exit"}}

\* However many Calls there may be, only finitely many have been accepted.
Counters == IsFiniteSet(Accepted) /\ Accounting

LEMMA CountedFinite ==
  ASSUME IInv, Counters
  PROVE  /\ IsFiniteSet(Accepted) /\ IsFiniteSet(Answered)
         /\ \A rs \in Instances : IsFiniteSet(Dispatched(rs))
<1>1. Answered \subseteq Accepted /\ \A rs \in Instances : Dispatched(rs) \subseteq Accepted
  BY DEF IInv, Phases, TypeOK, Accepted, Answered, Dispatched
<1> QED
  BY <1>1, FS_Subset DEF Counters

\* A step that leaves counters and sets alone.
Uncounted ==
  /\ UNCHANGED <<rpcCount, bytes, count>>
  /\ Accepted' = Accepted /\ Answered' = Answered
  /\ \A rs \in Instances : Dispatched(rs)' = Dispatched(rs)

LEMMA OtherSteps ==
  ASSUME IInv, [Next]_vars,
         ~\E c \in Calls : AcceptReq(c) \/ AnswerReply(c) \/ Dispatch(c)
  PROVE  Uncounted
<1> USE DEF Uncounted, IInv, TypeOK, Phases, ClientStates, ProcStates, HandlerStates, Accepted, Answered,
            Dispatched, ProcGoto, netVars, statVars, localVars, callVars
<1>1. CASE Tester \/ NetLoopExit \/ UNCHANGED vars
  BY <1>1 DEF Tester, MakeEnd, Connect, Enable, AddServer, DeleteServer, Reliable,
              LongReordering, Cleanup, NetLoopExit, vars
<1>2. ASSUME NEW c \in Calls, NEW e \in EndNames, Call(c, e)
      PROVE  Uncounted
  BY <1>2 DEF Call
<1>3. ASSUME NEW c \in Calls, AbortCall(c) \/ AnswerFalse(c)
      PROVE  Uncounted
  BY <1>3 DEF AbortCall, AnswerFalse
<1>4. ASSUME NEW c \in Calls, ReadEndnameInfo(c)
      PROVE  Uncounted
  BY <1>4 DEF ReadEndnameInfo
<1>5. ASSUME NEW c \in Calls, Unreachable(c) \/ DropRequest(c) \/ Conclude(c) \/ GiveUp(c)
      PROVE  Uncounted
  BY <1>5 DEF Unreachable, DropRequest, Conclude, GiveUp
<1>6. ASSUME NEW c \in Calls, Deliver(c) \/ ReceiveReply(c)
      PROVE  Uncounted
  BY <1>6 DEF Deliver, ReceiveReply
<1>7. ASSUME NEW c \in Calls, Finish(c) \/ Drain(c)
      PROVE  Uncounted
  BY <1>7 DEF Finish, Drain
<1> QED
  BY <1>1, <1>2, <1>3, <1>4, <1>5, <1>6, <1>7 DEF Next, ProcessReq

LEMMA NextCounters == IInv /\ Counters /\ [Next]_vars => Counters'
<1> SUFFICES ASSUME IInv, Counters, [Next]_vars PROVE Counters'
  OBVIOUS
<1>0. /\ IsFiniteSet(Accepted) /\ IsFiniteSet(Answered)
      /\ \A rs \in Instances : IsFiniteSet(Dispatched(rs))
      /\ rpcCount \in Nat /\ bytes \in Nat
      /\ rpcCount = Cardinality(Accepted)
      /\ bytes = rpcCount + Cardinality(Answered)
      /\ \A rs \in Instances : count[rs] = Cardinality(Dispatched(rs))
  BY CountedFinite DEF Counters, Accounting, Accepted, Answered, Dispatched, IInv, TypeOK
<1> DEFINE Exact == /\ IsFiniteSet(Accepted')
                    /\ rpcCount' = Cardinality(Accepted')
                    /\ bytes' = rpcCount' + Cardinality(Answered')
                    /\ \A rs \in Instances : count'[rs] = Cardinality(Dispatched(rs)')
<1>1. SUFFICES Exact
  BY DEF Counters, Accounting, Accepted, Answered, Dispatched
<1>2. ASSUME NEW c \in Calls, AcceptReq(c)
      PROVE  Exact
  <2>1. c \notin Accepted /\ Accepted' = Accepted \cup {c} /\ Answered' = Answered
    BY <1>2 DEF AcceptReq, Accepted, Answered, IInv, TypeOK, Phases
  <2>2. /\ rpcCount' = rpcCount + 1 /\ bytes' = bytes + 1 /\ count' = count
        /\ \A rs \in Instances : Dispatched(rs)' = Dispatched(rs)
    BY <1>2 DEF AcceptReq, Dispatched, localVars
  <2>3. IsFiniteSet(Accepted') /\ Cardinality(Accepted') = Cardinality(Accepted) + 1
    BY <1>0, <2>1, FS_AddElement
  <2>4. Cardinality(Answered) \in Nat
    BY <1>0, FS_CardinalityType
  <2>5. bytes' = rpcCount' + Cardinality(Answered')
    BY <1>0, <2>1, <2>2, <2>4
  <2> QED
    BY <1>0, <2>2, <2>3, <2>5
<1>3. ASSUME NEW c \in Calls, AnswerReply(c)
      PROVE  Exact
  <2>1. c \notin Answered /\ Answered' = Answered \cup {c} /\ Accepted' = Accepted
    BY <1>3 DEF AnswerReply, Accepted, Answered, IInv, TypeOK, Phases
  <2>2. /\ rpcCount' = rpcCount /\ bytes' = bytes + 1 /\ count' = count
        /\ \A rs \in Instances : Dispatched(rs)' = Dispatched(rs)
    BY <1>3 DEF AnswerReply, Dispatched, localVars
  <2>3. Cardinality(Answered') = Cardinality(Answered) + 1
    BY <1>0, <2>1, FS_AddElement
  <2>4. Cardinality(Answered) \in Nat
    BY <1>0, FS_CardinalityType
  <2>5. bytes' = rpcCount' + Cardinality(Answered')
    BY <1>0, <2>2, <2>3, <2>4
  <2> QED
    BY <1>0, <2>1, <2>2, <2>5
<1>4. ASSUME NEW c \in Calls, Dispatch(c)
      PROVE  Exact
  <2>1. /\ Accepted' = Accepted /\ Answered' = Answered /\ UNCHANGED <<rpcCount, bytes>>
        /\ count' = [count EXCEPT ![server[c]] = count[server[c]] + 1]
    BY <1>4 DEF Dispatch, Accepted, Answered
  <2>2. /\ server' = server /\ handler[c] = "spawned"
        /\ handler' = [handler EXCEPT ![c] = "running"]
    BY <1>4 DEF Dispatch, localVars
  <2>3. ASSUME NEW rs \in Instances, rs # server[c]
        PROVE  count'[rs] = Cardinality(Dispatched(rs)')
    <3>1. Dispatched(rs)' = Dispatched(rs)
      BY <2>2, <2>3 DEF Dispatched, IInv, TypeOK
    <3> QED
      BY <1>0, <2>1, <2>3, <3>1 DEF IInv, TypeOK
  <2>4. ASSUME NEW rs \in Instances, rs = server[c]
        PROVE  count'[rs] = Cardinality(Dispatched(rs)')
    <3>1. c \notin Dispatched(rs) /\ Dispatched(rs)' = Dispatched(rs) \cup {c}
      BY <2>2, <2>4 DEF Dispatched, IInv, TypeOK
    <3>2. Cardinality(Dispatched(rs)') = Cardinality(Dispatched(rs)) + 1
      BY <1>0, <3>1, FS_AddElement
    <3> QED
      BY <1>0, <2>1, <2>4, <3>2 DEF IInv, TypeOK
  <2> QED
    BY <1>0, <2>1, <2>3, <2>4
<1>5. CASE ~\E c \in Calls : AcceptReq(c) \/ AnswerReply(c) \/ Dispatch(c)
  BY <1>0, <1>5, OtherSteps DEF Uncounted
<1> QED
  BY <1>2, <1>3, <1>4, <1>5

(* For any number of Calls, ends and servers, the counters that TestCounts *)
(* and TestBytes read are exact: Network.count is the number of requests   *)
(* accepted, a reply's bytes are counted once, and only when the caller    *)
(* gets it, and each Server.count is the number of its dispatches.         *)
THEOREM AccountingHolds == Spec => []Accounting
<1>1. Init => Counters
  <2> SUFFICES ASSUME Init PROVE Counters
    OBVIOUS
  <2>1. Accepted = {} /\ Answered = {} /\ \A rs \in Instances : Dispatched(rs) = {}
    BY DEF Init, Accepted, Answered, Dispatched
  <2>2. rpcCount = 0 /\ bytes = 0 /\ \A rs \in Instances : count[rs] = 0
    BY DEF Init
  <2> QED
    BY <2>1, <2>2, FS_EmptySet DEF Counters, Accounting, Accepted, Answered, Dispatched
<1>2. Counters => Accounting
  BY DEF Counters
<1> QED
  BY <1>1, <1>2, InitIInv, NextIInv, NextCounters, PTL DEF Spec
=============================================================================
