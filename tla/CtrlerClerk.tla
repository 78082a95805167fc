---------------------------- MODULE CtrlerClerk ----------------------------
(***************************************************************************)
(* The clerks of the shard controller (shardctrler/client.go): Query,      *)
(* Join, Leave and Move all try the servers in turn until one answers and  *)
(* is the leader, sleep, and start over.  The controller is external: a    *)
(* server answers as the leader, on the operations executed so far, or     *)
(* sets WrongLeader.  The network is that of RpcService: a Call that       *)
(* returned false may still be executed, now or later.                     *)
(***************************************************************************)
EXTENDS Naturals, FiniteSets

CONSTANTS Clerks,
          NServers,     \* number of ClientEnds of a clerk
          Good,         \* a server that answers when it is asked again and again
          Updates       \* the Joins, Leaves and Moves: [kind, n]

Sizes ==
  /\ NServers \in Nat \ {0} /\ Good \in 1..NServers
  /\ \A u \in Updates : u.kind \in {"Join", "Leave", "Move"}

VARIABLES pc,          \* where each clerk is in its loop
          args,        \* the operation it is doing
          srv,         \* index in ck.servers of the server being tried
          answer,      \* what the server has put into its reply, if it ran
          ok, reply,   \* result and reply of the last Call
          abandoned,   \* updates with an attempt that may still be executed
          executed,    \* updates executed by the controller
          returned,    \* updates whose method has returned
          before       \* those returned before each clerk's operation began

vars == <<pc, args, srv, answer, ok, reply, abandoned, executed, returned, before>>

QueryOp == [kind |-> "Query", n |-> 0]
NoReply == [WrongLeader |-> FALSE, Config |-> {}]
Replies == [WrongLeader : BOOLEAN, Config : SUBSET Updates]
None    == [none |-> TRUE]

TypeOK ==
  /\ pc \in [Clerks -> {"idle", "try", "waiting", "answered"}]
  /\ args \in [Clerks -> Updates \cup {QueryOp}]
  /\ srv \in [Clerks -> 1..NServers]
  /\ answer \in [Clerks -> Replies \cup {None}]
  /\ ok \in [Clerks -> BOOLEAN] /\ reply \in [Clerks -> Replies]
  /\ abandoned \subseteq Updates /\ executed \subseteq Updates /\ returned \subseteq Updates
  /\ before \in [Clerks -> SUBSET Updates]

MakeClerk ==
  /\ pc = [ck \in Clerks |-> "idle"] /\ args = [ck \in Clerks |-> QueryOp]
  /\ srv = [ck \in Clerks |-> 1] /\ answer = [ck \in Clerks |-> None]
  /\ ok = [ck \in Clerks |-> FALSE] /\ reply = [ck \in Clerks |-> NoReply]
  /\ abandoned = {} /\ executed = {} /\ returned = {} /\ before = [ck \in Clerks |-> {}]

\* An update is asked for once.
Begin(ck, o) ==
  /\ pc[ck] = "idle"
  /\ o # QueryOp => o \notin returned /\ \A c2 \in Clerks : args[c2] # o
  /\ pc' = [pc EXCEPT ![ck] = "try"]
  /\ args' = [args EXCEPT ![ck] = o]
  /\ before' = [before EXCEPT ![ck] = returned]
  /\ UNCHANGED <<srv, answer, ok, reply, abandoned, executed, returned>>

Query(ck) == Begin(ck, QueryOp)
Join(ck)  == \E u \in Updates : u.kind = "Join" /\ Begin(ck, u)
Leave(ck) == \E u \in Updates : u.kind = "Leave" /\ Begin(ck, u)
Move(ck)  == \E u \in Updates : u.kind = "Move" /\ Begin(ck, u)

\* srv.Call with the zero reply declared in the loop.
Call(ck) ==
  /\ pc[ck] = "try"
  /\ pc' = [pc EXCEPT ![ck] = "waiting"]
  /\ reply' = [reply EXCEPT ![ck] = NoReply]
  /\ UNCHANGED <<args, srv, answer, ok, abandoned, executed, returned, before>>

\* The handler of the server that was asked.
ExecuteAsLeader(ck) ==
  /\ pc[ck] = "waiting" /\ answer[ck] = None
  /\ executed' = executed \cup ({args[ck]} \ {QueryOp})
  /\ answer' = [answer EXCEPT ![ck] = [WrongLeader |-> FALSE, Config |-> executed]]
  /\ UNCHANGED <<pc, args, srv, ok, reply, abandoned, returned, before>>

WrongLeader(ck) ==
  /\ pc[ck] = "waiting" /\ answer[ck] = None
  /\ answer' = [answer EXCEPT ![ck] = [WrongLeader |-> TRUE, Config |-> {}]]
  /\ UNCHANGED <<pc, args, srv, ok, reply, abandoned, executed, returned, before>>

\* An attempt that was given up is executed after all.
ExecuteLate ==
  /\ \E u \in abandoned \ executed : executed' = executed \cup {u}
  /\ UNCHANGED <<pc, args, srv, answer, ok, reply, abandoned, returned, before>>

\* gob does not send zero values: decoding leaves those fields as they are.
Decode(r, sent) == [WrongLeader |-> r.WrongLeader \/ sent.WrongLeader,
                    Config |-> IF sent.Config = {} THEN r.Config ELSE sent.Config]

ReturnTrue(ck) ==
  /\ pc[ck] = "waiting" /\ answer[ck] # None
  /\ pc' = [pc EXCEPT ![ck] = "answered"]
  /\ ok' = [ok EXCEPT ![ck] = TRUE]
  /\ reply' = [reply EXCEPT ![ck] = Decode(@, answer[ck])]
  /\ answer' = [answer EXCEPT ![ck] = None]
  /\ UNCHANGED <<args, srv, abandoned, executed, returned, before>>

ReturnFalse(ck) ==
  /\ pc[ck] = "waiting"
  /\ pc' = [pc EXCEPT ![ck] = "answered"]
  /\ ok' = [ok EXCEPT ![ck] = FALSE]
  /\ abandoned' = IF answer[ck] = None THEN abandoned \cup ({args[ck]} \ {QueryOp})
                                       ELSE abandoned
  /\ answer' = [answer EXCEPT ![ck] = None]
  /\ UNCHANGED <<args, srv, reply, executed, returned, before>>

\* Mutant: the result of Call is not looked at.
AcceptedUnchecked(ck) == ~reply[ck].WrongLeader

Accepted(ck) == ok[ck] /\ ~reply[ck].WrongLeader

\* The method returns and its variables are gone.
Return(ck) ==
  /\ pc[ck] = "answered" /\ Accepted(ck)
  /\ pc' = [pc EXCEPT ![ck] = "idle"]
  /\ returned' = returned \cup ({args[ck]} \ {QueryOp})
  /\ args' = [args EXCEPT ![ck] = QueryOp]
  /\ srv' = [srv EXCEPT ![ck] = 1]
  /\ ok' = [ok EXCEPT ![ck] = FALSE]
  /\ reply' = [reply EXCEPT ![ck] = NoReply]
  /\ before' = [before EXCEPT ![ck] = {}]
  /\ UNCHANGED <<answer, abandoned, executed>>

\* The next server; after the last, sleep and begin with the first.
TryNext(ck) ==
  /\ pc[ck] = "answered" /\ ~Accepted(ck)
  /\ pc' = [pc EXCEPT ![ck] = "try"]
  /\ srv' = [srv EXCEPT ![ck] = (@ % NServers) + 1]
  /\ UNCHANGED <<args, answer, ok, reply, abandoned, executed, returned, before>>

Next ==
  \/ ExecuteLate
  \/ \E ck \in Clerks :
       \/ Query(ck) \/ Join(ck) \/ Leave(ck) \/ Move(ck)
       \/ Call(ck) \/ ExecuteAsLeader(ck) \/ WrongLeader(ck)
       \/ ReturnTrue(ck) \/ ReturnFalse(ck) \/ Return(ck) \/ TryNext(ck)

\* The clerk's goroutine runs, Calls return, and the Good server answers as
\* the leader if it is asked again and again.
Fairness == \A ck \in Clerks :
  /\ WF_vars(Call(ck) \/ Return(ck) \/ TryNext(ck))
  /\ WF_vars(ReturnTrue(ck) \/ ReturnFalse(ck))
  /\ SF_vars(srv[ck] = Good /\ ExecuteAsLeader(ck))
  /\ SF_vars(/\ srv[ck] = Good /\ answer[ck] # None /\ ~answer[ck].WrongLeader
             /\ ReturnTrue(ck))

Spec == MakeClerk /\ [][Next]_vars /\ Fairness

-----------------------------------------------------------------------------

(* Join, Leave and Move return only after the controller has executed      *)
(* them: a false Call or a wrong leader is never taken for success.        *)
ReturnedExecuted == returned \subseteq executed

(* What a Query returns shows every update whose method had returned, to   *)
(* any clerk, before the Query was called, however many attempts failed    *)
(* in between: the reply of an earlier attempt is never handed out.        *)
QueryFresh == \A ck \in Clerks :
  pc[ck] = "answered" /\ Accepted(ck) /\ args[ck] = QueryOp => before[ck] \subseteq reply[ck].Config

(* Every operation returns as long as one server keeps answering: the loop *)
(* goes past servers that are down or not the leader, for ever.            *)
KeepsTrying == \A ck \in Clerks : pc[ck] # "idle" ~> pc[ck] = "idle"
=============================================================================
