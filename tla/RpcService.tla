----------------------------- MODULE RpcService -----------------------------
(***************************************************************************)
(* What ClientEnd.Call promises its caller, as the package comment of      *)
(* labrpc.go states it: true means the server executed the request and the *)
(* reply is valid; false promises nothing, because the request or the      *)
(* reply may be lost and an abandoned handler may even run after the       *)
(* caller has been told false.  A request is executed at most once.        *)
(***************************************************************************)
CONSTANT Calls                   \* one element per invocation of Call

VARIABLES outcome,               \* what the caller of each Call has seen
          executed               \* whether the handler ran for each Call

vars == <<outcome, executed>>

Outcomes == {"idle", "pending", "ok", "fail"}

Init ==
  /\ outcome  = [c \in Calls |-> "idle"]
  /\ executed = [c \in Calls |-> FALSE]

Invoke(c) ==
  /\ outcome[c] = "idle"
  /\ outcome' = [outcome EXCEPT ![c] = "pending"]
  /\ UNCHANGED executed

\* The handler may also run for a caller that has already given up.
Execute(c) ==
  /\ outcome[c] \in {"pending", "fail"}
  /\ ~executed[c]
  /\ executed' = [executed EXCEPT ![c] = TRUE]
  /\ UNCHANGED outcome

ReturnTrue(c) ==
  /\ outcome[c] = "pending"
  /\ executed[c]
  /\ outcome' = [outcome EXCEPT ![c] = "ok"]
  /\ UNCHANGED executed

ReturnFalse(c) ==
  /\ outcome[c] = "pending"
  /\ outcome' = [outcome EXCEPT ![c] = "fail"]
  /\ UNCHANGED executed

Next == \E c \in Calls : Invoke(c) \/ Execute(c) \/ ReturnTrue(c) \/ ReturnFalse(c)

Spec == Init /\ [][Next]_vars
=============================================================================
