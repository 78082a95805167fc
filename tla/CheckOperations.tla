-------------------------- MODULE CheckOperations --------------------------
(***************************************************************************)
(* checkOperations of porcupine/checker.go with KvModel.Partition: the     *)
(* history of a whole store is split by key, and each part is checked      *)
(* against the store of a single key.  The verdict on a part is the one    *)
(* CheckSingle shows checkSingle to reach, and the verdicts are joined the *)
(* way CheckParallel shows checkParallel to join them.                     *)
(***************************************************************************)
EXTENDS Histories

VARIABLES history,       \* what the clients of the store logged
          verdict

vars == <<history, verdict>>

Init ==
  /\ \E m \in 0..MaxOps : \E s \in Arrangements[m] :
     \E invocation \in [1..m -> Invocations] :
       history = HistoryOf(s, {}, invocation)
  /\ verdict = "none"

RealTime(h, a, b) == h[a].return < h[b].call

PartOK(part) == IsLinearizable(part, LAMBDA a, b : RealTime(part, a, b))

\* With no part to check (an empty history) checkParallel never returns.
Check ==
  /\ verdict = "none" /\ Partition(history) # {}
  /\ verdict' = IF \A part \in Partition(history) : PartOK(part) THEN "Ok" ELSE "Illegal"
  /\ UNCHANGED history

Next == Check

Spec == Init /\ [][Next]_vars

-----------------------------------------------------------------------------
\* A linearization of the whole store: every operation acts on its own key.
StoreLegal(s) ==
  \A k \in DOMAIN s :
    LET o == history[s[k]]
        earlier == SelectSeq(SubSeq(s, 1, k-1),
                             LAMBDA a : history[a].input.key = o.input.key)
    IN  StepOK(StateAfter(history, earlier, Len(earlier)), o.input, o.output)

StoreLinearizable ==
  \E s \in Orders(Len(history)) :
    /\ Len(s) = Len(history)
    /\ Respects(s, Len(history), LAMBDA a, b : RealTime(history, a, b))
    /\ StoreLegal(s)

(* "a history is linearizable if and only if each partition is             *)
(* linearizable": checking key by key, as models/kv.go does, accepts       *)
(* exactly the histories of a linearizable store, although each part is    *)
(* ordered on its own and the parts share the real-time order.             *)
PartitionIsSound == verdict # "none" => (verdict = "Ok" <=> StoreLinearizable)
=============================================================================
