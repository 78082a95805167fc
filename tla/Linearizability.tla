-------------------------- MODULE Linearizability --------------------------
(***************************************************************************)
(* The reference the checker of porcupine/ is measured against: what it    *)
(* means that a history of operations on one key is linearizable.  A       *)
(* history is a sequence of operations                                     *)
(*   [input, output, call, return]                                         *)
(* with the times of its invocation and of its response, and a (partial)   *)
(* linearization is a sequence of indices into it.                         *)
(***************************************************************************)
EXTENDS KvModel, FiniteSets

\* The state after the first k operations of s.
StateAfter(history, s, k) ==
  LET st[m \in 0..k] ==
        IF m = 0 THEN InitState ELSE StepState(st[m-1], history[s[m]].input)
  IN  st[k]

Legal(history, s) ==
  \A k \in DOMAIN s :
    StepOK(StateAfter(history, s, k-1), history[s[k]].input, history[s[k]].output)

\* Sequences of distinct operations; before(a, b) says a must precede b.
Orders(n) == UNION {{s \in [1..m -> 1..n] : \A j, k \in 1..m : s[j] = s[k] => j = k}
                    : m \in 0..n}

Respects(s, n, before(_, _)) ==
  \A k \in DOMAIN s : \A a \in 1..n :
    before(a, s[k]) => \E j \in 1..(k-1) : s[j] = a

PartialLinearizations(history, before(_, _)) ==
  {s \in Orders(Len(history)) :
     Respects(s, Len(history), before) /\ Legal(history, s)}

IsLinearizable(history, before(_, _)) ==
  \E s \in PartialLinearizations(history, before) : Len(s) = Len(history)
=============================================================================
