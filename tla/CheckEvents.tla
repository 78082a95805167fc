---------------------------- MODULE CheckEvents ----------------------------
(***************************************************************************)
(* checkEvents of porcupine/checker.go: histories given as a sequence of   *)
(* call and return events with identifiers of the caller's choice.         *)
(* renumber gives the operations dense numbers, which the linked list, the *)
(* bitset and the table of longest prefixes are indexed with, and          *)
(* convertEntries takes the positions as times.  A model without           *)
(* PartitionEvent, like KvModel, has one partition (fillDefault).  The     *)
(* verdict on the entries is the one CheckSingle shows checkSingle to      *)
(* reach.                                                                  *)
(***************************************************************************)
EXTENDS Histories

CONSTANT EventIds    \* identifiers that occur in events

VARIABLES events,     \* [kind, value, id]
          pc,
          k,          \* position of renumber's loop
          m, id,      \* renumbering, next number
          renumbered, \* e
          verdict

vars == <<events, pc, k, m, id, renumbered, verdict>>

\* The events of an arrangement of operations under the caller's names.
EventsOf(s, invocation, name) ==
  [p \in DOMAIN s |->
     [kind  |-> s[p][1], id |-> name[s[p][2]],
      value |-> IF s[p][1] = "call" THEN invocation[s[p][2]].input
                                    ELSE invocation[s[p][2]].output]]

Init ==
  /\ \E c \in 0..MaxOps : \E s \in Arrangements[c] :
     \E invocation \in [1..c -> Invocations], name \in [1..c -> EventIds] :
       /\ \A a, b \in 1..c : name[a] = name[b] => a = b
       /\ events = EventsOf(s, invocation, name)
  /\ pc = "renumber" /\ k = 1 /\ m = [x \in {} |-> 0] /\ id = 0
  /\ renumbered = <<>> /\ verdict = "none"

\* An identifier seen before keeps its number, a new one gets the next.
Number(v) ==
  \/ /\ v.id \in DOMAIN m
     /\ renumbered' = Append(renumbered, [v EXCEPT !.id = m[v.id]])
     /\ UNCHANGED <<m, id>>
  \/ /\ v.id \notin DOMAIN m
     /\ renumbered' = Append(renumbered, [v EXCEPT !.id = id])
     /\ m' = (v.id :> id) @@ m /\ id' = id + 1

renumber ==
  /\ pc = "renumber" /\ k <= Len(events)
  /\ Number(events[k])
  /\ k' = k + 1
  /\ UNCHANGED <<events, pc, verdict>>

\* The operations as the search sees them: entry values and times by number.
convertEntries(e) ==
  LET at(kind, x) == CHOOSE p \in DOMAIN e : e[p].kind = kind /\ e[p].id = x
  IN  [x \in 1..Len(e) \div 2 |->
         [input  |-> e[at("call", x-1)].value,   call   |-> at("call", x-1),
          output |-> e[at("return", x-1)].value, return |-> at("return", x-1)]]

RealTime(h, a, b) == h[a].return < h[b].call

\* Every number below Len(e)/2 has one call and one return.
Dense(e) ==
  \A x \in 0..(Len(e) \div 2 - 1), kind \in {"call", "return"} :
    Cardinality({p \in DOMAIN e : e[p].kind = kind /\ e[p].id = x}) = 1

\* The search indexes out of range if the numbers are not dense.
Check ==
  /\ pc = "renumber" /\ k > Len(events)
  /\ pc' = "done"
  /\ LET h == convertEntries(renumbered)
     IN  verdict' = IF ~Dense(renumbered) THEN "panic"
                    ELSE IF IsLinearizable(h, LAMBDA a, b : RealTime(h, a, b))
                         THEN "Ok" ELSE "Illegal"
  /\ UNCHANGED <<events, k, m, id, renumbered>>

Next == renumber \/ Check

Spec == Init /\ [][Next]_vars

-----------------------------------------------------------------------------
\* Linearizability stated on the events and the caller's identifiers.
Named == {events[p].id : p \in DOMAIN events}
Called(a)   == CHOOSE p \in DOMAIN events : events[p].id = a /\ events[p].kind = "call"
Returned(a) == CHOOSE p \in DOMAIN events : events[p].id = a /\ events[p].kind = "return"

EventsLinearizable ==
  \E s \in SetToSeqs(Named) :
    /\ \A p, q \in DOMAIN s : p < q => Called(s[p]) < Returned(s[q])
    /\ LET h == [p \in DOMAIN s |-> [input  |-> events[Called(s[p])].value,
                                     output |-> events[Returned(s[p])].value]]
       IN  Legal(h, [p \in DOMAIN s |-> p])

(* CheckEvents accepts exactly the linearizable event histories, whatever  *)
(* identifiers the caller used and however its operations overlap: the     *)
(* renumbering keeps calls and returns together and leaves no gap.         *)
EventsSound == pc = "done" => verdict = (IF EventsLinearizable THEN "Ok" ELSE "Illegal")
=============================================================================
