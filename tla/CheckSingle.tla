---------------------------- MODULE CheckSingle ----------------------------
(***************************************************************************)
(* checkSingle of porcupine/checker.go with the functions it calls:        *)
(* makeEntries, makeLinkedEntries, lift, unlift and the cache.  It searches*)
(* for a linearization of one partition of a history by walking a doubly   *)
(* linked list of call and return entries: a call that fits is lifted out  *)
(* of the list together with its return, and put back on backtracking.     *)
(* One action is one iteration of the loop; another goroutine may set kill *)
(* between two of them.                                                    *)
(*                                                                         *)
(* Partial linearizations are computed, as CheckOperationsVerbose asks.     *)
(* A node is its position among the sorted entries, 0 the head node; a     *)
(* bitset is the set of its members, and the cache, whose buckets are      *)
(* searched by comparing bitset and state, the set of its entries.         *)
(***************************************************************************)
EXTENDS Histories

VARIABLES
  history,               \* the partition that is checked
  entries,               \* it, as sorted entries
  list,                  \* next and prev of every node
  entry, state, linearized, cache, calls,
  longest,               \* per operation, <<>> for nil
  kill, result

vars == <<history, entries, list, entry, state, linearized, cache, calls,
          longest, kill, result>>

n   == Len(history)
Ids == 1..n
Nil == 2*n + 1

-----------------------------------------------------------------------------
(* The linked list.                                                        *)

Id(p)     == entries[p][2]
IsCall(p) == entries[p][1] = "call"
Match(p)  == CHOOSE m \in 1..2*n : entries[m] = <<"return", Id(p)>>

\* makeLinkedEntries and the head node in front of it
LinkedEntries(m) ==
  [next |-> [p \in 0..2*m |-> p + 1], prev |-> [p \in 1..2*m |-> p - 1]]

\* Mutant: the backward pointer is forgotten.
UnlinkForward(l, p) ==
  [next |-> [l.next EXCEPT ![l.prev[p]] = l.next[p]], prev |-> l.prev]

Unlink(l, p) ==
  [next |-> [l.next EXCEPT ![l.prev[p]] = l.next[p]],
   prev |-> IF l.next[p] = Nil THEN l.prev
                               ELSE [l.prev EXCEPT ![l.next[p]] = l.prev[p]]]

Relink(l, p) ==
  [next |-> [l.next EXCEPT ![l.prev[p]] = p],
   prev |-> IF l.next[p] = Nil THEN l.prev ELSE [l.prev EXCEPT ![l.next[p]] = p]]

Lift(l, p) == Unlink(Unlink(l, p), Match(p))

Unlift(l, p) == Relink(Relink(l, Match(p)), p)

-----------------------------------------------------------------------------
(* The search.                                                             *)

Init ==
  /\ \E m \in 0..MaxOps : \E s \in Arrangements[m] :
     \E tied \in SUBSET Ties(s), invocation \in [1..m -> Invocations] :
       /\ history = HistoryOf(s, tied, invocation)
       /\ entries = s
       /\ MakeEntries(history, entries)
  /\ list = LinkedEntries(n)
  /\ entry = 1 /\ state = InitState /\ linearized = {} /\ cache = {} /\ calls = <<>>
  /\ longest = [i \in Ids |-> <<>>]
  /\ kill = FALSE /\ result = "none"

Looping == result = "none" /\ list.next[0] # Nil

SetKill ==
  /\ ~kill /\ result = "none"
  /\ kill' = TRUE
  /\ UNCHANGED <<history, entries, list, entry, state, linearized, cache, calls,
                 longest, result>>

Killed ==
  /\ Looping /\ kill
  /\ result' = "false"
  /\ UNCHANGED <<history, entries, list, entry, state, linearized, cache, calls,
                 longest, kill>>

\* Mutant: the states are not compared.
CacheContainsSet(set, st) == \E c \in cache : c[1] = set

CacheContains(set, st) == <<set, st>> \in cache

Input  == history[Id(entry)].input
Output == history[Id(entry)].output

\* The call at entry can be linearized next, leading to a new configuration.
Linearize ==
  /\ Looping /\ ~kill /\ IsCall(entry)
  /\ StepOK(state, Input, Output)
  /\ LET set == linearized \cup {Id(entry)}
         st  == StepState(state, Input)
     IN  /\ ~CacheContains(set, st)
         /\ cache' = cache \cup {<<set, st>>}
         /\ linearized' = set
         /\ state' = st
  /\ calls' = Append(calls, [entry |-> entry, state |-> state])
  /\ list' = Lift(list, entry)
  /\ entry' = list'.next[0]
  /\ UNCHANGED <<history, entries, longest, kill, result>>

\* It cannot, or the configuration has been explored.
Skip ==
  /\ Looping /\ ~kill /\ IsCall(entry)
  /\ \/ ~StepOK(state, Input, Output)
     \/ CacheContains(linearized \cup {Id(entry)}, StepState(state, Input))
  /\ entry' = list.next[entry]
  /\ UNCHANGED <<history, entries, list, state, linearized, cache, calls, longest,
                 kill, result>>

\* The ids on the stack.
Chosen == [k \in DOMAIN calls |-> Id(calls[k].entry)]

\* Mutant: only the last call gets the new prefix.
RecordLast ==
  [longest EXCEPT ![Id(Last(calls).entry)] =
     IF Len(Chosen) > Len(@) THEN Chosen ELSE @]

\* "longest linearizable prefix that includes the given entry"
RecordLongest ==
  [i \in Ids |-> IF i \in linearized /\ Len(Chosen) > Len(longest[i])
                   THEN Chosen ELSE longest[i]]

\* A return entry: some call before it must be chosen differently.
Backtrack ==
  /\ Looping /\ ~kill /\ ~IsCall(entry) /\ calls # <<>>
  /\ longest' = RecordLongest
  /\ LET top == Last(calls)
     IN  /\ state' = top.state
         /\ linearized' = linearized \ {Id(top.entry)}
         /\ list' = Unlift(list, top.entry)
         /\ entry' = list'.next[top.entry]
  /\ calls' = Front(calls)
  /\ UNCHANGED <<history, entries, cache, kill, result>>

NotLinearizable ==
  /\ Looping /\ ~kill /\ ~IsCall(entry) /\ calls = <<>>
  /\ result' = "false"
  /\ UNCHANGED <<history, entries, list, entry, state, linearized, cache, calls,
                 longest, kill>>

\* The list is empty: the stack is a complete linearization.
Complete ==
  /\ result = "none" /\ list.next[0] = Nil
  /\ result' = "true"
  /\ longest' = [i \in Ids |-> Chosen]
  /\ UNCHANGED <<history, entries, list, entry, state, linearized, cache, calls, kill>>

Search == Killed \/ Linearize \/ Skip \/ Backtrack \/ NotLinearizable \/ Complete

Next == SetKill \/ Search

Spec == Init /\ [][Next]_vars

\* checkSingle runs in a goroutine of its own.
Fairness == WF_vars(Search)

-----------------------------------------------------------------------------
(* What the verdict is worth.                                              *)

\* Real-time order by timestamps, and the order the entries were sorted into.
Before(a, b)        == history[a].return < history[b].call
Position(e)         == CHOOSE p \in 1..2*n : entries[p] = e
EntriesBefore(a, b) == Position(<<"return", a>>) < Position(<<"call", b>>)

(* checkSingle answers true only for a linearizable history and, unless it *)
(* was killed, false only for one that is not linearizable in the order    *)
(* its entries were sorted into: the pruning by the cache and the walk     *)
(* over the lifted list lose no linearization, and a tie between a         *)
(* response and an invocation never makes an illegal history pass.         *)
ResultCorrect ==
  /\ result = "true" => IsLinearizable(history, Before)
  /\ result = "false" /\ ~kill => ~IsLinearizable(history, EntriesBefore)

\* The nodes from the head on.
Walk ==
  LET w[k \in 0..2*n] == IF k = 0 THEN 0
                         ELSE IF w[k-1] = Nil THEN Nil ELSE list.next[w[k-1]]
  IN  {w[k] : k \in 1..2*n} \ {Nil}

(* However often lift and unlift were applied, the list holds exactly the  *)
(* entries of the operations that are not linearized, in the order of      *)
(* time and linked both ways, and the bitset agrees with the stack.        *)
EntriesIntact ==
  /\ Walk = {p \in 1..2*n : Id(p) \notin linearized}
  /\ \A p \in Walk \cup {0} : list.next[p] > p
  /\ \A p \in Walk : list.next[list.prev[p]] = p
  /\ linearized = {Id(calls[k].entry) : k \in DOMAIN calls}

(* Every partial linearization handed out, by a search that was killed     *)
(* too, is legal and respects real time: the replay of                     *)
(* computeVisualizationData never panics with "valid partial linearization *)
(* returned non-ok result from model step".                                *)
PartialsReplay ==
  \A i \in Ids : longest[i] # <<>> =>
    /\ longest[i] \in PartialLinearizations(history, Before)
    /\ i \in Range(longest[i])

(* "longest linearizable prefix that includes the given entry": when the   *)
(* search ends by itself no longer one exists, and an operation without    *)
(* one is in no linearizable prefix.                                       *)
LongestIsLongest ==
  result # "none" /\ ~kill =>
    \A i \in Ids : \A s \in PartialLinearizations(history, EntriesBefore) :
      i \in Range(s) => Len(s) <= Len(longest[i])

(* The search ends.                                                        *)
Terminates == <>(result # "none")
=============================================================================
