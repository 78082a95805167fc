----------------------------- MODULE Histories -----------------------------
(***************************************************************************)
(* The histories the checkers are run on: every order of the invocations   *)
(* and responses of a few operations, and makeEntries of                   *)
(* porcupine/checker.go, which sorts them by their timestamps.             *)
(***************************************************************************)
EXTENDS Linearizability, SequencesExt

CONSTANTS MaxOps,        \* bound: operations in a history
          Invocations    \* pairs [input, output] the histories are made of

ASSUME OpsAssumption == MaxOps \in Nat

\* The entries <<kind, id>> of s with operation m, which returns last.
WithOperation(s, p, m) == InsertAt(s, p, <<"call", m>>) \o << <<"return", m>> >>

Extended(A, m) == {WithOperation(s, p, m) : s \in A, p \in 1..(2*m - 1)}

\* Every order of the entries of m operations in which a call comes before its
\* return.  The test clients log an operation when it has returned, so
\* operations are numbered in the order of their returns.
Arrangements ==
  LET arr[m \in 0..MaxOps] == IF m = 0 THEN {<<>>} ELSE Extended(arr[m-1], m)
  IN  arr

\* sort.Sort is not stable: a response and an invocation with the same time
\* come out in any order (other ties make no difference to the order of
\* operations).  Ties(s) are the places in s where that may have happened.
Ties(s) == {k \in 1..(Len(s)-1) : s[k][1] = "return" /\ s[k+1][1] = "call"}

\* The time of the entry at p, when the entries at k and k+1 tie for k \in tied.
Time(tied, p) == Cardinality(1..p \ {k + 1 : k \in tied})

\* A history that makeEntries may turn into the entries s.
HistoryOf(s, tied, invocation) ==
  [k \in DOMAIN invocation |->
     [input  |-> invocation[k].input,
      output |-> invocation[k].output,
      call   |-> Time(tied, CHOOSE p \in DOMAIN s : s[p] = <<"call", k>>),
      return |-> Time(tied, CHOOSE p \in DOMAIN s : s[p] = <<"return", k>>)]]

TimeOf(h, e) == IF e[1] = "call" THEN h[e[2]].call ELSE h[e[2]].return

\* makeEntries(h) may return s.
MakeEntries(h, s) ==
  /\ Range(s) = {"call", "return"} \X DOMAIN h /\ Len(s) = 2 * Len(h)
  /\ \A k \in 1..(Len(s)-1) : TimeOf(h, s[k]) <= TimeOf(h, s[k+1])
=============================================================================
