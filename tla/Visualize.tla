----------------------------- MODULE Visualize -----------------------------
(***************************************************************************)
(* computeVisualizationData of porcupine/visualization.go for one          *)
(* partition: the partial linearizations of a verbose check are sorted by  *)
(* length and replayed on the model, and for each operation the page is    *)
(* told which of them to show.  The partial linearizations come out of a   *)
(* map in any order; that each can be replayed is PartialsReplay of        *)
(* CheckSingle.  Descriptions and times of the operations are formatting.  *)
(***************************************************************************)
EXTENDS Histories

CONSTANT MaxPartials     \* bound: partial linearizations of a partition

VARIABLES history, partials, pc,
          i, j,          \* loop over the partials and over one of them
          state,
          largestIndex, largestSize

vars == <<history, partials, pc, i, j, state, largestIndex, largestSize>>

RealTime(a, b) == history[a].return < history[b].call

Init ==
  /\ \E c \in 1..MaxOps : \E s \in Arrangements[c] :
     \E invocation \in [1..c -> Invocations] :
       history = HistoryOf(s, {}, invocation)
  /\ partials \in BoundedSeq(PartialLinearizations(history, RealTime) \ {<<>>}, MaxPartials)
  /\ pc = "sort" /\ i = 1 /\ j = 1 /\ state = InitState
  /\ largestIndex = [x \in {} |-> 0] /\ largestSize = [x \in {} |-> 0]

\* sort.Slice by length, the longest first; it is not stable.
Sort ==
  /\ pc = "sort"
  /\ partials' \in {[x \in DOMAIN partials |-> partials[p[x]]] : p \in SetToSeqs(DOMAIN partials)}
  /\ IsSorted(partials', LAMBDA a, b : Len(a) >= Len(b))
  /\ pc' = "replay"
  /\ UNCHANGED <<history, i, j, state, largestIndex, largestSize>>

Length(x) == IF x \in DOMAIN largestSize THEN largestSize[x] ELSE 0

\* The map f with f[x] = v.
Put(f, x, v) == [y \in DOMAIN f \cup {x} |-> IF y = x THEN v ELSE f[y]]

\* Mutant: the last partial linearization wins.
RecordAlways(x) ==
  /\ largestSize' = Put(largestSize, x, Len(partials[i]))
  /\ largestIndex' = Put(largestIndex, x, i)

RecordLargest(x) ==
  IF Length(x) < Len(partials[i])
    THEN /\ largestSize' = Put(largestSize, x, Len(partials[i]))
         /\ largestIndex' = Put(largestIndex, x, i)
    ELSE UNCHANGED <<largestSize, largestIndex>>

\* The model takes the next step of the partial linearization, or panics.
Replay ==
  /\ pc = "replay" /\ i <= Len(partials) /\ j <= Len(partials[i])
  /\ LET x == partials[i][j]
     IN  \/ /\ StepOK(state, history[x].input, history[x].output)
            /\ state' = StepState(state, history[x].input)
            /\ RecordLargest(x)
            /\ j' = j + 1
            /\ UNCHANGED pc
         \/ /\ ~StepOK(state, history[x].input, history[x].output)
            /\ pc' = "panic"
            /\ UNCHANGED <<j, state, largestIndex, largestSize>>
  /\ UNCHANGED <<history, partials, i>>

\* The next partial linearization starts from model.Init().
NextPartial ==
  /\ pc = "replay" /\ i <= Len(partials) /\ j > Len(partials[i])
  /\ i' = i + 1 /\ j' = 1 /\ state' = InitState
  /\ UNCHANGED <<history, partials, pc, largestIndex, largestSize>>

Next == Sort \/ Replay \/ NextPartial

Spec == Init /\ [][Next]_vars

-----------------------------------------------------------------------------
\* The partial linearizations shown for operation x have index largestIndex[x].
Containing(x) == {p \in DOMAIN partials : x \in ToSet(partials[p])}

(* The replay of what the checker recorded never panics, and in the end    *)
(* the page shows for every operation that occurs in a partial             *)
(* linearization one of the longest that contain it, and for no other.     *)
LargestShown ==
  /\ pc # "panic"
  /\ i > Len(partials) /\ pc = "replay" =>
       \A x \in DOMAIN history :
         /\ x \in DOMAIN largestIndex <=> Containing(x) # {}
         /\ Containing(x) # {} =>
              /\ largestIndex[x] \in Containing(x)
              /\ \A p \in Containing(x) : Len(partials[p]) <= Len(partials[largestIndex[x]])
=============================================================================
