--------------------------- MODULE MrSequential ---------------------------
(***************************************************************************)
(* main/mrsequential.go with wc, indexer and crash.  test-mr.sh makes its  *)
(* reference outputs with wc, indexer and nocrash, which is crash without  *)
(* the Exit that crash may take in any Map or Reduce.  The errors of Open  *)
(* and ReadAll end the process, those of Create and Fprintf are dropped.   *)
(* A file is named by its number, its contents are the sequence of words   *)
(* that FieldsFunc finds, a word or key is a number with the order of the  *)
(* strings, and a line of output is <<key, result>>.                       *)
(***************************************************************************)
EXTENDS Integers, SequencesExt

CONSTANTS Words,        \* the words that occur
          MaxFiles,     \* bound: input files
          MaxWords      \* bound: words in a file

VARIABLES app, contents, pc,
          read,           \* files passed to Map
          intermediate,
          i,              \* the place in intermediate the sort or the loop is at
          ofile,          \* whether os.Create gave a file; a nil one takes no line
          out,            \* lines that this run has written whole to mr-out-0
          lost            \* the keys whose line was not, for an error nobody looked at

outVars == <<ofile, out, lost>>
vars == <<app, contents, pc, read, intermediate, i, outVars>>

KV(k, v)   == [key |-> k, value |-> v]
Ascending(s) == IsSorted(s, LAMBDA a, b : a <= b)

\* What mapf may return for file f: wc a pair per word, indexer a pair per
\* distinct word in the random order of a Go map, crash always four pairs.
Map(f) ==
  CASE app = "wc"      -> {[k \in DOMAIN contents[f] |-> KV(contents[f][k], 1)]}
    [] app = "indexer" -> {[k \in DOMAIN ws |-> KV(ws[k], f)] : ws \in SetToSeqs(ToSet(contents[f]))}
    [] app = "crash"   -> {<<KV(1, f), KV(2, 1), KV(3, Len(contents[f])), KV(4, 0)>>}

\* Mutant: indexer forgets to sort.
ReduceUnsorted(values) ==
  CASE app = "wc"      -> Len(values)
    [] app = "indexer" -> <<Len(values), values>>
    [] app = "crash"   -> SortSeq(values, <)

\* wc counts the values; indexer and crash print them sorted.
Reduce(values) ==
  CASE app = "wc"      -> Len(values)
    [] app = "indexer" -> <<Len(values), SortSeq(values, <)>>
    [] app = "crash"   -> SortSeq(values, <)

Init ==
  /\ app \in {"wc", "indexer", "crash"}
  /\ \E m \in 1..MaxFiles : contents \in [1..m -> BoundedSeq(Words, MaxWords)]
  /\ pc = "map" /\ read = 0 /\ intermediate = <<>> /\ i = 1
  /\ ofile = FALSE /\ out = <<>> /\ lost = {}

\* Open, read and map the next file.
MapFile ==
  /\ pc = "map" /\ read < Len(contents)
  /\ \E kva \in Map(read + 1) : intermediate' = intermediate \o kva
  /\ read' = read + 1
  /\ UNCHANGED <<app, contents, pc, i, outVars>>

\* A file cannot be opened or read (log.Fatalf), or maybeCrash exits.
Exit ==
  /\ \/ pc = "map" /\ read < Len(contents)
     \/ app = "crash" /\ pc = "reduce" /\ i <= Len(intermediate)
  /\ pc' = "exit"
  /\ UNCHANGED <<app, contents, read, intermediate, i, outVars>>

\* sort.Sort(ByKey) is not stable: of the pairs with the least key that is
\* left, any comes next.
Sort ==
  /\ pc = "map" /\ read = Len(contents) /\ i <= Len(intermediate)
  /\ \E k \in i..Len(intermediate) :
       /\ \A m \in i..Len(intermediate) : intermediate[k].key <= intermediate[m].key
       /\ intermediate' = InsertAt(RemoveAt(intermediate, k), i, intermediate[k])
  /\ i' = i + 1
  /\ UNCHANGED <<app, contents, pc, read, outVars>>

\* ofile, _ := os.Create(oname): when it fails the run goes on with a nil file.
Create ==
  /\ pc = "map" /\ read = Len(contents) /\ i > Len(intermediate)
  /\ pc' = "reduce" /\ i' = 1 /\ ofile' \in BOOLEAN
  /\ UNCHANGED <<app, contents, read, intermediate, out, lost>>

\* The first j after i with another key.
GroupEnd ==
  CHOOSE j \in i+1..Len(intermediate)+1 :
    /\ \A k \in i..j-1 : intermediate[k].key = intermediate[i].key
    /\ j > Len(intermediate) \/ intermediate[j].key # intermediate[i].key

Line == << intermediate[i].key,
           Reduce([k \in 1..GroupEnd-i |-> intermediate[i + k - 1].value]) >>

\* One group of equal keys: Reduce it and write a line, which may fail.
Group ==
  /\ pc = "reduce" /\ i <= Len(intermediate)
  /\ \/ ofile /\ out' = Append(out, Line) /\ UNCHANGED lost
     \/ lost' = lost \cup {intermediate[i].key} /\ UNCHANGED out
  /\ i' = GroupEnd
  /\ UNCHANGED <<app, contents, pc, read, intermediate, ofile>>

Close ==
  /\ pc = "reduce" /\ i > Len(intermediate)
  /\ pc' = "done"
  /\ UNCHANGED <<app, contents, read, intermediate, i, outVars>>

Next == MapFile \/ Exit \/ Sort \/ Create \/ Group \/ Close

Spec == Init /\ [][Next]_vars

-----------------------------------------------------------------------------
Files == DOMAIN contents
Occurrences(w) == {<<f, k>> \in Files \X (1..MaxWords) : k <= Len(contents[f]) /\ contents[f][k] = w}
InFiles(w) == {f \in Files : \E k \in DOMAIN contents[f] : contents[f][k] = w}
Keys == IF app = "crash" THEN 1..4 ELSE {w \in Words : InFiles(w) # {}}

\* Is r the right result for key w?  Stated on the inputs alone.
Right(w, r) ==
  \/ app = "wc" /\ r = Cardinality(Occurrences(w))
  \/ app = "indexer" /\ r = <<Cardinality(InFiles(w)), SetToSortSeq(InFiles(w), <)>>
  \/ /\ app = "crash" /\ Len(r) = Len(contents) /\ Ascending(r)
     /\ w = 1 => ToSet(r) = Files
     /\ w = 3 => ToSet(r) = {Len(contents[f]) : f \in Files}

(* Whatever order the map iteration and the unstable sort produce, and     *)
(* whichever writes fail: the lines in mr-out-0 are for keys that occur,   *)
(* each once and in order, with the result computed from the input files;  *)
(* no key before the last line, and none at all in a run that has ended    *)
(* well, is missing but for a failed write of its own line.                *)
OutputRight ==
  /\ \A k \in DOMAIN out : out[k][1] \in Keys /\ Right(out[k][1], out[k][2])
  /\ \A k \in 1..Len(out)-1 : out[k][1] < out[k+1][1]
  /\ \A w \in Keys : pc = "done" \/ (Len(out) > 0 /\ w < Last(out)[1])
       => w \in lost \/ \E k \in DOMAIN out : out[k][1] = w
=============================================================================
