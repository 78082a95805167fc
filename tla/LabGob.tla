------------------------------- MODULE LabGob -------------------------------
(***************************************************************************)
(* The checks that labgob adds to gob (labgob/labgob.go).  Goroutines      *)
(* encode, decode and register values at the same time; the table of       *)
(* checked types and errorCount are shared, each use of them under mu.     *)
(* work[g] is what goroutine g has still to do, the recursion flattened:   *)
(* types to check, fields to look at, values to check, a value to decode.  *)
(***************************************************************************)
EXTENDS Naturals, Sequences

CONSTANTS Goroutines,
          Kids,        \* for each type, the types checkType goes on with, in order:
                       \* field types, Elem(), or Elem() and Key()
          Lower,       \* the fields <<t, k>> with a lower-case name
          Parts,       \* for each value, the values checkDefault1 goes on with:
                       \* fields, or the target of a pointer that is not nil
          Basic,       \* the values of basic kinds,
          Unexported,  \* and those of them that are in a lower-case field
          Encoded,     \* the types of the values that are encoded or registered
          TypeOf,      \* the type of each value that is decoded into
          MaxOps       \* bound: operations per goroutine

Types  == DOMAIN Kids
Values == DOMAIN Parts

\* Types and values as Go builds them; a value of a basic kind has no parts.
ASSUME WellFormed ==
  /\ Kids \in [Types -> Seq(Types)] /\ Parts \in [Values -> Seq(Values)]
  /\ Lower \subseteq UNION {{<<t, k>> : k \in DOMAIN Kids[t]} : t \in Types}
  /\ Unexported \subseteq Basic /\ Basic \subseteq Values /\ \A v \in Basic : Parts[v] = <<>>
  /\ Encoded \subseteq Types
  /\ DOMAIN TypeOf \subseteq Values /\ TypeOf \in [DOMAIN TypeOf -> Types]

VARIABLES checked,     \* the types in the map
          errorCount,
          work, ops,
          nonDefault,  \* the basic values that differ from zero (of those that can be read)
          complaints,  \* how often each lower-case field was reported
          warnings,    \* how many warnings of checkDefault were printed
          asked,       \* types that some goroutine asked for,
          decoded,     \* values whose Decode has passed its checks
          panicked     \* the process is gone

vars == <<checked, errorCount, work, ops, nonDefault, complaints, warnings, asked, decoded,
          panicked>>

MaxDepth == 3

Init ==
  /\ checked = {} /\ errorCount = 0
  /\ work = [g \in Goroutines |-> <<>>] /\ ops = [g \in Goroutines |-> 0]
  /\ nonDefault \in SUBSET (Basic \ Unexported)
  /\ complaints = [f \in Lower |-> 0] /\ warnings = 0
  /\ asked = {} /\ decoded = {} /\ panicked = FALSE

-----------------------------------------------------------------------------

Begin(g, t, tasks) ==
  /\ work[g] = <<>> /\ ops[g] < MaxOps
  /\ ops' = [ops EXCEPT ![g] = @ + 1]
  /\ work' = [work EXCEPT ![g] = << <<"type", t>> >> \o tasks]
  /\ asked' = asked \cup {t}
  /\ UNCHANGED <<checked, errorCount, nonDefault, complaints, warnings, decoded, panicked>>

\* Encode, EncodeValue, Register and RegisterName: checkValue.
Encode(g) == \E t \in Encoded : Begin(g, t, <<>>)

\* Decode: checkValue, checkDefault, and the gob decoder.
Decode(g) == \E v \in DOMAIN TypeOf :
  Begin(g, TypeOf[v], << <<"default", v, 1>>, <<"decode", v>> >>)

Doing(g, task) == work[g] # <<>> /\ Head(work[g])[1] = task
Task(g)        == Head(work[g])
Then(g, tasks) == work' = [work EXCEPT ![g] = tasks \o Tail(@)]

\* Mutant: the last field, or a map's Key(), is forgotten.
TasksButLast(t) == [k \in 1..Len(Kids[t]) - 1 |-> <<"field", t, k>>]

\* What checkType(t) goes on with after it has entered t.
Tasks(t) == [k \in DOMAIN Kids[t] |-> <<"field", t, k>>]

\* Mutant: the early return keeps mu locked.
checkTypeLocked(g) ==
  /\ Doing(g, "type") /\ Task(g)[2] \notin checked
  /\ Then(g, Tasks(Task(g)[2]))
  /\ checked' = checked \cup {Task(g)[2]}
  /\ UNCHANGED <<errorCount, ops, nonDefault, complaints, warnings, asked, decoded, panicked>>

\* Lookup and insertion are one locked region.
checkType(g) ==
  /\ Doing(g, "type")
  /\ LET t == Task(g)[2]
     IN  IF t \in checked
           THEN Then(g, <<>>) /\ UNCHANGED checked
           ELSE Then(g, Tasks(t)) /\ checked' = checked \cup {t}
  /\ UNCHANGED <<errorCount, ops, nonDefault, complaints, warnings, asked, decoded, panicked>>

\* One field of a struct (or Elem() or Key()): complain about a lower-case
\* name and count it, and check the field's type.
Field(g) ==
  /\ Doing(g, "field")
  /\ LET t == Task(g)[2]
         k == Task(g)[3]
     IN  /\ IF <<t, k>> \in Lower
              THEN /\ complaints' = [complaints EXCEPT ![<<t, k>>] = @ + 1]
                   /\ errorCount' = errorCount + 1
              ELSE UNCHANGED <<complaints, errorCount>>
         /\ Then(g, << <<"type", Kids[t][k]>> >>)
  /\ UNCHANGED <<checked, ops, nonDefault, warnings, asked, decoded, panicked>>

\* checkDefault1 on a struct or a pointer, or beyond the depth, or on a kind
\* that it does not look into.
checkDefault1(g) ==
  /\ Doing(g, "default")
  /\ LET v == Task(g)[2]
         d == Task(g)[3]
     IN  /\ v \notin Basic \/ d > MaxDepth
         /\ Then(g, IF d > MaxDepth THEN <<>>
                    ELSE [k \in DOMAIN Parts[v] |-> <<"default", Parts[v][k], d + 1>>])
  /\ UNCHANGED <<checked, errorCount, ops, nonDefault, complaints, warnings, asked, decoded, panicked>>

\* A basic value: warn about the first error only, count every one.
Warn(g) ==
  /\ Doing(g, "default") /\ Task(g)[2] \in Basic \ Unexported /\ Task(g)[3] <= MaxDepth
  /\ IF Task(g)[2] \in nonDefault
       THEN /\ warnings' = IF errorCount < 1 THEN warnings + 1 ELSE warnings
            /\ errorCount' = errorCount + 1
       ELSE UNCHANGED <<warnings, errorCount>>
  /\ Then(g, <<>>)
  /\ UNCHANGED <<checked, ops, nonDefault, complaints, asked, decoded, panicked>>

\* value.Interface() panics for what was reached through a lower-case field,
\* be it zero or not.
Panic(g) ==
  /\ Doing(g, "default") /\ Task(g)[2] \in Unexported /\ Task(g)[3] <= MaxDepth
  /\ panicked' = TRUE
  /\ UNCHANGED <<checked, errorCount, work, ops, nonDefault, complaints, warnings, asked, decoded>>

GobDecode(g) ==
  /\ Doing(g, "decode")
  /\ decoded' = decoded \cup {Task(g)[2]}
  /\ Then(g, <<>>)
  /\ UNCHANGED <<checked, errorCount, ops, nonDefault, complaints, warnings, asked, panicked>>

Step(g) ==
  /\ ~panicked
  /\ checkType(g) \/ Field(g) \/ checkDefault1(g) \/ Warn(g) \/ Panic(g) \/ GobDecode(g)

Next == ~panicked /\ \E g \in Goroutines : Encode(g) \/ Decode(g) \/ Step(g)

\* Every goroutine runs.
Fairness == \A g \in Goroutines : WF_vars(Step(g))

Spec == Init /\ [][Next]_vars /\ Fairness

-----------------------------------------------------------------------------

\* Type t can be reached from a type that was asked for.
Closed(S) == \A t \in S : \A k \in DOMAIN Kids[t] : Kids[t][k] \in S
Occurs(t) == \A S \in SUBSET Types : asked \subseteq S /\ Closed(S) => t \in S

(* "only complain once, and avoid recursion": however many goroutines      *)
(* check the same types at the same time, each lower-case field is         *)
(* reported at most once, and when all have finished every such field of   *)
(* every type that can occur in what they asked for has been reported.     *)
ComplainOnce ==
  /\ \A f \in Lower : complaints[f] <= 1
  /\ (\A g \in Goroutines : work[g] = <<>>) =>
       \A f \in Lower : Occurs(f[1]) => complaints[f] = 1

Below(S)   == UNION {{Parts[v][k] : k \in DOMAIN Parts[v]} : v \in S}
Shallow(v) == {v} \cup Below({v}) \cup Below(Below({v}))

(* checkDefault warns once, of the first error of all, also when several   *)
(* goroutines decode at the same time: as long as no field was complained  *)
(* about, an error has been counted exactly when the warning was printed,  *)
(* and decoding into a variable with a non-default part in its first three *)
(* levels is always counted.                                               *)
WarnsFirst ==
  /\ warnings <= 1
  /\ (\A f \in Lower : complaints[f] = 0) => (errorCount > 0 <=> warnings = 1)
  /\ \A v \in decoded : Shallow(v) \cap nonDefault # {} => errorCount > 0

(* Checking ends, for recursive types too, unless a decoding into a value  *)
(* with a lower-case field ends the process.                               *)
ChecksEnd == \A g \in Goroutines : work[g] # <<>> ~> work[g] = <<>> \/ panicked
=============================================================================
