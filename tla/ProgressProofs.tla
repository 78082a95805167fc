--------------------------- MODULE ProgressProofs ---------------------------
(***************************************************************************)
(* ReportsRight, for any types, values and goroutines: what labgob's       *)
(* checks report, beside the two clerks whose loops MCProgress checks.     *)
(***************************************************************************)
EXTENDS MCProgress, SequenceTheorems, TLAPS

AllTasks == ({"type"} \X Types) \cup ({"field"} \X Types \X Nat)
            \cup ({"default"} \X Values \X Nat) \cup ({"decode"} \X Values)

\* x is the n-th thing that goroutine g has to do.
At(g, n, x) == n \in DOMAIN work[g] /\ work[g][n] = x
Pending(x)  == \E g \in Goroutines, n \in Nat : At(g, n, x)

GobTypes ==
  /\ checked \subseteq Types /\ asked \subseteq Types
  /\ decoded \subseteq Values /\ nonDefault \subseteq Basic
  /\ errorCount \in Nat /\ warnings \in Nat /\ complaints \in [Lower -> Nat]
  /\ work \in [Goroutines -> Seq(AllTasks)]

\* A field is looked at by the goroutine that entered its type in the table,
\* and by nobody else.
FieldsOnce ==
  /\ \A g \in Goroutines, n \in Nat, t \in Types, k \in Nat :
       At(g, n, <<"field", t, k>>) =>
         t \in checked /\ k \in DOMAIN Kids[t]
         /\ (<<t, k>> \in Lower => complaints[<<t, k>>] = 0)
  /\ \A g, h \in Goroutines, m, n \in Nat, t \in Types, k \in Nat :
       At(g, m, <<"field", t, k>>) /\ At(h, n, <<"field", t, k>>) => g = h /\ m = n
  /\ \A f \in Lower : complaints[f] <= 1 /\ (f[1] \notin checked => complaints[f] = 0)

\* What was asked for is checked or will be, with all that hangs below it.
GoesOn ==
  /\ \A t \in asked : t \in checked \/ Pending(<<"type", t>>)
  /\ \A t \in checked : \A k \in DOMAIN Kids[t] :
       \/ Pending(<<"field", t, k>>)
       \/ /\ <<t, k>> \in Lower => complaints[<<t, k>>] = 1
          /\ Kids[t][k] \in checked \/ Pending(<<"type", Kids[t][k]>>)

\* An error is a complaint or was warned of, unless there was one before.
Counting ==
  /\ warnings <= 1
  /\ errorCount = 0 => warnings = 0 /\ \A f \in Lower : complaints[f] = 0
  /\ errorCount > 0 => warnings = 1 \/ \E f \in Lower : complaints[f] # 0

\* The values that the task x of checkDefault1 looks at.
Reach(x) == CASE x[1] = "default" /\ x[3] = 1 -> Shallow(x[2])
              [] x[1] = "default" /\ x[3] = 2 -> {x[2]} \cup Below({x[2]})
              [] x[1] = "default" /\ x[3] = 3 -> {x[2]}
              [] OTHER -> {}

\* Before a value is decoded into, each of its parts that is not zero has
\* been counted or will be.
CountedAhead ==
  \A g \in Goroutines, n \in Nat, v \in Values :
    At(g, n, <<"decode", v>>) =>
      \/ errorCount > 0
      \/ \A u \in Shallow(v) \cap nonDefault :
           \E m \in 1..n, x \in AllTasks : At(g, m, x) /\ u \in Reach(x)

DecodedCounted == \A v \in decoded : Shallow(v) \cap nonDefault # {} => errorCount > 0

GobInv == GobTypes /\ FieldsOnce /\ GoesOn /\ Counting /\ CountedAhead /\ DecodedCounted

-----------------------------------------------------------------------------
(* What a step does to the lists of work: goroutine g drops its first task *)
(* (a new operation finds an empty list) and puts the tasks new in front.  *)

Replaces(g, new) ==
  /\ \A h \in Goroutines, n \in Nat, x \in AllTasks :
       At(h, n, x)' =>
         \/ h = g /\ n \in 1..Len(new) /\ new[n] = x
         \/ h = g /\ n > Len(new) /\ At(h, n - Len(new) + 1, x)
         \/ h # g /\ At(h, n, x)
  /\ \A h \in Goroutines, n \in Nat, x \in AllTasks :
       /\ h # g /\ At(h, n, x) => At(h, n, x)'
       /\ h = g /\ At(h, n, x) /\ n # 1 => At(h, n - 1 + Len(new), x)'
  /\ \A n \in 1..Len(new) : At(g, n, new[n])'

LEMMA ThenReplaces ==
  ASSUME GobTypes, NEW g \in Goroutines, NEW new \in Seq(AllTasks), work[g] # <<>>, Then(g, new)
  PROVE  work' \in [Goroutines -> Seq(AllTasks)] /\ Replaces(g, new)
<1> DEFINE s == work[g]
<1>1. s \in Seq(AllTasks) /\ s # <<>>
  BY DEF GobTypes
<1>2. /\ Tail(s) \in Seq(AllTasks) /\ Len(s) \in Nat \ {0} /\ DOMAIN s = 1..Len(s)
      /\ Len(Tail(s)) = Len(s) - 1
      /\ \A n \in 1..Len(s) - 1 : Tail(s)[n] = s[n + 1]
  BY <1>1
<1> DEFINE w == new \o Tail(s)
<1>3. /\ w \in Seq(AllTasks) /\ Len(new) \in Nat /\ Len(w) = Len(new) + Len(s) - 1
      /\ DOMAIN w = 1..Len(w)
      /\ \A n \in 1..Len(new) : w[n] = new[n]
      /\ \A n \in Len(new) + 1..Len(w) : w[n] = s[n - Len(new) + 1]
  BY <1>1, <1>2
<1>4. work' = [work EXCEPT ![g] = w]
  BY DEF Then
<1>5. work' \in [Goroutines -> Seq(AllTasks)] /\ work'[g] = w
      /\ \A h \in Goroutines : h # g => work'[h] = work[h]
  BY <1>3, <1>4 DEF GobTypes
<1> HIDE DEF w
<1>6. \A h \in Goroutines, n \in Nat, x \in AllTasks :
       At(h, n, x)' =>
         \/ h = g /\ n \in 1..Len(new) /\ new[n] = x
         \/ h = g /\ n > Len(new) /\ At(h, n - Len(new) + 1, x)
         \/ h # g /\ At(h, n, x)
  <2> TAKE h \in Goroutines, n \in Nat, x \in AllTasks
  <2>1. CASE h = g
    BY <1>2, <1>3, <1>5, <2>1 DEF At
  <2>2. CASE h # g
    BY <1>5, <2>2 DEF At
  <2> QED
    BY <2>1, <2>2
<1>7. \A h \in Goroutines, n \in Nat, x \in AllTasks :
       /\ h # g /\ At(h, n, x) => At(h, n, x)'
       /\ h = g /\ At(h, n, x) /\ n # 1 => At(h, n - 1 + Len(new), x)'
  <2> TAKE h \in Goroutines, n \in Nat, x \in AllTasks
  <2>1. ASSUME h = g, At(h, n, x), n # 1 PROVE At(h, n - 1 + Len(new), x)'
    <3>1. n \in 2..Len(s) /\ s[n] = x
      BY <1>2, <2>1 DEF At
    <3>2. n - 1 + Len(new) \in Len(new) + 1..Len(w)
      BY <1>2, <1>3, <3>1
    <3>3. w[n - 1 + Len(new)] = s[n]
      <4>1. (n - 1 + Len(new)) - Len(new) + 1 = n
        BY <1>2, <1>3, <3>1
      <4> QED
        BY <1>3, <3>2, <4>1
    <3> QED
      BY <1>2, <1>3, <1>5, <2>1, <3>1, <3>2, <3>3 DEF At
  <2> QED
    BY <1>5, <2>1 DEF At
<1>8. \A n \in 1..Len(new) : At(g, n, new[n])'
  BY <1>2, <1>3, <1>5 DEF At
<1> QED
  BY <1>5, <1>6, <1>7, <1>8 DEF Replaces

LEMMA BeginReplaces ==
  ASSUME GobTypes, NEW g \in Goroutines, NEW new \in Seq(AllTasks), work[g] = <<>>,
         work' = [work EXCEPT ![g] = new]
  PROVE  work' \in [Goroutines -> Seq(AllTasks)] /\ Replaces(g, new)
<1>1. work' \in [Goroutines -> Seq(AllTasks)] /\ work'[g] = new
      /\ \A h \in Goroutines : h # g => work'[h] = work[h]
  BY DEF GobTypes
<1>2. DOMAIN new = 1..Len(new) /\ DOMAIN work[g] = {}
  OBVIOUS
<1> QED
  BY <1>1, <1>2 DEF Replaces, At

-----------------------------------------------------------------------------
(* Steps that bring no field and look at none leave FieldsOnce and GoesOn. *)

LEMMA FieldsKept ==
  ASSUME FieldsOnce, NEW g \in Goroutines, NEW new \in Seq(AllTasks), Replaces(g, new),
         \A n \in 1..Len(new) : new[n][1] # "field",
         UNCHANGED <<complaints, checked>>
  PROVE  FieldsOnce'
<1>1. \A h \in Goroutines, n \in Nat, t \in Types, k \in Nat :
        At(h, n, <<"field", t, k>>)' =>
          \/ h = g /\ n > Len(new) /\ At(h, n - Len(new) + 1, <<"field", t, k>>)
          \/ h # g /\ At(h, n, <<"field", t, k>>)
  <2> TAKE h \in Goroutines, n \in Nat, t \in Types, k \in Nat
  <2>1. <<"field", t, k>> \in AllTasks /\ <<"field", t, k>>[1] = "field"
    BY DEF AllTasks
  <2> QED
    BY <2>1 DEF Replaces
<1>2. Len(new) \in Nat
  OBVIOUS
<1>3. ASSUME NEW h \in Goroutines, NEW n \in Nat, NEW t \in Types, NEW k \in Nat,
             At(h, n, <<"field", t, k>>)'
      PROVE  t \in checked /\ k \in DOMAIN Kids[t]
             /\ (<<t, k>> \in Lower => complaints[<<t, k>>] = 0)
  BY <1>1, <1>2, <1>3 DEF FieldsOnce
<1>4. ASSUME NEW f \in Goroutines, NEW h \in Goroutines, NEW m \in Nat, NEW n \in Nat,
             NEW t \in Types, NEW k \in Nat,
             At(f, m, <<"field", t, k>>)', At(h, n, <<"field", t, k>>)'
      PROVE  f = h /\ m = n
  <2>1. PICK i \in Nat : /\ At(f, i, <<"field", t, k>>)
                         /\ f = g => i = m - Len(new) + 1
                         /\ f # g => i = m
    BY <1>1, <1>2, <1>4
  <2>2. PICK j \in Nat : /\ At(h, j, <<"field", t, k>>)
                         /\ h = g => j = n - Len(new) + 1
                         /\ h # g => j = n
    BY <1>1, <1>2, <1>4
  <2>3. f = h /\ i = j
    BY <2>1, <2>2 DEF FieldsOnce
  <2> QED
    BY <1>2, <2>1, <2>2, <2>3
<1>5. \A f \in Lower : complaints'[f] <= 1 /\ (f[1] \notin checked' => complaints'[f] = 0)
  BY DEF FieldsOnce
<1>6. \A h \in Goroutines, n \in Nat, t \in Types, k \in Nat :
        At(h, n, <<"field", t, k>>)' =>
          t \in checked' /\ k \in DOMAIN Kids[t]
          /\ (<<t, k>> \in Lower => complaints'[<<t, k>>] = 0)
  BY <1>3
<1> QED
  BY <1>4, <1>5, <1>6 DEF FieldsOnce

LEMMA PendingKept ==
  ASSUME GobTypes, NEW g \in Goroutines, NEW new \in Seq(AllTasks), Replaces(g, new),
         NEW x \in AllTasks, Pending(x), ~At(g, 1, x)
  PROVE  Pending(x)'
<1>1. PICK h \in Goroutines, n \in Nat : At(h, n, x)
  BY DEF Pending
<1>2. Len(new) \in Nat /\ (n # 0)
  BY <1>1 DEF At, GobTypes
<1>3. CASE h = g
  BY <1>1, <1>2, <1>3 DEF Replaces, Pending
<1>4. CASE h # g
  BY <1>1, <1>4 DEF Replaces, Pending
<1> QED
  BY <1>3, <1>4

LEMMA PendingNew ==
  ASSUME NEW g \in Goroutines, NEW new \in Seq(AllTasks), Replaces(g, new), NEW n \in 1..Len(new)
  PROVE  Pending(new[n])'
BY DEF Replaces, Pending

LEMMA GoesOnKept ==
  ASSUME GobTypes, GoesOn, NEW g \in Goroutines, NEW new \in Seq(AllTasks), Replaces(g, new),
         \A t \in Types, k \in Nat : ~At(g, 1, <<"field", t, k>>),
         \A t \in Types : At(g, 1, <<"type", t>>) => t \in checked,
         \A t \in asked' : t \in asked \/ Pending(<<"type", t>>)',
         UNCHANGED <<complaints, checked>>
  PROVE  GoesOn'
<1>1. ASSUME NEW t \in Types, Pending(<<"type", t>>), t \notin checked PROVE Pending(<<"type", t>>)'
  <2>1. <<"type", t>> \in AllTasks
    BY DEF AllTasks
  <2> QED
    BY <1>1, <2>1, PendingKept
<1>2. ASSUME NEW t \in Types, NEW k \in Nat, Pending(<<"field", t, k>>)
      PROVE  Pending(<<"field", t, k>>)'
  <2>1. <<"field", t, k>> \in AllTasks
    BY DEF AllTasks
  <2> QED
    BY <1>2, <2>1, PendingKept
<1>3. \A t \in asked' : t \in checked' \/ Pending(<<"type", t>>)'
  BY <1>1 DEF GoesOn, GobTypes
<1>4. ASSUME NEW t \in checked, NEW k \in DOMAIN Kids[t]
      PROVE \/ Pending(<<"field", t, k>>)'
            \/ /\ <<t, k>> \in Lower => complaints[<<t, k>>] = 1
               /\ Kids[t][k] \in checked \/ Pending(<<"type", Kids[t][k]>>)'
  <2>1. t \in Types /\ k \in Nat /\ Kids[t][k] \in Types
    BY WellFormed DEF GobTypes
  <2> QED
    BY <1>1, <1>2, <2>1 DEF GoesOn
<1> QED
  BY <1>3, <1>4 DEF GoesOn

-----------------------------------------------------------------------------
(* The tasks a goroutine can be at.                                        *)

LEMMA TaskForms ==
  ASSUME NEW x \in AllTasks
  PROVE  /\ x[1] = "type" => x[2] \in Types /\ x = <<"type", x[2]>>
         /\ x[1] = "field" => x[2] \in Types /\ x[3] \in Nat /\ x = <<"field", x[2], x[3]>>
         /\ x[1] = "default" => x[2] \in Values /\ x[3] \in Nat /\ x = <<"default", x[2], x[3]>>
         /\ x[1] = "decode" => x[2] \in Values /\ x = <<"decode", x[2]>>
BY DEF AllTasks

LEMMA AtHead ==
  ASSUME GobTypes, NEW g \in Goroutines, work[g] # <<>>
  PROVE  Task(g) \in AllTasks /\ \A x : At(g, 1, x) <=> x = Task(g)
<1>1. work[g] \in Seq(AllTasks)
  BY DEF GobTypes
<1>2. Len(work[g]) \in Nat \ {0} /\ DOMAIN work[g] = 1..Len(work[g])
      /\ Head(work[g]) = work[g][1] /\ work[g][1] \in AllTasks
  BY <1>1
<1> QED
  BY <1>2 DEF Task, At

LEMMA LowerForm ==
  ASSUME NEW f \in Lower
  PROVE  f[1] \in Types /\ f[2] \in DOMAIN Kids[f[1]] /\ f = <<f[1], f[2]>>
BY WellFormed

LEMMA KidForm ==
  ASSUME NEW t \in Types, NEW k \in DOMAIN Kids[t]
  PROVE  k \in Nat /\ Kids[t][k] \in Types
BY WellFormed

\* A type that is not in the table is entered, and its fields are to be
\* looked at: by this goroutine only, for none was complained about before.
LEMMA EnterFields ==
  ASSUME GobTypes, FieldsOnce, NEW g \in Goroutines, NEW t \in Types, t \notin checked,
         NEW new \in Seq(AllTasks), new = Tasks(t), Replaces(g, new),
         checked' = checked \cup {t}, complaints' = complaints
  PROVE  FieldsOnce'
<1>1. /\ Len(new) \in Nat /\ DOMAIN Kids[t] = 1..Len(new)
      /\ \A n \in 1..Len(new) : new[n] = <<"field", t, n>>
  BY DEF Tasks
<1>2. \A h \in Goroutines, n \in Nat, y \in Types, k \in Nat :
        At(h, n, <<"field", y, k>>)' =>
          \/ h = g /\ n \in 1..Len(new) /\ y = t /\ k = n
          \/ h = g /\ n > Len(new) /\ y # t /\ At(h, n - Len(new) + 1, <<"field", y, k>>)
          \/ h # g /\ y # t /\ At(h, n, <<"field", y, k>>)
  <2> SUFFICES ASSUME NEW h \in Goroutines, NEW n \in Nat, NEW y \in Types, NEW k \in Nat,
                      At(h, n, <<"field", y, k>>)'
               PROVE  \/ h = g /\ n \in 1..Len(new) /\ y = t /\ k = n
                      \/ h = g /\ n > Len(new) /\ y # t
                           /\ At(h, n - Len(new) + 1, <<"field", y, k>>)
                      \/ h # g /\ y # t /\ At(h, n, <<"field", y, k>>)
    OBVIOUS
  <2>1. <<"field", y, k>> \in AllTasks
    BY DEF AllTasks
  <2>2. \/ h = g /\ n \in 1..Len(new) /\ new[n] = <<"field", y, k>>
        \/ h = g /\ n > Len(new) /\ At(h, n - Len(new) + 1, <<"field", y, k>>)
        \/ h # g /\ At(h, n, <<"field", y, k>>)
    BY <2>1 DEF Replaces
  <2>3. n > Len(new) => n - Len(new) + 1 \in Nat
    BY <1>1
  <2>4. \A m \in Nat : At(h, m, <<"field", y, k>>) => y # t
    BY DEF FieldsOnce
  <2> QED
    BY <1>1, <2>2, <2>3, <2>4
<1>3. ASSUME NEW h \in Goroutines, NEW n \in Nat, NEW y \in Types, NEW k \in Nat,
             At(h, n, <<"field", y, k>>)'
      PROVE  y \in checked' /\ k \in DOMAIN Kids[y]
             /\ (<<y, k>> \in Lower => complaints'[<<y, k>>] = 0)
  <2>1. CASE y = t /\ k = n /\ n \in 1..Len(new)
    BY <1>1, <2>1 DEF FieldsOnce
  <2>2. CASE \E m \in Nat : At(h, m, <<"field", y, k>>)
    BY <2>2 DEF FieldsOnce
  <2> QED
    BY <1>1, <1>2, <1>3, <2>1, <2>2
<1>4. ASSUME NEW e \in Goroutines, NEW h \in Goroutines, NEW m \in Nat, NEW n \in Nat,
             NEW y \in Types, NEW k \in Nat,
             At(e, m, <<"field", y, k>>)', At(h, n, <<"field", y, k>>)'
      PROVE  e = h /\ m = n
  <2>1. CASE y = t
    BY <1>2, <1>4, <2>1
  <2>2. CASE y # t
    <3>1. PICK i \in Nat : /\ At(e, i, <<"field", y, k>>)
                           /\ e = g => i = m - Len(new) + 1
                           /\ e # g => i = m
      BY <1>1, <1>2, <1>4, <2>2
    <3>2. PICK j \in Nat : /\ At(h, j, <<"field", y, k>>)
                           /\ h = g => j = n - Len(new) + 1
                           /\ h # g => j = n
      BY <1>1, <1>2, <1>4, <2>2
    <3>3. e = h /\ i = j
      BY <3>1, <3>2 DEF FieldsOnce
    <3> QED
      BY <1>1, <3>1, <3>2, <3>3
  <2> QED
    BY <2>1, <2>2
<1>5. \A f \in Lower : complaints'[f] <= 1 /\ (f[1] \notin checked' => complaints'[f] = 0)
  BY DEF FieldsOnce
<1> QED
  BY <1>3, <1>4, <1>5 DEF FieldsOnce

LEMMA EnterGoesOn ==
  ASSUME GobTypes, GoesOn, NEW g \in Goroutines, NEW t \in Types, At(g, 1, <<"type", t>>),
         NEW new \in Seq(AllTasks), new = Tasks(t), Replaces(g, new),
         checked' = checked \cup {t}, UNCHANGED <<complaints, asked>>
  PROVE  GoesOn'
<1>1. ASSUME NEW y \in Types, Pending(<<"type", y>>), y # t PROVE Pending(<<"type", y>>)'
  <2>1. <<"type", y>> \in AllTasks /\ ~At(g, 1, <<"type", y>>)
    BY <1>1 DEF AllTasks, At
  <2> QED
    BY <1>1, <2>1, PendingKept
<1>2. ASSUME NEW y \in Types, NEW k \in Nat, Pending(<<"field", y, k>>)
      PROVE  Pending(<<"field", y, k>>)'
  <2>1. <<"field", y, k>> \in AllTasks /\ <<"field", y, k>>[1] # <<"type", t>>[1]
    BY DEF AllTasks
  <2>2. ~At(g, 1, <<"field", y, k>>)
    BY <2>1 DEF At
  <2> QED
    BY <1>2, <2>1, <2>2, PendingKept
<1>3. \A y \in asked' : y \in checked' \/ Pending(<<"type", y>>)'
  BY <1>1 DEF GoesOn, GobTypes
<1>4. ASSUME NEW y \in checked', NEW k \in DOMAIN Kids[y]
      PROVE  \/ Pending(<<"field", y, k>>)'
             \/ /\ <<y, k>> \in Lower => complaints'[<<y, k>>] = 1
                /\ Kids[y][k] \in checked' \/ Pending(<<"type", Kids[y][k]>>)'
  <2>1. y \in Types /\ k \in Nat /\ Kids[y][k] \in Types
    BY KidForm DEF GobTypes
  <2>2. CASE y \in checked
    BY <1>1, <1>2, <2>1, <2>2 DEF GoesOn
  <2>3. CASE y = t
    <3>1. k \in 1..Len(new) /\ new[k] = <<"field", y, k>>
      BY <2>1, <2>3, WellFormed DEF Tasks
    <3> QED
      BY <3>1, PendingNew
  <2> QED
    BY <2>2, <2>3
<1> QED
  BY <1>3, <1>4 DEF GoesOn

\* A field is looked at, and its type is to be checked.
LEMMA FieldFields ==
  ASSUME GobTypes, FieldsOnce, NEW g \in Goroutines, NEW t \in Types, NEW k \in Nat,
         At(g, 1, <<"field", t, k>>),
         NEW new \in Seq(AllTasks), new = << <<"type", Kids[t][k]>> >>, Replaces(g, new),
         checked' = checked,
         complaints' = IF <<t, k>> \in Lower THEN [complaints EXCEPT ![<<t, k>>] = @ + 1]
                       ELSE complaints
  PROVE  FieldsOnce'
<1>1. Len(new) = 1 /\ new[1][1] # "field"
  OBVIOUS
<1>2. \A h \in Goroutines, n \in Nat, y \in Types, j \in Nat :
        At(h, n, <<"field", y, j>>)' => At(h, n, <<"field", y, j>>) /\ <<y, j>> # <<t, k>>
  <2> SUFFICES ASSUME NEW h \in Goroutines, NEW n \in Nat, NEW y \in Types, NEW j \in Nat,
                      At(h, n, <<"field", y, j>>)'
               PROVE  At(h, n, <<"field", y, j>>) /\ <<y, j>> # <<t, k>>
    OBVIOUS
  <2>1. <<"field", y, j>> \in AllTasks /\ <<"field", y, j>>[1] = "field"
    BY DEF AllTasks
  <2>2. \/ h = g /\ n \in 1..Len(new) /\ new[n] = <<"field", y, j>>
        \/ h = g /\ n > Len(new) /\ At(h, n - Len(new) + 1, <<"field", y, j>>)
        \/ h # g /\ At(h, n, <<"field", y, j>>)
    BY <2>1 DEF Replaces
  <2>3. At(h, n, <<"field", y, j>>) /\ (h = g => n # 1)
    BY <1>1, <2>1, <2>2
  <2>4. ASSUME y = t, j = k PROVE FALSE
    BY <2>3, <2>4 DEF FieldsOnce
  <2> QED
    BY <2>3, <2>4
<1>3. complaints' \in [Lower -> Nat] /\ \A f \in Lower : f # <<t, k>> => complaints'[f] = complaints[f]
  BY DEF GobTypes
<1>4. t \in checked /\ (<<t, k>> \in Lower => complaints'[<<t, k>>] = 1)
  BY DEF FieldsOnce, GobTypes
<1>5. ASSUME NEW h \in Goroutines, NEW n \in Nat, NEW y \in Types, NEW j \in Nat,
             At(h, n, <<"field", y, j>>)'
      PROVE  y \in checked' /\ j \in DOMAIN Kids[y]
             /\ (<<y, j>> \in Lower => complaints'[<<y, j>>] = 0)
  BY <1>2, <1>3, <1>5 DEF FieldsOnce
<1>6. ASSUME NEW e \in Goroutines, NEW h \in Goroutines, NEW m \in Nat, NEW n \in Nat,
             NEW y \in Types, NEW j \in Nat,
             At(e, m, <<"field", y, j>>)', At(h, n, <<"field", y, j>>)'
      PROVE  e = h /\ m = n
  BY <1>2, <1>6 DEF FieldsOnce
<1>7. \A f \in Lower : complaints'[f] <= 1 /\ (f[1] \notin checked' => complaints'[f] = 0)
  <2> TAKE f \in Lower
  <2>1. CASE f = <<t, k>>
    BY <1>4, <2>1
  <2>2. CASE f # <<t, k>>
    BY <1>3, <2>2 DEF FieldsOnce
  <2> QED
    BY <2>1, <2>2
<1> QED
  BY <1>5, <1>6, <1>7 DEF FieldsOnce

LEMMA FieldGoesOn ==
  ASSUME GobTypes, FieldsOnce, GoesOn, NEW g \in Goroutines, NEW t \in Types, NEW k \in Nat,
         At(g, 1, <<"field", t, k>>),
         NEW new \in Seq(AllTasks), new = << <<"type", Kids[t][k]>> >>, Replaces(g, new),
         UNCHANGED <<checked, asked>>,
         complaints' = IF <<t, k>> \in Lower THEN [complaints EXCEPT ![<<t, k>>] = @ + 1]
                       ELSE complaints
  PROVE  GoesOn'
<1>1. ASSUME NEW y \in Types, Pending(<<"type", y>>) PROVE Pending(<<"type", y>>)'
  <2>1. <<"type", y>> \in AllTasks /\ <<"type", y>>[1] # <<"field", t, k>>[1]
    BY DEF AllTasks
  <2>2. ~At(g, 1, <<"type", y>>)
    BY <2>1 DEF At
  <2> QED
    BY <1>1, <2>1, <2>2, PendingKept
<1>2. ASSUME NEW y \in Types, NEW j \in Nat, Pending(<<"field", y, j>>), <<y, j>> # <<t, k>>
      PROVE  Pending(<<"field", y, j>>)'
  <2>1. <<"field", y, j>> \in AllTasks /\ ~At(g, 1, <<"field", y, j>>)
    BY <1>2 DEF AllTasks, At
  <2> QED
    BY <1>2, <2>1, PendingKept
<1>3. \A y \in asked' : y \in checked' \/ Pending(<<"type", y>>)'
  BY <1>1 DEF GoesOn, GobTypes
<1>4. \A f \in Lower : f # <<t, k>> => complaints'[f] = complaints[f]
  BY DEF GobTypes
<1>5. <<t, k>> \in Lower => complaints'[<<t, k>>] = 1
  BY DEF FieldsOnce, GobTypes
<1>6. Pending(<<"type", Kids[t][k]>>)'
  <2>1. 1 \in 1..Len(new) /\ new[1] = <<"type", Kids[t][k]>>
    OBVIOUS
  <2> QED
    BY <2>1, PendingNew
<1>7. ASSUME NEW y \in checked, NEW j \in DOMAIN Kids[y]
      PROVE  \/ Pending(<<"field", y, j>>)'
             \/ /\ <<y, j>> \in Lower => complaints'[<<y, j>>] = 1
                /\ Kids[y][j] \in checked \/ Pending(<<"type", Kids[y][j]>>)'
  <2>1. y \in Types /\ j \in Nat /\ Kids[y][j] \in Types
    BY KidForm DEF GobTypes
  <2>2. CASE <<y, j>> = <<t, k>>
    BY <1>5, <1>6, <2>2
  <2>3. CASE <<y, j>> # <<t, k>>
    BY <1>1, <1>2, <1>4, <2>1, <2>3 DEF GoesOn
  <2> QED
    BY <2>2, <2>3
<1> QED
  BY <1>3, <1>7 DEF GoesOn

-----------------------------------------------------------------------------
(* Parts that are not zero stay covered until an error is counted.         *)

\* new decodes only what it has checked before, and hands on what the first
\* task of g covers.
ChecksFirst(new) ==
  \A n \in 1..Len(new), v \in Values :
    new[n] = <<"decode", v>> => \E m \in 1..n : Reach(new[m]) = Shallow(v)

HandsOn(g, new) ==
  \A x \in AllTasks, u \in nonDefault :
    At(g, 1, x) /\ u \in Reach(x) =>
      errorCount' > 0 \/ \E m \in 1..Len(new) : u \in Reach(new[m])

LEMMA AheadKept ==
  ASSUME GobTypes, CountedAhead, NEW g \in Goroutines, NEW new \in Seq(AllTasks),
         Replaces(g, new), errorCount' \in Nat, errorCount' >= errorCount,
         nonDefault' = nonDefault,
         ChecksFirst(new), HandsOn(g, new)
  PROVE  CountedAhead'
<1> SUFFICES ASSUME NEW h \in Goroutines, NEW n \in Nat, NEW v \in Values,
                    At(h, n, <<"decode", v>>)', ~(errorCount' > 0),
                    NEW u \in Shallow(v) \cap nonDefault
             PROVE  \E m \in 1..n, x \in AllTasks : At(h, m, x)' /\ u \in Reach(x)
  BY DEF CountedAhead
<1>1. <<"decode", v>> \in AllTasks
  BY DEF AllTasks
<1>2. Len(new) \in Nat /\ ~(errorCount > 0) /\ \A m \in 1..Len(new) : new[m] \in AllTasks
  BY DEF GobTypes
<1>3. CASE h = g /\ n \in 1..Len(new) /\ new[n] = <<"decode", v>>
  <2>1. PICK m \in 1..n : Reach(new[m]) = Shallow(v)
    BY <1>3 DEF ChecksFirst
  <2>2. m \in 1..Len(new) /\ u \in Reach(new[m])
    BY <1>2, <1>3, <2>1
  <2>3. At(h, m, new[m])'
    BY <1>3, <2>2 DEF Replaces
  <2> QED
    BY <1>2, <2>2, <2>3
<1>4. CASE h # g /\ At(h, n, <<"decode", v>>)
  <2>1. PICK m \in 1..n, x \in AllTasks : At(h, m, x) /\ u \in Reach(x)
    BY <1>2, <1>4 DEF CountedAhead
  <2>2. At(h, m, x)'
    BY <1>4, <2>1 DEF Replaces
  <2> QED
    BY <2>1, <2>2
<1>5. CASE h = g /\ n > Len(new) /\ At(h, n - Len(new) + 1, <<"decode", v>>)
  <2>1. n - Len(new) + 1 \in Nat
    BY <1>2, <1>5
  <2>2. PICK m \in 1..(n - Len(new) + 1), x \in AllTasks : At(h, m, x) /\ u \in Reach(x)
    BY <1>2, <1>5, <2>1 DEF CountedAhead
  <2>3. CASE m = 1
    <3>1. PICK k \in 1..Len(new) : u \in Reach(new[k])
      BY <1>5, <2>2, <2>3 DEF HandsOn
    <3>2. At(h, k, new[k])' /\ k \in 1..n
      BY <1>2, <1>5, <3>1 DEF Replaces
    <3> QED
      BY <1>2, <3>1, <3>2
  <2>4. CASE m # 1
    <3>1. At(h, m - 1 + Len(new), x)'
      BY <1>5, <2>1, <2>2, <2>4 DEF Replaces
    <3>2. m - 1 + Len(new) \in 1..n
      BY <1>2, <1>5, <2>2, <2>4
    <3> QED
      BY <2>2, <3>1, <3>2
  <2> QED
    BY <2>3, <2>4
<1> QED
  BY <1>1, <1>3, <1>4, <1>5 DEF Replaces

LEMMA BelowOne ==
  ASSUME NEW v \in Values
  PROVE  Below({v}) = {Parts[v][k] : k \in DOMAIN Parts[v]}
BY DEF Below

LEMMA NoReach ==
  ASSUME NEW x, x[1] # "default" \/ x[3] \notin 1..3
  PROVE  Reach(x) = {}
BY DEF Reach

\* A value of a basic kind has no parts: checkDefault1 looks at it alone.
LEMMA ReachBasic ==
  ASSUME NEW v \in Basic, NEW d \in 1..3
  PROVE  Reach(<<"default", v, d>>) = {v}
<1>1. v \in Values /\ Parts[v] = <<>>
  BY WellFormed
<1>2. Below({v}) = {}
  BY <1>1, BelowOne
<1>3. Below({}) = {}
  BY DEF Below
<1>4. Shallow(v) = {v}
  BY <1>2, <1>3 DEF Shallow
<1> QED
  BY <1>2, <1>4 DEF Reach

\* What it looks at from any other value, it looks at from one of the parts,
\* one level down.
LEMMA ReachParts ==
  ASSUME NEW v \in Values, NEW d \in Nat, NEW u \in Reach(<<"default", v, d>>), u # v
  PROVE  d \in 1..2 /\ \E k \in DOMAIN Parts[v] : u \in Reach(<<"default", Parts[v][k], d + 1>>)
<1>1. \A k \in DOMAIN Parts[v] : Parts[v][k] \in Values
  BY WellFormed
<1>2. CASE d = 1
  <2>1. u \in Below({v}) \/ u \in Below(Below({v}))
    BY <1>2 DEF Reach, Shallow
  <2>2. CASE u \in Below({v})
    <3>1. PICK k \in DOMAIN Parts[v] : u = Parts[v][k]
      BY <2>2, BelowOne
    <3>2. u \in Reach(<<"default", Parts[v][k], 2>>)
      BY <3>1 DEF Reach
    <3> QED
      BY <1>2, <3>2
  <2>3. CASE u \in Below(Below({v}))
    <3>1. PICK w \in Below({v}) : u \in {Parts[w][j] : j \in DOMAIN Parts[w]}
      BY <2>3 DEF Below
    <3>2. PICK k \in DOMAIN Parts[v] : w = Parts[v][k]
      BY <3>1, BelowOne
    <3>3. u \in Below({w})
      BY <1>1, <3>1, <3>2, BelowOne
    <3>4. u \in Reach(<<"default", Parts[v][k], 2>>)
      BY <3>2, <3>3 DEF Reach
    <3> QED
      BY <1>2, <3>4
  <2> QED
    BY <2>1, <2>2, <2>3
<1>3. CASE d = 2
  <2>1. u \in Below({v})
    BY <1>3 DEF Reach
  <2>2. PICK k \in DOMAIN Parts[v] : u = Parts[v][k]
    BY <2>1, BelowOne
  <2>3. u \in Reach(<<"default", Parts[v][k], 3>>)
    BY <2>2 DEF Reach
  <2> QED
    BY <1>3, <2>3
<1>4. CASE d = 3
  BY <1>4 DEF Reach
<1>5. CASE d \notin 1..3
  BY <1>5, NoReach
<1> QED
  BY <1>2, <1>3, <1>4, <1>5

-----------------------------------------------------------------------------
(* The steps.                                                              *)

LEMMA BeginKeeps ==
  ASSUME GobInv, NEW g \in Goroutines, NEW t \in Types, NEW new \in Seq(AllTasks),
         new[1] = <<"type", t>>, Len(new) > 0,
         \A n \in 1..Len(new) : new[n][1] # "field", ChecksFirst(new),
         work[g] = <<>>, work' = [work EXCEPT ![g] = new], asked' = asked \cup {t},
         UNCHANGED <<checked, errorCount, nonDefault, complaints, warnings, decoded>>
  PROVE  GobInv'
<1> USE DEF GobInv
<1>1. work' \in [Goroutines -> Seq(AllTasks)] /\ Replaces(g, new)
  BY BeginReplaces
<1>2. GobTypes'
  BY <1>1 DEF GobTypes
<1>3. \A x : ~At(g, 1, x)
  BY DEF At
<1>4. FieldsOnce'
  BY <1>1, FieldsKept
<1>5. Pending(<<"type", t>>)'
  <2>1. 1 \in 1..Len(new)
    OBVIOUS
  <2> QED
    BY <1>1, <2>1, PendingNew
<1>6. GoesOn'
  BY <1>1, <1>3, <1>5, GoesOnKept
<1>7. CountedAhead'
  <2>1. errorCount' \in Nat /\ errorCount' >= errorCount /\ HandsOn(g, new)
    BY <1>3 DEF GobTypes, HandsOn
  <2> QED
    BY <1>1, <2>1, AheadKept
<1>8. Counting' /\ DecodedCounted'
  BY DEF Counting, DecodedCounted
<1> QED
  BY <1>2, <1>4, <1>6, <1>7, <1>8

LEMMA EncodeKeeps ==
  ASSUME GobInv, NEW g \in Goroutines, Encode(g)
  PROVE  GobInv'
<1>1. PICK t \in Encoded : Begin(g, t, <<>>)
  BY DEF Encode
<1> DEFINE new == << <<"type", t>> >>
<1>2. t \in Types
  BY WellFormed
<1>3. new \in Seq(AllTasks) /\ Len(new) = 1 /\ new[1] = <<"type", t>>
      /\ new \o <<>> = new
  BY <1>2 DEF AllTasks
<1>4. \A n \in 1..Len(new) : new[n][1] = "type" /\ new[n][1] # "field"
  BY <1>3
<1>5. ChecksFirst(new)
  BY <1>4 DEF ChecksFirst
<1>6. work[g] = <<>> /\ work' = [work EXCEPT ![g] = new] /\ asked' = asked \cup {t}
      /\ UNCHANGED <<checked, errorCount, nonDefault, complaints, warnings, decoded>>
  BY <1>1, <1>3 DEF Begin
<1> HIDE DEF new
<1>7. Len(new) > 0 /\ \A n \in 1..Len(new) : new[n][1] # "field"
  BY <1>3, <1>4
<1> QED
  BY <1>2, <1>3, <1>5, <1>6, <1>7, BeginKeeps, Zenon

LEMMA DecodeKeeps ==
  ASSUME GobInv, NEW g \in Goroutines, Decode(g)
  PROVE  GobInv'
<1>1. PICK v \in DOMAIN TypeOf : Begin(g, TypeOf[v], << <<"default", v, 1>>, <<"decode", v>> >>)
  BY DEF Decode
<1> DEFINE t == TypeOf[v]
           new == << <<"type", t>>, <<"default", v, 1>>, <<"decode", v>> >>
<1>2. t \in Types /\ v \in Values
  BY WellFormed
<1>3. new \in Seq(AllTasks) /\ Len(new) = 3 /\ new[1] = <<"type", t>>
      /\ new[2] = <<"default", v, 1>> /\ new[3] = <<"decode", v>>
  BY <1>2 DEF AllTasks
<1>4. << <<"type", t>> >> \o << <<"default", v, 1>>, <<"decode", v>> >> = new
  <2> DEFINE a == <<"type", t>>
             b == <<"default", v, 1>>
             c == <<"decode", v>>
  <2> HIDE DEF a, b, c
  <2>1. <<a>> \o <<b, c>> = <<a, b, c>>
    <3> DEFINE S == {a, b, c}
               s == <<a>> \o <<b, c>>
    <3>1. <<a>> \in Seq(S) /\ <<b, c>> \in Seq(S) /\ <<a, b, c>> \in Seq(S)
      OBVIOUS
    <3>2. s \in Seq(S) /\ Len(s) = 3 /\ s[1] = a /\ s[2] = b /\ s[3] = c
      BY <3>1
    <3>3. \A i \in 1..3 : s[i] = <<a, b, c>>[i]
      BY <3>2
    <3> HIDE DEF s, S
    <3>4. s = <<a, b, c>>
      BY <3>1, <3>2, <3>3, SeqEqual
    <3> QED
      BY <3>4 DEF s
  <2> QED
    BY <2>1 DEF a, b, c
<1>5. \A n \in 1..Len(new) : n = 1 \/ n = 2 \/ n = 3
  BY <1>3
<1>6. \A n \in 1..Len(new) : new[n][1] # "field"
  BY <1>3, <1>5
<1>7. ChecksFirst(new)
  <2> SUFFICES ASSUME NEW n \in 1..Len(new), NEW w \in Values, new[n] = <<"decode", w>>
               PROVE  \E m \in 1..n : Reach(new[m]) = Shallow(w)
    BY DEF ChecksFirst
  <2>1. n = 3
    BY <1>3, <1>5
  <2>2. w = v
    BY <1>3, <2>1
  <2>3. Reach(new[2]) = Shallow(v)
    BY <1>3 DEF Reach
  <2> QED
    BY <2>1, <2>2, <2>3
<1>8. work[g] = <<>> /\ work' = [work EXCEPT ![g] = new] /\ asked' = asked \cup {t}
      /\ UNCHANGED <<checked, errorCount, nonDefault, complaints, warnings, decoded>>
  BY <1>1, <1>4 DEF Begin
<1> HIDE DEF new, t
<1>9. Len(new) > 0
  BY <1>3
<1> QED
  BY <1>2, <1>3, <1>6, <1>7, <1>8, <1>9, BeginKeeps, Zenon

LEMMA NothingNew ==
  <<>> \in Seq(AllTasks) /\ ChecksFirst(<<>>) /\ \A n \in 1..Len(<<>>) : <<>>[n][1] # "field"
BY DEF ChecksFirst

LEMMA CheckTypeKeeps ==
  ASSUME GobInv, NEW g \in Goroutines, checkType(g)
  PROVE  GobInv'
<1> USE DEF GobInv
<1> DEFINE t == Task(g)[2]
<1>1. work[g] # <<>> /\ Task(g)[1] = "type"
      /\ UNCHANGED <<errorCount, nonDefault, complaints, warnings, asked, decoded>>
  BY DEF checkType, Doing, Task
<1>2. Task(g) \in AllTasks /\ \A x : At(g, 1, x) <=> x = Task(g)
  BY <1>1, AtHead
<1>3. t \in Types /\ Task(g) = <<"type", t>>
  BY <1>1, <1>2, TaskForms
<1>4. /\ At(g, 1, <<"type", t>>) /\ \A y \in Types, k \in Nat : ~At(g, 1, <<"field", y, k>>)
      /\ \A y \in Types : At(g, 1, <<"type", y>>) => y = t
  BY <1>2, <1>3
<1>5. \A new : HandsOn(g, new)
  BY <1>1, <1>2, NoReach DEF HandsOn
<1>6. errorCount' \in Nat /\ errorCount' >= errorCount
  BY <1>1 DEF GobTypes
<1>7. Counting' /\ DecodedCounted'
  BY <1>1 DEF Counting, DecodedCounted
<1>8. CASE t \in checked /\ Then(g, <<>>) /\ UNCHANGED checked
  <2>1. <<>> \in Seq(AllTasks) /\ ChecksFirst(<<>>)
        /\ \A n \in 1..Len(<<>>) : <<>>[n][1] # "field"
    BY NothingNew
  <2>2. work' \in [Goroutines -> Seq(AllTasks)] /\ Replaces(g, <<>>)
    BY <1>1, <1>8, <2>1, ThenReplaces
  <2>3. GobTypes'
    BY <1>1, <1>8, <2>2 DEF GobTypes
  <2>4. FieldsOnce'
    BY <1>1, <1>8, <2>1, <2>2, FieldsKept, Zenon
  <2>5. GoesOn'
    BY <1>1, <1>4, <1>8, <2>1, <2>2, GoesOnKept
  <2>6. CountedAhead'
    BY <1>1, <1>5, <1>6, <2>1, <2>2, AheadKept
  <2> QED
    BY <1>7, <2>3, <2>4, <2>5, <2>6
<1>9. CASE t \notin checked /\ Then(g, Tasks(t)) /\ checked' = checked \cup {t}
  <2>1. Tasks(t) \in Seq(AllTasks) /\ \A n \in 1..Len(Tasks(t)) : Tasks(t)[n][1] = "field"
    <3>1. DOMAIN Kids[t] = 1..Len(Kids[t]) /\ Len(Kids[t]) \in Nat
      BY <1>3, WellFormed
    <3>2. \A n \in 1..Len(Kids[t]) : <<"field", t, n>> \in AllTasks
      BY <1>3 DEF AllTasks
    <3> QED
      BY <3>1, <3>2 DEF Tasks
  <2>2. ChecksFirst(Tasks(t))
    BY <2>1 DEF ChecksFirst
  <2>3. work' \in [Goroutines -> Seq(AllTasks)] /\ Replaces(g, Tasks(t))
    BY <1>1, <1>9, <2>1, ThenReplaces
  <2>4. GobTypes'
    BY <1>1, <1>3, <1>9, <2>3 DEF GobTypes
  <2>5. FieldsOnce'
    BY <1>1, <1>3, <1>9, <2>1, <2>3, EnterFields
  <2>6. GoesOn'
    BY <1>1, <1>3, <1>4, <1>9, <2>1, <2>3, EnterGoesOn
  <2>7. CountedAhead'
    BY <1>1, <1>5, <1>6, <2>1, <2>2, <2>3, AheadKept
  <2> QED
    BY <1>7, <2>4, <2>5, <2>6, <2>7
<1> QED
  BY <1>8, <1>9 DEF checkType

LEMMA FieldKeeps ==
  ASSUME GobInv, NEW g \in Goroutines, Field(g)
  PROVE  GobInv'
<1> USE DEF GobInv
<1> DEFINE t == Task(g)[2]
           k == Task(g)[3]
           new == << <<"type", Kids[t][k]>> >>
<1>1. /\ work[g] # <<>> /\ Task(g)[1] = "field"
      /\ UNCHANGED <<checked, nonDefault, warnings, asked, decoded>> /\ Then(g, new)
      /\ complaints' = IF <<t, k>> \in Lower THEN [complaints EXCEPT ![<<t, k>>] = @ + 1]
                       ELSE complaints
      /\ errorCount' = IF <<t, k>> \in Lower THEN errorCount + 1 ELSE errorCount
  BY DEF Field, Doing, Task
<1>2. Task(g) \in AllTasks /\ \A x : At(g, 1, x) <=> x = Task(g)
  BY <1>1, AtHead
<1>3. t \in Types /\ k \in Nat /\ Task(g) = <<"field", t, k>>
  BY <1>1, <1>2, TaskForms
<1>4. At(g, 1, <<"field", t, k>>)
  BY <1>2, <1>3
<1>5. Kids[t][k] \in Types
  BY <1>3, <1>4, KidForm DEF FieldsOnce
<1>6. new \in Seq(AllTasks) /\ Len(new) = 1 /\ new[1] = <<"type", Kids[t][k]>>
  BY <1>5 DEF AllTasks
<1>7. HandsOn(g, new)
  BY <1>1, <1>2, NoReach DEF HandsOn
<1>8. ChecksFirst(new)
  <2>1. \A n \in 1..Len(new) : new[n][1] = "type"
    BY <1>6
  <2> QED
    BY <2>1 DEF ChecksFirst
<1>9. errorCount' \in Nat /\ errorCount' >= errorCount /\ complaints' \in [Lower -> Nat]
  BY <1>1 DEF GobTypes
<1> HIDE DEF new, t, k
<1>10. work' \in [Goroutines -> Seq(AllTasks)] /\ Replaces(g, new)
  BY <1>1, <1>6, ThenReplaces
<1>11. GobTypes'
  BY <1>1, <1>9, <1>10 DEF GobTypes
<1>12. FieldsOnce'
  BY <1>1, <1>3, <1>4, <1>6, <1>10, FieldFields DEF new
<1>13. GoesOn'
  BY <1>1, <1>3, <1>4, <1>6, <1>10, FieldGoesOn DEF new
<1>14. CountedAhead'
  BY <1>1, <1>6, <1>7, <1>8, <1>9, <1>10, AheadKept
<1>15. DecodedCounted'
  BY <1>1, <1>9 DEF DecodedCounted, GobTypes
<1>16. Counting'
  <2>1. CASE <<t, k>> \in Lower
    <3>1. complaints'[<<t, k>>] = complaints[<<t, k>>] + 1 /\ complaints[<<t, k>>] \in Nat
      BY <1>1, <2>1 DEF GobTypes
    <3> QED
      BY <1>1, <2>1, <3>1 DEF Counting, GobTypes
  <2>2. CASE <<t, k>> \notin Lower
    BY <1>1, <2>2 DEF Counting
  <2> QED
    BY <2>1, <2>2
<1> QED
  BY <1>11, <1>12, <1>13, <1>14, <1>15, <1>16

\* Steps that neither check a type nor look at a field.
LEMMA OtherKeeps ==
  ASSUME GobInv, NEW g \in Goroutines, work[g] # <<>>,
         Task(g)[1] # "type", Task(g)[1] # "field",
         NEW new \in Seq(AllTasks), Then(g, new), ChecksFirst(new), HandsOn(g, new),
         \A n \in 1..Len(new) : new[n][1] # "field",
         errorCount' \in Nat, errorCount' >= errorCount,
         warnings' \in Nat, decoded' \subseteq Values,
         UNCHANGED <<checked, nonDefault, complaints, asked>>
  PROVE  GobTypes' /\ FieldsOnce' /\ GoesOn' /\ CountedAhead'
<1> USE DEF GobInv
<1>1. Task(g) \in AllTasks /\ \A x : At(g, 1, x) <=> x = Task(g)
  BY AtHead
<1>2. /\ \A y \in Types, k \in Nat : ~At(g, 1, <<"field", y, k>>)
      /\ \A y \in Types : At(g, 1, <<"type", y>>) => y \in checked
  BY <1>1
<1>3. work' \in [Goroutines -> Seq(AllTasks)] /\ Replaces(g, new)
  BY ThenReplaces
<1>4. GobTypes'
  BY <1>3 DEF GobTypes
<1>5. FieldsOnce'
  BY <1>3, FieldsKept
<1>6. GoesOn'
  BY <1>2, <1>3, GoesOnKept
<1>7. CountedAhead'
  BY <1>3, AheadKept
<1> QED
  BY <1>4, <1>5, <1>6, <1>7

LEMMA CheckDefaultKeeps ==
  ASSUME GobInv, NEW g \in Goroutines, checkDefault1(g)
  PROVE  GobInv'
<1> USE DEF GobInv
<1> DEFINE v == Task(g)[2]
           d == Task(g)[3]
           new == IF d > MaxDepth THEN <<>>
                  ELSE [k \in DOMAIN Parts[v] |-> <<"default", Parts[v][k], d + 1>>]
<1>1. /\ work[g] # <<>> /\ Task(g)[1] = "default" /\ Then(g, new)
      /\ v \notin Basic \/ d > 3
      /\ UNCHANGED <<checked, errorCount, nonDefault, complaints, warnings, asked, decoded>>
  BY DEF checkDefault1, Doing, Task, MaxDepth
<1>2. Task(g) \in AllTasks /\ \A x : At(g, 1, x) <=> x = Task(g)
  BY <1>1, AtHead
<1>3. v \in Values /\ d \in Nat /\ Task(g) = <<"default", v, d>>
  BY <1>1, <1>2, TaskForms
<1>4. DOMAIN Parts[v] = 1..Len(Parts[v]) /\ Len(Parts[v]) \in Nat
      /\ \A k \in DOMAIN Parts[v] : <<"default", Parts[v][k], d + 1>> \in AllTasks
  BY <1>3, WellFormed DEF AllTasks
<1>5. new \in Seq(AllTasks) /\ \A n \in 1..Len(new) : new[n][1] = "default"
  BY <1>4
<1>6. d <= 3 => /\ Len(new) = Len(Parts[v])
                /\ \A k \in DOMAIN Parts[v] : new[k] = <<"default", Parts[v][k], d + 1>>
  BY <1>3, <1>4 DEF MaxDepth
<1> HIDE DEF new
<1>7. HandsOn(g, new)
  <2> SUFFICES ASSUME NEW x \in AllTasks, NEW u \in nonDefault, At(g, 1, x), u \in Reach(x)
               PROVE  \E m \in 1..Len(new) : u \in Reach(new[m])
    BY DEF HandsOn
  <2>1. u \in Reach(<<"default", v, d>>)
    BY <1>2, <1>3
  <2>2. d \in 1..3
    BY <2>1, NoReach
  <2>3. u # v
    BY <1>1, <2>2 DEF GobTypes
  <2>4. PICK k \in DOMAIN Parts[v] : u \in Reach(<<"default", Parts[v][k], d + 1>>)
    BY <1>3, <2>1, <2>3, ReachParts
  <2> QED
    BY <1>4, <1>6, <2>2, <2>4
<1>8. ChecksFirst(new)
  BY <1>5 DEF ChecksFirst
<1>9. \A n \in 1..Len(new) : new[n][1] # "field"
  BY <1>5
<1>10. errorCount' \in Nat /\ errorCount' >= errorCount /\ warnings' \in Nat
       /\ decoded' \subseteq Values
  BY <1>1 DEF GobTypes
<1>11. GobTypes' /\ FieldsOnce' /\ GoesOn' /\ CountedAhead'
  BY <1>1, <1>5, <1>7, <1>8, <1>9, <1>10, OtherKeeps
<1>12. Counting' /\ DecodedCounted'
  BY <1>1 DEF Counting, DecodedCounted
<1> QED
  BY <1>11, <1>12

\* Nothing that the invariant speaks of changes.
LEMMA SameGob ==
  ASSUME GobInv,
         UNCHANGED <<checked, errorCount, work, nonDefault, complaints, warnings, asked, decoded>>
  PROVE  GobInv'
<1> USE DEF GobInv
<1>1. \A g, n, x : At(g, n, x)' <=> At(g, n, x)
  BY DEF At
<1>2. \A x : Pending(x)' <=> Pending(x)
  BY <1>1 DEF Pending
<1>3. GobTypes' /\ Counting' /\ DecodedCounted'
  BY DEF GobTypes, Counting, DecodedCounted
<1>4. FieldsOnce'
  BY <1>1 DEF FieldsOnce
<1>5. GoesOn'
  BY <1>2 DEF GoesOn
<1>6. CountedAhead'
  BY <1>1 DEF CountedAhead
<1> QED
  BY <1>3, <1>4, <1>5, <1>6

LEMMA WarnKeeps ==
  ASSUME GobInv, NEW g \in Goroutines, Warn(g)
  PROVE  GobInv'
<1> USE DEF GobInv
<1> DEFINE v == Task(g)[2]
           d == Task(g)[3]
<1>1. /\ work[g] # <<>> /\ Task(g)[1] = "default" /\ Then(g, <<>>)
      /\ v \in Basic /\ d <= 3
      /\ UNCHANGED <<checked, nonDefault, complaints, asked, decoded>>
  BY DEF Warn, Doing, Task, MaxDepth
<1>2. /\ v \in nonDefault => errorCount' = errorCount + 1
           /\ warnings' = IF errorCount < 1 THEN warnings + 1 ELSE warnings
      /\ v \notin nonDefault => UNCHANGED <<warnings, errorCount>>
  BY DEF Warn
<1>3. Task(g) \in AllTasks /\ \A x : At(g, 1, x) <=> x = Task(g)
  BY <1>1, AtHead
<1>4. v \in Values /\ d \in Nat /\ Task(g) = <<"default", v, d>>
  BY <1>1, <1>3, TaskForms
<1>5. errorCount' \in Nat /\ errorCount' >= errorCount /\ warnings' \in Nat
       /\ decoded' \subseteq Values
  BY <1>1, <1>2 DEF GobTypes
<1>6. HandsOn(g, <<>>)
  <2> SUFFICES ASSUME NEW x \in AllTasks, NEW u \in nonDefault, At(g, 1, x), u \in Reach(x)
               PROVE  errorCount' > 0
    BY DEF HandsOn
  <2>1. u \in Reach(<<"default", v, d>>)
    BY <1>3, <1>4
  <2>2. d \in 1..3
    BY <2>1, NoReach
  <2>3. u = v
    BY <1>1, <2>1, <2>2, ReachBasic
  <2> QED
    BY <1>2, <2>3 DEF GobTypes
<1>7. GobTypes' /\ FieldsOnce' /\ GoesOn' /\ CountedAhead'
  BY <1>1, <1>5, <1>6, NothingNew, OtherKeeps
<1>8. Counting'
  BY <1>1, <1>2 DEF Counting, GobTypes
<1>9. DecodedCounted'
  BY <1>1, <1>5 DEF DecodedCounted, GobTypes
<1> QED
  BY <1>7, <1>8, <1>9

LEMMA PanicKeeps ==
  ASSUME GobInv, NEW g \in Goroutines, Panic(g)
  PROVE  GobInv'
<1> USE DEF GobInv
<1>1. UNCHANGED <<checked, errorCount, work, nonDefault, complaints, warnings, asked, decoded>>
  BY DEF Panic
<1> QED
  BY <1>1, SameGob

LEMMA GobDecodeKeeps ==
  ASSUME GobInv, NEW g \in Goroutines, GobDecode(g)
  PROVE  GobInv'
<1> USE DEF GobInv
<1> DEFINE v == Task(g)[2]
<1>1. /\ work[g] # <<>> /\ Task(g)[1] = "decode" /\ Then(g, <<>>)
      /\ decoded' = decoded \cup {v}
      /\ UNCHANGED <<checked, errorCount, nonDefault, complaints, warnings, asked>>
  BY DEF GobDecode, Doing, Task
<1>2. Task(g) \in AllTasks /\ \A x : At(g, 1, x) <=> x = Task(g)
  BY <1>1, AtHead
<1>3. v \in Values /\ Task(g) = <<"decode", v>>
  BY <1>1, <1>2, TaskForms
<1>4. errorCount' \in Nat /\ errorCount' >= errorCount /\ warnings' \in Nat
       /\ decoded' \subseteq Values
  BY <1>1, <1>3 DEF GobTypes
<1>5. HandsOn(g, <<>>)
  BY <1>1, <1>2, NoReach DEF HandsOn
<1>6. GobTypes' /\ FieldsOnce' /\ GoesOn' /\ CountedAhead'
  BY <1>1, <1>4, <1>5, NothingNew, OtherKeeps
<1>7. Counting'
  BY <1>1 DEF Counting
<1>8. Shallow(v) \cap nonDefault # {} => errorCount > 0
  <2> SUFFICES ASSUME ~(errorCount > 0), NEW u \in Shallow(v) \cap nonDefault
               PROVE  FALSE
    OBVIOUS
  <2>1. 1 \in Nat /\ At(g, 1, <<"decode", v>>)
    BY <1>2, <1>3
  <2>2. PICK m \in 1..1, x \in AllTasks : At(g, m, x) /\ u \in Reach(x)
    BY <1>3, <2>1 DEF CountedAhead
  <2>3. x = Task(g)
    BY <1>2, <2>2
  <2> QED
    BY <1>1, <2>2, <2>3, NoReach
<1>9. DecodedCounted'
  BY <1>1, <1>8 DEF DecodedCounted
<1> QED
  BY <1>6, <1>7, <1>9

LEMMA InitGob == Init => GobInv
<1> SUFFICES ASSUME Init PROVE GobInv
  OBVIOUS
<1> USE DEF Init
<1>1. \A g \in Goroutines, n \in Nat : \A x : ~At(g, n, x)
  BY DEF At
<1>2. GobTypes
  <2>1. <<>> \in Seq(AllTasks)
    OBVIOUS
  <2> QED
    BY <2>1 DEF GobTypes
<1>3. FieldsOnce /\ GoesOn /\ CountedAhead
  BY <1>1 DEF FieldsOnce, GoesOn, CountedAhead
<1>4. Counting /\ DecodedCounted
  BY DEF Counting, DecodedCounted
<1> QED
  BY <1>2, <1>3, <1>4 DEF GobInv

LEMMA NextGob ==
  ASSUME GobInv, [Next]_vars
  PROVE  GobInv'
<1>1. CASE UNCHANGED vars
  BY <1>1, SameGob DEF vars
<1>2. CASE Next
  BY <1>2, EncodeKeeps, DecodeKeeps, CheckTypeKeeps, FieldKeeps, CheckDefaultKeeps,
     WarnKeeps, PanicKeeps, GobDecodeKeeps DEF Next, Step
<1> QED
  BY <1>1, <1>2

\* When all goroutines have finished, the table is closed and nothing is
\* pending: every field that can occur has been looked at.
LEMMA GobReports == GobInv => ReportsRight
<1> SUFFICES ASSUME GobInv PROVE ReportsRight
  OBVIOUS
<1> USE DEF GobInv
<1>1. \A f \in Lower : complaints[f] <= 1
  BY DEF FieldsOnce
<1>2. ASSUME \A g \in Goroutines : work[g] = <<>>, NEW f \in Lower, Occurs(f[1])
      PROVE  complaints[f] = 1
  <2>1. \A x : ~Pending(x)
    BY <1>2 DEF Pending, At
  <2>2. checked \in SUBSET Types /\ asked \subseteq checked
    BY <2>1 DEF GoesOn, GobTypes
  <2>3. Closed(checked)
    BY <2>1 DEF GoesOn, Closed
  <2>4. f[1] \in checked
    BY <1>2, <2>2, <2>3 DEF Occurs
  <2>5. f[2] \in DOMAIN Kids[f[1]] /\ f = <<f[1], f[2]>>
    BY LowerForm
  <2>6. complaints[<<f[1], f[2]>>] = 1
    BY <2>1, <2>4, <2>5 DEF GoesOn
  <2> QED
    BY <2>5, <2>6
<1>3. ComplainOnce
  BY <1>1, <1>2 DEF ComplainOnce
<1>4. WarnsFirst
  BY DEF WarnsFirst, Counting, DecodedCounted, GobTypes
<1> QED
  BY <1>3, <1>4 DEF ReportsRight

(* However many goroutines check the same types and decode at the same     *)
(* time, every lower-case field that can occur is complained about exactly *)
(* once, checkDefault warns of the first error of all and of no other, and *)
(* every decoding into a non-default variable is counted: for any types    *)
(* (recursive ones too), values and numbers of goroutines and operations.  *)
THEOREM ReportsHold == AnySpec => []ReportsRight
<1>1. AnyInit => GobInv
  BY InitGob DEF AnyInit
<1>2. GobInv /\ [AnyNext]_all => GobInv'
  <2> SUFFICES ASSUME GobInv, [AnyNext]_all PROVE GobInv'
    OBVIOUS
  <2>1. [Next]_vars
    BY DEF AnyNext, all
  <2> QED
    BY <2>1, NextGob
<1> QED
  BY <1>1, <1>2, GobReports, PTL DEF AnySpec
=============================================================================
