-------------------------- MODULE CheckSingleProofs --------------------------
(***************************************************************************)
(* Proofs about the search of checkSingle, for every bound on the number   *)
(* of operations and every set of invocations.                             *)
(***************************************************************************)
EXTENDS CheckSingle, FiniteSetTheorems, NaturalsInduction, WellFoundedInduction, TLAPS

\* Every set of natural numbers that is not empty has a least element.
LEMMA LeastExists ==
  ASSUME NEW S \in SUBSET Nat, S # {}
  PROVE  \E x \in S : \A y \in S : x <= y
<1> DEFINE Less == {p \in Nat \X Nat : p[1] < p[2]}
<1>1. IsWellFoundedOn(Less, Nat)
  BY NatLessThanWellFounded DEF OpToRel
<1>2. \A a, b \in Nat : <<a, b>> \in Less <=> a < b
  OBVIOUS
<1> HIDE DEF Less
<1>3. PICK x \in S : \A y \in S : <<y, x>> \notin Less
  BY <1>1, WFMin
<1>4. \A y \in S : ~(y < x)
  BY <1>2, <1>3
<1>5. \A y \in S : x <= y
  BY <1>4
<1> QED
  BY <1>5

IsRun(ops, s, k, g) ==
  g = [m \in 0..k |-> IF m = 0 THEN InitState ELSE StepState(g[m-1], ops[s[m]].input)]

\* The same without the equation.
Run(ops, s, k, g) ==
  /\ DOMAIN g = 0..k
  /\ g = [m \in 0..k |-> g[m]]
  /\ g[0] = InitState
  /\ \A m \in 1..k : g[m] = StepState(g[m-1], ops[s[m]].input)

LEMMA RunIs ==
  ASSUME NEW ops, NEW s, NEW k \in Nat, NEW g
  PROVE  IsRun(ops, s, k, g) <=> Run(ops, s, k, g)
<1>1. ASSUME IsRun(ops, s, k, g) PROVE Run(ops, s, k, g)
  <2>1. DOMAIN g = 0..k /\ g = [m \in 0..k |-> g[m]]
    BY <1>1, Zenon DEF IsRun
  <2>2. \A m \in 0..k : g[m] = IF m = 0 THEN InitState ELSE StepState(g[m-1], ops[s[m]].input)
    BY <1>1, Zenon DEF IsRun
  <2>3. 0 \in 0..k /\ \A m \in 1..k : m \in 0..k /\ m # 0
    OBVIOUS
  <2>4. g[0] = InitState
    BY <2>2, <2>3, Zenon
  <2>5. \A m \in 1..k : g[m] = StepState(g[m-1], ops[s[m]].input)
    BY <2>2, <2>3, Zenon
  <2> QED
    BY <2>1, <2>4, <2>5, Zenon DEF Run
<1>2. ASSUME Run(ops, s, k, g) PROVE IsRun(ops, s, k, g)
  <2>0. \A m \in 0..k : m = 0 \/ m \in 1..k
    OBVIOUS
  <2>1. \A m \in 0..k : g[m] = IF m = 0 THEN InitState ELSE StepState(g[m-1], ops[s[m]].input)
    BY <1>2, <2>0, Zenon DEF Run
  <2>2. g = [m \in 0..k |-> g[m]]
    BY <1>2 DEF Run
  <2> QED
    BY <2>1, <2>2, Zenon DEF IsRun
<1> QED
  BY <1>1, <1>2

LEMMA RunLonger ==
  ASSUME NEW ops, NEW s, NEW k \in Nat, NEW g, Run(ops, s, k, g)
  PROVE  \E h : Run(ops, s, k+1, h)
<1> DEFINE h == [m \in 0..(k+1) |-> IF m = k+1 THEN StepState(g[k], ops[s[k+1]].input) ELSE g[m]]
<1>1. DOMAIN h = 0..(k+1) /\ h = [m \in 0..(k+1) |-> h[m]]
  OBVIOUS
<1>2. \A m \in 0..k : h[m] = g[m]
  OBVIOUS
<1>3. h[k+1] = StepState(g[k], ops[s[k+1]].input)
  OBVIOUS
<1>4. h[0] = InitState
  BY <1>2 DEF Run
<1> HIDE DEF h
<1>5. ASSUME NEW m \in 1..(k+1) PROVE h[m] = StepState(h[m-1], ops[s[m]].input)
  <2>1. CASE m = k+1
    <3>1. h[m-1] = g[k]
      BY <2>1, <1>2
    <3> QED
      BY <2>1, <3>1, <1>3
  <2>2. CASE m # k+1
    <3>1. m \in 1..k /\ m-1 \in 0..k /\ m \in 0..k
      BY <2>2
    <3>2. g[m] = StepState(g[m-1], ops[s[m]].input)
      BY <3>1, Zenon DEF Run
    <3>3. h[m] = g[m] /\ h[m-1] = g[m-1]
      BY <3>1, <1>2, Zenon
    <3> QED
      BY <3>2, <3>3, Zenon
  <2> QED
    BY <2>1, <2>2
<1> QED
  BY <1>1, <1>4, <1>5 DEF Run

LEMMA RunExists ==
  ASSUME NEW ops, NEW s, NEW k \in Nat
  PROVE  \E g : Run(ops, s, k, g)
<1> DEFINE bad == {x \in Nat : ~ \E g : Run(ops, s, x, g)}
<1> SUFFICES ASSUME bad # {} PROVE FALSE
  OBVIOUS
<1>1. PICK x \in bad : \A y \in bad : x <= y
  BY LeastExists
<1>2. \E g : Run(ops, s, 0, g)
  <2> DEFINE h == [m \in 0..0 |-> InitState]
  <2>1. Run(ops, s, 0, h)
    BY DEF Run
  <2> QED
    BY <2>1
<1>3. x \in Nat /\ x # 0
  BY <1>2
<1>4. x - 1 \in Nat /\ x - 1 \notin bad
  BY <1>1, <1>3
<1>5. PICK g : Run(ops, s, x - 1, g)
  BY <1>4
<1>6. \E h : Run(ops, s, (x - 1) + 1, h)
  BY <1>5, <1>4, RunLonger
<1> QED
  BY <1>6, <1>3

LEMMA RunUnique ==
  ASSUME NEW ops, NEW s, NEW t, NEW k \in Nat, NEW l \in Nat, NEW g, NEW h,
         Run(ops, s, k, g), Run(ops, t, l, h),
         NEW c \in Nat, c <= k, c <= l, \A m \in 1..c : s[m] = t[m]
  PROVE  g[c] = h[c]
<1> DEFINE bad == {x \in Nat : x <= c /\ g[x] # h[x]}
<1> SUFFICES ASSUME bad # {} PROVE FALSE
  OBVIOUS
<1>1. PICK x \in bad : \A y \in bad : x <= y
  BY LeastExists
<1>2. x # 0
  BY DEF Run
<1>3. g[x-1] = h[x-1] /\ x \in 1..c /\ x \in 1..k /\ x \in 1..l
  BY <1>1, <1>2
<1>4. g[x] = StepState(g[x-1], ops[s[x]].input) /\ h[x] = StepState(h[x-1], ops[t[x]].input)
  BY <1>3 DEF Run
<1> QED
  BY <1>3, <1>4

LEMMA StateAfterRun ==
  ASSUME NEW ops, NEW s, NEW k \in Nat
  PROVE  \E g : Run(ops, s, k, g) /\ StateAfter(ops, s, k) = g[k]
<1>1. \E h : IsRun(ops, s, k, h)
  BY RunExists, RunIs
<1>2. \E h : IsRun(ops, s, k, h) /\ StateAfter(ops, s, k) = h[k]
  BY <1>1, Zenon DEF StateAfter, IsRun
<1> QED
  BY <1>2, RunIs

\* StateAfter: from the initial state, one operation after the other.
LEMMA StateAfterFacts ==
  ASSUME NEW ops, NEW s
  PROVE  /\ StateAfter(ops, s, 0) = InitState
         /\ \A k \in Nat : StateAfter(ops, s, k + 1)
                             = StepState(StateAfter(ops, s, k), ops[s[k+1]].input)
<1>1. StateAfter(ops, s, 0) = InitState
  BY StateAfterRun DEF Run
<1>2. ASSUME NEW k \in Nat
      PROVE  StateAfter(ops, s, k + 1)
                             = StepState(StateAfter(ops, s, k), ops[s[k+1]].input)
  <2>1. PICK g : Run(ops, s, k, g) /\ StateAfter(ops, s, k) = g[k]
    BY StateAfterRun
  <2>2. PICK h : Run(ops, s, k + 1, h) /\ StateAfter(ops, s, k + 1) = h[k + 1]
    BY StateAfterRun
  <2>3. g[k] = h[k]
    BY <2>1, <2>2, RunUnique
  <2>4. k + 1 \in 1..(k + 1) /\ (k + 1) - 1 = k
    OBVIOUS
  <2>5. h[k + 1] = StepState(h[(k + 1) - 1], ops[s[k+1]].input)
    BY <2>2, <2>4, Zenon DEF Run
  <2>6. h[k + 1] = StepState(h[k], ops[s[k+1]].input)
    BY <2>4, <2>5, Zenon
  <2> QED
    BY <2>1, <2>2, <2>3, <2>6, Zenon
<1> QED
  BY <1>1, <1>2

\* It depends on the operations so far only.
LEMMA StateAfterPrefix ==
  ASSUME NEW ops, NEW s, NEW t, NEW k \in Nat, \A m \in 1..k : s[m] = t[m]
  PROVE  StateAfter(ops, s, k) = StateAfter(ops, t, k)
  BY StateAfterRun, RunUnique

\* Sequences without repetition: their length is the number of their members.
LEMMA OrderFacts ==
  ASSUME NEW c \in Nat, NEW s \in Orders(c)
  PROVE  /\ s \in Seq(1..c) /\ Len(s) \in 0..c /\ DOMAIN s = 1..Len(s) /\ s \in [1..Len(s) -> 1..c]
         /\ \A j, k \in 1..Len(s) : s[j] = s[k] => j = k
<1>1. PICK m \in 0..c : s \in [1..m -> 1..c] /\ \A j, k \in 1..m : s[j] = s[k] => j = k
  BY DEF Orders
<1>2. s \in Seq(1..c) /\ Len(s) = m
  BY <1>1
<1> QED
  BY <1>1, <1>2

LEMMA Distinct ==
  ASSUME NEW m \in Nat, NEW c \in Nat, NEW s \in [1..m -> 1..c],
         \A j, k \in 1..m : s[j] = s[k] => j = k
  PROVE  /\ IsFiniteSet({s[j] : j \in 1..m})
         /\ Cardinality({s[j] : j \in 1..m}) = m
<1> DEFINE R == {s[j] : j \in 1..m}
<1>1. s \in Bijection(1..m, R)
  BY DEF Bijection, Injection, Surjection, IsInjective
<1>2. IsFiniteSet(1..m) /\ Cardinality(1..m) = m
  BY FS_Interval
<1>3. IsFiniteSet(R) /\ Cardinality(R) = Cardinality(1..m)
  BY <1>1, <1>2, FS_Bijection DEF ExistsBijection
<1> QED
  BY <1>2, <1>3

\* No more of them than there are values, and fewer if one is missing.
LEMMA Pigeonhole ==
  ASSUME NEW m \in Nat, NEW c \in Nat, NEW s \in [1..m -> 1..c],
         \A j, k \in 1..m : s[j] = s[k] => j = k
  PROVE  /\ m <= c
         /\ (\E x \in 1..c : x \notin {s[j] : j \in 1..m}) => m < c
<1> DEFINE R == {s[j] : j \in 1..m}
<1>1. IsFiniteSet(R) /\ Cardinality(R) = m
  BY Distinct
<1>2. IsFiniteSet(1..c) /\ Cardinality(1..c) = c
  BY FS_Interval
<1>3. R \subseteq 1..c
  OBVIOUS
<1> HIDE DEF R
<1>4. Cardinality(R) <= Cardinality(1..c) /\ (Cardinality(R) = Cardinality(1..c) => R = 1..c)
  BY <1>2, <1>3, FS_Subset
<1>5. m <= c
  BY <1>1, <1>2, <1>4
<1>6. ASSUME NEW x \in 1..c, x \notin R PROVE m < c
  BY <1>1, <1>2, <1>4, <1>6
<1> QED
  BY <1>5, <1>6 DEF R

Nodes == 1..2*n
Lists == [next : [0..2*n -> 1..Nil], prev : [Nodes -> 0..2*n]]

\* q is the first node of S after p, or Nil; the last one before p, or the head.
IsNext(S, p, q) ==
  q \in S \cup {Nil} /\ p < q /\ \A r \in S : p < r => q <= r

IsPrev(S, p, q) ==
  q \in S \cup {0} /\ q < p /\ \A r \in S : r < p => r <= q

Fits(l, S, p) == IsNext(S, p, l.next[p]) /\ IsPrev(S, p, l.prev[p])

\* The list l links the nodes of S.
Linked(l, S) ==
  IsNext(S, 0, l.next[0]) /\ \A p \in S : Fits(l, S, p)

LEMMA UnlinkLinks ==
  ASSUME n \in Nat, NEW l \in Lists, NEW S \in SUBSET Nodes, NEW p \in S, Linked(l, S)
  PROVE  /\ Unlink(l, p) \in Lists
         /\ Linked(Unlink(l, p), S \ {p})
         /\ \A q \in Nodes \ (S \ {p}) :
              Unlink(l, p).next[q] = l.next[q] /\ Unlink(l, p).prev[q] = l.prev[q]
<1> DEFINE a == l.prev[p]
           b == l.next[p]
           u == Unlink(l, p)
<1>1. /\ Nil \in Nat /\ Nodes \subseteq Nat /\ 0 \notin Nodes /\ \A q \in Nodes : q < Nil
      /\ \A q \in S : q \in Nat /\ 0 < q /\ q < Nil /\ q # Nil /\ q \in Nodes
  BY DEF Nil, Nodes
<1>2. a \in (S \cup {0}) \ {p} /\ a < p /\ \A r \in S : r < p => r <= a
  BY <1>1 DEF Linked, Fits, IsPrev
<1>3. b \in (S \cup {Nil}) \ {p} /\ p < b /\ \A r \in S : p < r => b <= r
  BY <1>1 DEF Linked, Fits, IsNext
<1>4. l.next \in [0..2*n -> 1..Nil] /\ l.prev \in [Nodes -> 0..2*n]
  BY DEF Lists
<1>5. a \in 0..2*n /\ b \in 1..Nil /\ (b # Nil => b \in Nodes)
  <2>1. 0 \in 0..2*n /\ Nil \in 1..Nil /\ \A q \in S : q \in 0..2*n /\ q \in 1..Nil
    BY DEF Nil, Nodes
  <2> QED
    BY <2>1, <1>1, <1>2, <1>3
<1>6. u.next = [l.next EXCEPT ![a] = b]
  BY DEF Unlink
<1>7. u.prev = IF b = Nil THEN l.prev ELSE [l.prev EXCEPT ![b] = a]
  BY DEF Unlink
<1>8. u \in Lists
  <2>1. u.next \in [0..2*n -> 1..Nil]
    BY <1>4, <1>5, <1>6
  <2>2. u.prev \in [Nodes -> 0..2*n]
    BY <1>4, <1>5, <1>7
  <2>3. u = [next |-> u.next, prev |-> u.prev]
    BY DEF Unlink
  <2> QED
    BY <2>1, <2>2, <2>3 DEF Lists
<1>9. \A q \in 0..2*n : u.next[q] = IF q = a THEN b ELSE l.next[q]
  BY <1>4, <1>6
<1>10. \A q \in Nodes : u.prev[q] = IF b # Nil /\ q = b THEN a ELSE l.prev[q]
  BY <1>4, <1>7
<1> HIDE DEF u, a, b
<1>11. 0 \in 0..2*n /\ Nodes \subseteq 0..2*n
  BY DEF Nodes
<1>12. ASSUME NEW q \in (S \ {p}) \cup {0} PROVE IsNext(S \ {p}, q, u.next[q])
  <2>1. IsNext(S, q, l.next[q])
    BY DEF Linked, Fits
  <2>2. CASE q = a
    <3>1. u.next[q] = b
      BY <2>2, <1>1, <1>9, <1>11
    <3>2. q < b
      BY <2>2, <1>1, <1>2, <1>3
    <3>3. ASSUME NEW r \in S \ {p}, q < r PROVE b <= r
      BY <2>2, <3>3, <1>1, <1>2, <1>3
    <3> QED
      BY <3>1, <3>2, <3>3, <1>3 DEF IsNext
  <2>3. CASE q # a
    <3>1. u.next[q] = l.next[q]
      BY <2>3, <1>9, <1>11
    <3>2. l.next[q] # p
      BY <2>1, <2>3, <1>1, <1>2 DEF IsNext
    <3> QED
      BY <2>1, <3>1, <3>2 DEF IsNext
  <2> QED
    BY <2>2, <2>3
<1>13. ASSUME NEW q \in S \ {p} PROVE IsPrev(S \ {p}, q, u.prev[q])
  <2>1. IsPrev(S, q, l.prev[q])
    BY DEF Linked, Fits
  <2>2. CASE q = b
    <3>1. u.prev[q] = a
      BY <2>2, <1>1, <1>10
    <3>2. a < q
      BY <2>2, <1>1, <1>2, <1>3
    <3>3. ASSUME NEW r \in S \ {p}, r < q PROVE r <= a
      BY <2>2, <3>3, <1>1, <1>2, <1>3
    <3> QED
      BY <3>1, <3>2, <3>3, <1>2 DEF IsPrev
  <2>3. CASE q # b
    <3>1. u.prev[q] = l.prev[q]
      BY <2>3, <1>10, <1>11
    <3>2. l.prev[q] # p
      <4> SUFFICES ASSUME l.prev[q] = p PROVE FALSE
        OBVIOUS
      <4>1. p < q
        BY <2>1 DEF IsPrev
      <4>2. b <= q /\ b \in S \cup {Nil} /\ p < b
        BY <4>1, <1>3
      <4>3. q \in Nat /\ b \in Nat /\ p \in Nat /\ q < Nil
        BY <4>2, <1>1
      <4>4. b < q /\ b \in S
        BY <4>2, <4>3, <2>3
      <4>5. b <= p
        BY <4>4, <2>1 DEF IsPrev
      <4> QED
        BY <4>2, <4>3, <4>5
    <3> QED
      BY <2>1, <3>1, <3>2 DEF IsPrev
  <2> QED
    BY <2>2, <2>3
<1>14. Linked(u, S \ {p})
  BY <1>12, <1>13 DEF Linked, Fits
<1>15. ASSUME NEW q \in Nodes \ (S \ {p}) PROVE u.next[q] = l.next[q] /\ u.prev[q] = l.prev[q]
  BY <1>1, <1>2, <1>3, <1>9, <1>10, <1>11
<1> QED
  BY <1>8, <1>14, <1>15 DEF u

LEMMA RelinkLinks ==
  ASSUME n \in Nat, NEW l \in Lists, NEW S \in SUBSET Nodes, NEW p \in S,
         Linked(l, S \ {p}), Fits(l, S, p)
  PROVE  /\ Relink(l, p) \in Lists
         /\ Linked(Relink(l, p), S)
         /\ \A q \in Nodes \ (S \ {p}) :
              Relink(l, p).next[q] = l.next[q] /\ Relink(l, p).prev[q] = l.prev[q]
<1> DEFINE a == l.prev[p]
           b == l.next[p]
           u == Relink(l, p)
<1>1. /\ Nil \in Nat /\ Nodes \subseteq Nat /\ 0 \notin Nodes /\ \A q \in Nodes : q < Nil
      /\ \A q \in S : q \in Nat /\ 0 < q /\ q < Nil /\ q # Nil /\ q \in Nodes
  BY DEF Nil, Nodes
<1>2. a \in (S \cup {0}) \ {p} /\ a < p /\ \A r \in S : r < p => r <= a
  BY <1>1 DEF Fits, IsPrev
<1>3. b \in (S \cup {Nil}) \ {p} /\ p < b /\ \A r \in S : p < r => b <= r
  BY <1>1 DEF Fits, IsNext
<1>4. l.next \in [0..2*n -> 1..Nil] /\ l.prev \in [Nodes -> 0..2*n]
  BY DEF Lists
<1>5. a \in 0..2*n /\ b \in 1..Nil /\ (b # Nil => b \in Nodes) /\ p \in 1..Nil /\ p \in 0..2*n
  <2>1. 0 \in 0..2*n /\ Nil \in 1..Nil /\ \A q \in S : q \in 0..2*n /\ q \in 1..Nil
    BY DEF Nil, Nodes
  <2> QED
    BY <2>1, <1>1, <1>2, <1>3
<1>6. u.next = [l.next EXCEPT ![a] = p]
  BY DEF Relink
<1>7. u.prev = IF b = Nil THEN l.prev ELSE [l.prev EXCEPT ![b] = p]
  BY DEF Relink
<1>8. u \in Lists
  <2>1. u.next \in [0..2*n -> 1..Nil]
    BY <1>4, <1>5, <1>6
  <2>2. u.prev \in [Nodes -> 0..2*n]
    BY <1>4, <1>5, <1>7
  <2>3. u = [next |-> u.next, prev |-> u.prev]
    BY DEF Relink
  <2> QED
    BY <2>1, <2>2, <2>3 DEF Lists
<1>9. \A q \in 0..2*n : u.next[q] = IF q = a THEN p ELSE l.next[q]
  BY <1>4, <1>6
<1>10. \A q \in Nodes : u.prev[q] = IF b # Nil /\ q = b THEN p ELSE l.prev[q]
  BY <1>4, <1>7
<1>f. IsNext(S, p, b) /\ IsPrev(S, p, a)
  BY DEF Fits
<1> HIDE DEF u, a, b
<1>11. 0 \in 0..2*n /\ Nodes \subseteq 0..2*n
  BY DEF Nodes
<1>12. ASSUME NEW q \in S \cup {0} PROVE IsNext(S, q, u.next[q])
  <2>1. q # p => IsNext(S \ {p}, q, l.next[q])
    BY <1>1 DEF Linked, Fits
  <2>2. CASE q = a
    <3>1. u.next[q] = p
      BY <2>2, <1>1, <1>9, <1>11
    <3>2. q < p
      BY <2>2, <1>2
    <3>3. ASSUME NEW r \in S, q < r PROVE p <= r
      BY <2>2, <3>3, <1>1, <1>2
    <3> QED
      BY <3>1, <3>2, <3>3 DEF IsNext
  <2>3. CASE q = p
    BY <2>3, <1>f, <1>2, <1>9, <1>11 DEF b
  <2>4. CASE q # a /\ q # p
    <3>1. u.next[q] = l.next[q]
      BY <2>4, <1>9, <1>11
    <3>2. q < p => l.next[q] <= a /\ l.next[q] < p
      <4> SUFFICES ASSUME q < p PROVE l.next[q] <= a /\ l.next[q] < p
        OBVIOUS
      <4>1. q \in Nat /\ a \in Nat /\ p \in Nat
        BY <1>1, <1>2
      <4>2. q <= a
        BY <4>1, <1>1, <1>2
      <4>3. q < a /\ a \in S \ {p}
        BY <4>1, <4>2, <2>4, <1>2
      <4>4. l.next[q] <= a /\ l.next[q] \in (S \ {p}) \cup {Nil}
        BY <4>3, <2>1, <2>4 DEF IsNext
      <4>5. l.next[q] \in Nat
        BY <4>4, <1>1
      <4> QED
        BY <4>4, <4>5, <4>1, <1>2
    <3>3. l.next[q] \in S \cup {Nil} /\ q < l.next[q] /\ \A r \in S \ {p} : q < r => l.next[q] <= r
      BY <2>1, <2>4 DEF IsNext
    <3>4. q < p => l.next[q] <= p
      <4>1. l.next[q] \in Nat /\ p \in Nat
        BY <3>3, <1>1
      <4> QED
        BY <3>2, <4>1
    <3> QED
      BY <3>1, <3>3, <3>4 DEF IsNext
  <2> QED
    BY <2>2, <2>3, <2>4
<1>13. ASSUME NEW q \in S PROVE IsPrev(S, q, u.prev[q])
  <2>1. q # p => IsPrev(S \ {p}, q, l.prev[q])
    BY <1>1 DEF Linked, Fits
  <2>2. CASE q = b
    BY <2>1, <2>2, <1>1, <1>2, <1>3, <1>10, <1>11 DEF IsPrev
  <2>3. CASE q = p
    BY <2>3, <1>f, <1>3, <1>10, <1>11 DEF a
  <2>4. CASE q # b /\ q # p
    <3>1. u.prev[q] = l.prev[q]
      BY <2>4, <1>10, <1>11
    <3>2. p < q => b <= l.prev[q] /\ p < l.prev[q]
      <4> SUFFICES ASSUME p < q PROVE b <= l.prev[q] /\ p < l.prev[q]
        OBVIOUS
      <4>1. q \in Nat /\ b \in Nat /\ p \in Nat /\ q < Nil
        BY <1>1, <1>3
      <4>2. b <= q
        BY <1>1, <1>3
      <4>3. b < q /\ b \in S \ {p}
        BY <4>1, <4>2, <2>4, <1>3
      <4>4. b <= l.prev[q] /\ l.prev[q] \in (S \ {p}) \cup {0}
        BY <4>3, <2>1, <2>4 DEF IsPrev
      <4>5. l.prev[q] \in Nat
        BY <1>1, <1>4
      <4> QED
        BY <4>4, <4>5, <4>1, <1>3
    <3>3. l.prev[q] \in S \cup {0} /\ l.prev[q] < q /\ \A r \in S \ {p} : r < q => r <= l.prev[q]
      BY <2>1, <2>4 DEF IsPrev
    <3>4. p < q => p <= l.prev[q]
      <4>1. l.prev[q] \in Nat /\ p \in Nat
        BY <1>1, <1>4
      <4> QED
        BY <3>2, <4>1
    <3> QED
      BY <3>1, <3>3, <3>4 DEF IsPrev
  <2> QED
    BY <2>2, <2>3, <2>4
<1>14. Linked(u, S)
  BY <1>12, <1>13 DEF Linked, Fits
<1>15. ASSUME NEW q \in Nodes \ (S \ {p}) PROVE u.next[q] = l.next[q] /\ u.prev[q] = l.prev[q]
  BY <1>1, <1>2, <1>3, <1>9, <1>10, <1>11
<1> QED
  BY <1>8, <1>14, <1>15 DEF u

\* The entries of a history: every operation has its call, later its return,
\* each in one place, and the order respects real time.
EntriesOK ==
  /\ n \in Nat
  /\ entries \in [Nodes -> {"call", "return"} \X Ids]
  /\ \A i \in Ids : \E p, q \in Nodes :
       p < q /\ entries[p] = <<"call", i>> /\ entries[q] = <<"return", i>>
  /\ \A p, q \in Nodes : entries[p] = entries[q] => p = q
  /\ \A a, b \in Ids : Before(a, b) =>
       \A p, q \in Nodes : entries[p] = <<"return", a>> /\ entries[q] = <<"call", b>> => p < q

LEMMA EntryFacts ==
  ASSUME EntriesOK, NEW p \in Nodes
  PROVE  /\ Id(p) \in Ids
         /\ entries[p] = IF IsCall(p) THEN <<"call", Id(p)>> ELSE <<"return", Id(p)>>
<1>1. PICK a \in {"call", "return"}, i \in Ids : entries[p] = <<a, i>>
  BY DEF EntriesOK
<1> QED
  BY <1>1 DEF Id, IsCall

LEMMA MatchFacts ==
  ASSUME EntriesOK, NEW p \in Nodes
  PROVE  /\ Match(p) \in Nodes /\ Id(Match(p)) = Id(p) /\ ~IsCall(Match(p))
         /\ IsCall(p) => p < Match(p)
<1>1. Id(p) \in Ids
  BY EntryFacts
<1>2. PICK c, r \in Nodes : c < r /\ entries[c] = <<"call", Id(p)>> /\ entries[r] = <<"return", Id(p)>>
  BY <1>1 DEF EntriesOK
<1>3. Match(p) \in Nodes /\ entries[Match(p)] = <<"return", Id(p)>>
  BY <1>2, Zenon DEF Match, Nodes
<1>4. Match(p) = r
  BY <1>2, <1>3, Zenon DEF EntriesOK
<1>5. IsCall(p) => p = c
  BY <1>2, EntryFacts, Zenon DEF EntriesOK
<1>6. Id(Match(p)) = Id(p) /\ ~IsCall(Match(p))
  BY <1>3 DEF Id, IsCall
<1> QED
  BY <1>2, <1>3, <1>4, <1>5, <1>6

LEMMA SameId ==
  ASSUME EntriesOK, NEW p \in Nodes, NEW q \in Nodes, Id(p) = Id(q), IsCall(p)
  PROVE  q = p \/ q = Match(p)
<1>1. entries[p] = <<"call", Id(p)>>
  BY EntryFacts
<1>2. entries[Match(p)] = <<"return", Id(p)>> /\ Match(p) \in Nodes
  BY MatchFacts, EntryFacts
<1>3. entries[q] = <<"call", Id(p)>> \/ entries[q] = <<"return", Id(p)>>
  BY EntryFacts
<1> QED
  BY <1>1, <1>2, <1>3 DEF EntriesOK

LEMMA EntriesBeforeIs ==
  ASSUME EntriesOK, NEW p \in Nodes, NEW q \in Nodes, ~IsCall(p), IsCall(q)
  PROVE  EntriesBefore(Id(p), Id(q)) <=> p < q
<1>1. entries[p] = <<"return", Id(p)>> /\ entries[q] = <<"call", Id(q)>>
  BY EntryFacts
<1>2. Position(<<"return", Id(p)>>) = p
  BY <1>1, Zenon DEF Position, EntriesOK, Nodes
<1>3. Position(<<"call", Id(q)>>) = q
  BY <1>1, Zenon DEF Position, EntriesOK, Nodes
<1> QED
  BY <1>2, <1>3, Zenon DEF EntriesBefore

\* What is before in time is before among the entries.
LEMMA BeforeIsEntriesBefore ==
  ASSUME EntriesOK, NEW a \in Ids, NEW b \in Ids, Before(a, b)
  PROVE  EntriesBefore(a, b)
<1>1. PICK r \in Nodes : entries[r] = <<"return", a>>
  BY DEF EntriesOK
<1>2. PICK c \in Nodes : entries[c] = <<"call", b>>
  BY DEF EntriesOK
<1>3. r < c
  BY <1>1, <1>2 DEF EntriesOK
<1>4. Id(r) = a /\ ~IsCall(r) /\ Id(c) = b /\ IsCall(c)
  BY <1>1, <1>2 DEF Id, IsCall
<1> QED
  BY <1>3, <1>4, EntriesBeforeIs

LEMMA LiftLinks ==
  ASSUME EntriesOK, NEW l \in Lists, NEW S \in SUBSET Nodes, NEW p \in S,
         IsCall(p), Match(p) \in S, Linked(l, S)
  PROVE  /\ Lift(l, p) \in Lists
         /\ Linked(Lift(l, p), S \ {p, Match(p)})
         /\ Fits(Lift(l, p), S, p) /\ Fits(Lift(l, p), S \ {p}, Match(p))
         /\ \A q \in Nodes \ S :
              Lift(l, p).next[q] = l.next[q] /\ Lift(l, p).prev[q] = l.prev[q]
<1> DEFINE m == Match(p)
           u == Unlink(l, p)
           v == Unlink(u, m)
<1>1. n \in Nat /\ p \in Nodes /\ m \in Nodes /\ p # m
  BY MatchFacts, EntryFacts DEF EntriesOK
<1>2. /\ u \in Lists /\ Linked(u, S \ {p})
      /\ \A q \in Nodes \ (S \ {p}) : u.next[q] = l.next[q] /\ u.prev[q] = l.prev[q]
  BY <1>1, UnlinkLinks
<1>3. S \ {p} \in SUBSET Nodes /\ m \in S \ {p}
  BY <1>1
<1> HIDE DEF u, m
<1>4. /\ v \in Lists /\ Linked(v, (S \ {p}) \ {m})
      /\ \A q \in Nodes \ ((S \ {p}) \ {m}) : v.next[q] = u.next[q] /\ v.prev[q] = u.prev[q]
  BY <1>1, <1>2, <1>3, UnlinkLinks
<1> HIDE DEF v
<1>5. v = Lift(l, p)
  BY DEF v, u, m, Lift
<1>6. (S \ {p}) \ {m} = S \ {p, m}
  OBVIOUS
<1>7. Fits(v, S, p)
  <2>1. v.next[p] = l.next[p] /\ v.prev[p] = l.prev[p]
    BY <1>1, <1>2, <1>4
  <2> QED
    BY <2>1 DEF Linked, Fits
<1>8. Fits(v, S \ {p}, m)
  <2>1. v.next[m] = u.next[m] /\ v.prev[m] = u.prev[m]
    BY <1>1, <1>4
  <2> QED
    BY <2>1, <1>2, <1>3 DEF Linked, Fits
<1>9. \A q \in Nodes \ S : v.next[q] = l.next[q] /\ v.prev[q] = l.prev[q]
  BY <1>2, <1>4
<1> QED
  BY <1>4, <1>5, <1>6, <1>7, <1>8, <1>9 DEF m

LEMMA UnliftLinks ==
  ASSUME EntriesOK, NEW l \in Lists, NEW S \in SUBSET Nodes, NEW p \in S,
         IsCall(p), Match(p) \in S, Linked(l, S \ {p, Match(p)}),
         Fits(l, S, p), Fits(l, S \ {p}, Match(p))
  PROVE  /\ Unlift(l, p) \in Lists
         /\ Linked(Unlift(l, p), S)
         /\ \A q \in Nodes \ S :
              Unlift(l, p).next[q] = l.next[q] /\ Unlift(l, p).prev[q] = l.prev[q]
<1> DEFINE m == Match(p)
           u == Relink(l, m)
           v == Relink(u, p)
<1>1. n \in Nat /\ p \in Nodes /\ m \in Nodes /\ p # m
  BY MatchFacts, EntryFacts DEF EntriesOK
<1>2. S \ {p} \in SUBSET Nodes /\ m \in S \ {p} /\ (S \ {p}) \ {m} = S \ {p, m}
  BY <1>1
<1>3. Linked(l, (S \ {p}) \ {m}) /\ Fits(l, S \ {p}, m)
  BY <1>2
<1> HIDE DEF m
<1>4. /\ u \in Lists /\ Linked(u, S \ {p})
      /\ \A q \in Nodes \ ((S \ {p}) \ {m}) : u.next[q] = l.next[q] /\ u.prev[q] = l.prev[q]
  BY <1>1, <1>2, <1>3, RelinkLinks
<1> HIDE DEF u
<1>5. Fits(u, S, p)
  <2>1. u.next[p] = l.next[p] /\ u.prev[p] = l.prev[p]
    BY <1>1, <1>4
  <2> QED
    BY <2>1 DEF Fits
<1>6. /\ v \in Lists /\ Linked(v, S)
      /\ \A q \in Nodes \ (S \ {p}) : v.next[q] = u.next[q] /\ v.prev[q] = u.prev[q]
  BY <1>1, <1>4, <1>5, RelinkLinks
<1> HIDE DEF v
<1>7. v = Unlift(l, p)
  BY DEF v, u, m, Unlift
<1>8. \A q \in Nodes \ S : v.next[q] = l.next[q] /\ v.prev[q] = l.prev[q]
  BY <1>4, <1>6
<1> QED
  BY <1>6, <1>7, <1>8

-----------------------------------------------------------------------------
(* The invariant.  Level k of the search is what it had chosen when k      *)
(* calls were on the stack: the operations, the entries left in the list,  *)
(* the state, and which entries of the list it has passed there.           *)

Lin(k)     == {Id(calls[j].entry) : j \in 1..k}
Rest(k)    == {p \in Nodes : Id(p) \notin Lin(k)}
StateAt(k) == IF k = Len(calls) THEN state ELSE calls[k+1].state
Config(k)  == <<Lin(k), StateAt(k)>>

\* The call q was refused: it does not fit, or leads to what was explored.
Refused(k, q) ==
  \/ ~StepOK(StateAt(k), history[Id(q)].input, history[Id(q)].output)
  \/ <<Lin(k) \cup {Id(q)}, StepState(StateAt(k), history[Id(q)].input)>> \in cache

Passed(k, p) == \A q \in Rest(k) : q < p => IsCall(q) /\ Refused(k, q)

Frame(k) ==
  LET e == calls[k].entry
  IN  /\ e \in Rest(k-1) /\ IsCall(e)
      /\ StepOK(calls[k].state, history[Id(e)].input, history[Id(e)].output)
      /\ StateAt(k) = StepState(calls[k].state, history[Id(e)].input)
      /\ Config(k) \in cache
      /\ Passed(k-1, e)
      /\ Fits(list, Rest(k-1), e) /\ Fits(list, Rest(k-1) \ {e}, Match(e))

StackOK ==
  /\ \E X : calls \in Seq([entry : Nodes, state : X])
  /\ StateAt(0) = InitState
  /\ \A k \in 1..Len(calls) : Frame(k)
  /\ linearized = Lin(Len(calls))

ListOK ==
  /\ list \in Lists /\ Linked(list, Rest(Len(calls)))
  /\ entry \in Rest(Len(calls)) \cup {Nil} /\ Passed(Len(calls), entry)

\* No operation of s has a longest prefix shorter than s.
Bounded(s) == \A k \in DOMAIN s : Len(s) <= Len(longest[s[k]])

Through(s, k) == <<{s[j] : j \in 1..k}, StateAfter(history, s, k)>>

\* All that can be reached from configuration c has been recorded.
Done(c) ==
  \A s \in PartialLinearizations(history, EntriesBefore) : \A k \in 0..Len(s) :
    c = Through(s, k) => Bounded(s)

CacheOK == \A c \in cache : (\E k \in 1..Len(calls) : c = Config(k)) \/ Done(c)

LongestOK ==
  /\ longest \in [Ids -> Seq(Ids)]
  /\ result # "true" => \A i \in Ids : Len(longest[i]) < n
  /\ PartialsReplay

ResultOK ==
  /\ result \in {"none", "true", "false"}
  /\ result = "true" => Rest(Len(calls)) = {} /\ longest = [i \in Ids |-> Chosen]
  /\ result = "false" /\ ~kill =>
       0 < n /\ \A s \in PartialLinearizations(history, EntriesBefore) : Bounded(s)

\* The inductive invariant.
SearchInv == EntriesOK /\ StackOK /\ ListOK /\ CacheOK /\ LongestOK /\ ResultOK

-----------------------------------------------------------------------------
(* What the stack says.                                                    *)

LEMMA CallsFacts ==
  ASSUME EntriesOK, StackOK
  PROVE  /\ Len(calls) \in Nat /\ DOMAIN calls = 1..Len(calls)
         /\ \A k \in 1..Len(calls) : calls[k].entry \in Nodes /\ Id(calls[k].entry) \in Ids
         /\ \A k \in 0..Len(calls) : Lin(k) \subseteq Ids
<1>1. PICK X : calls \in Seq([entry : Nodes, state : X])
  BY DEF StackOK
<1>2. Len(calls) \in Nat /\ DOMAIN calls = 1..Len(calls)
  BY <1>1
<1>3. ASSUME NEW k \in 1..Len(calls) PROVE calls[k].entry \in Nodes
  <2> DEFINE S == [entry : Nodes, state : X]
  <2>0. calls \in Seq(S)
    BY <1>1
  <2> HIDE DEF S
  <2>1. calls[k] \in S
    BY <2>0
  <2> USE DEF S
  <2> QED
    BY <2>1
<1>4. \A k \in 1..Len(calls) : Id(calls[k].entry) \in Ids
  BY <1>3, EntryFacts
<1>5. \A k \in 0..Len(calls) : Lin(k) \subseteq Ids
  BY <1>2, <1>4 DEF Lin
<1> QED
  BY <1>2, <1>3, <1>4, <1>5

LEMMA FrameFacts ==
  ASSUME StackOK, NEW k \in 1..Len(calls)
  PROVE  /\ calls[k].entry \in Rest(k-1) /\ IsCall(calls[k].entry)
         /\ StepOK(StateAt(k-1), history[Id(calls[k].entry)].input, history[Id(calls[k].entry)].output)
         /\ StateAt(k) = StepState(StateAt(k-1), history[Id(calls[k].entry)].input)
         /\ Config(k) \in cache
         /\ Passed(k-1, calls[k].entry)
         /\ Fits(list, Rest(k-1), calls[k].entry)
         /\ Fits(list, Rest(k-1) \ {calls[k].entry}, Match(calls[k].entry))
         /\ calls[k].state = StateAt(k-1)
<1>0. Frame(k)
  BY Zenon DEF StackOK
<1>1. Len(calls) \in Nat
  BY DEF StackOK
<1>2. k-1 # Len(calls) /\ (k-1) + 1 = k
  BY <1>1
<1>3. calls[k].state = StateAt(k-1)
  BY <1>2, Zenon DEF StateAt
<1> QED
  BY <1>0, <1>3, Zenon DEF Frame

LEMMA ChosenDistinct ==
  ASSUME EntriesOK, StackOK
  PROVE  /\ Chosen \in [1..Len(calls) -> Ids]
         /\ \A j, k \in 1..Len(calls) : Chosen[j] = Chosen[k] => j = k
         /\ \A k \in 0..Len(calls) : Lin(k) = {Chosen[j] : j \in 1..k}
         /\ \A k \in 1..Len(calls) : Chosen[k] = Id(calls[k].entry) /\ Chosen[k] \notin Lin(k-1)
                                     /\ Lin(k) = Lin(k-1) \cup {Chosen[k]}
         /\ \A j, k \in 0..Len(calls) : j <= k => Lin(j) \subseteq Lin(k)
<1>1. /\ Len(calls) \in Nat /\ DOMAIN calls = 1..Len(calls)
      /\ \A k \in 1..Len(calls) : calls[k].entry \in Nodes /\ Id(calls[k].entry) \in Ids
  BY CallsFacts
<1>2. Chosen \in [1..Len(calls) -> Ids] /\ \A k \in 1..Len(calls) : Chosen[k] = Id(calls[k].entry)
  BY <1>1 DEF Chosen
<1>3. \A k \in 0..Len(calls) : Lin(k) = {Chosen[j] : j \in 1..k}
  BY <1>1, <1>2 DEF Lin
<1>4. \A k \in 1..Len(calls) : Chosen[k] \notin Lin(k-1)
  BY <1>2, FrameFacts DEF Rest
<1>5. ASSUME NEW j \in 1..Len(calls), NEW k \in 1..Len(calls), j < k PROVE Chosen[j] # Chosen[k]
  <2>1. k-1 \in 0..Len(calls) /\ j \in 1..(k-1)
    BY <1>1, <1>5
  <2>2. Chosen[j] \in Lin(k-1)
    BY <2>1, <1>3
  <2> QED
    BY <2>2, <1>4
<1>6. \A j, k \in 1..Len(calls) : Chosen[j] = Chosen[k] => j = k
  <2> SUFFICES ASSUME NEW j \in 1..Len(calls), NEW k \in 1..Len(calls), Chosen[j] = Chosen[k]
               PROVE  j = k
    OBVIOUS
  <2>1. ~(j < k) /\ ~(k < j)
    BY <1>5
  <2> QED
    BY <1>1, <2>1
<1>7. ASSUME NEW k \in 1..Len(calls) PROVE Lin(k) = Lin(k-1) \cup {Chosen[k]}
  <2>1. k-1 \in 0..Len(calls) /\ k \in 0..Len(calls) /\ 1..k = (1..(k-1)) \cup {k}
    BY <1>1
  <2> QED
    BY <2>1, <1>3
<1>8. \A j, k \in 0..Len(calls) : j <= k => Lin(j) \subseteq Lin(k)
  BY <1>1 DEF Lin
<1> QED
  BY <1>2, <1>3, <1>4, <1>6, <1>7, <1>8

LEMMA ChosenOrder ==
  ASSUME EntriesOK, StackOK
  PROVE  Chosen \in Orders(n) /\ Len(Chosen) = Len(calls) /\ DOMAIN Chosen = 1..Len(calls)
         /\ Len(calls) \in Nat /\ Chosen \in Seq(Ids)
<1>1. Len(calls) \in Nat /\ n \in Nat
  BY CallsFacts DEF EntriesOK
<1>2. Chosen \in [1..Len(calls) -> 1..n] /\ \A j, k \in 1..Len(calls) : Chosen[j] = Chosen[k] => j = k
  BY ChosenDistinct DEF Ids
<1>3. Len(calls) <= n
  BY <1>1, <1>2, Pigeonhole
<1>4. Len(calls) \in 0..n
  BY <1>1, <1>3
<1>5. Chosen \in Orders(n)
  <2> DEFINE m == Len(calls)
  <2>1. Chosen \in {s \in [1..m -> 1..n] : \A j, k \in 1..m : s[j] = s[k] => j = k}
    BY <1>2
  <2> HIDE DEF m
  <2>2. m \in 0..n
    BY <1>4 DEF m
  <2> QED
    BY <2>1, <2>2 DEF Orders
<1>6. Len(Chosen) = Len(calls) /\ Chosen \in Seq(Ids) /\ DOMAIN Chosen = 1..Len(calls)
  BY <1>1, <1>2 DEF Ids
<1> QED
  BY <1>1, <1>5, <1>6

LEMMA ChosenStates ==
  ASSUME EntriesOK, StackOK, NEW k \in 0..Len(calls)
  PROVE  StateAfter(history, Chosen, k) = StateAt(k)
<1> DEFINE bad == {x \in Nat : x <= Len(calls) /\ StateAfter(history, Chosen, x) # StateAt(x)}
<1> SUFFICES ASSUME bad # {} PROVE FALSE
  BY CallsFacts
<1>1. PICK x \in bad : \A y \in bad : x <= y
  BY LeastExists
<1>2. StateAfter(history, Chosen, 0) = StateAt(0)
  BY StateAfterFacts, Zenon DEF StackOK
<1>3. x # 0
  BY <1>2
<1>4. x - 1 \in Nat /\ x \in 1..Len(calls) /\ x - 1 \notin bad /\ x - 1 <= Len(calls)
  BY <1>1, <1>3, CallsFacts
<1>5. StateAfter(history, Chosen, x - 1) = StateAt(x - 1)
  BY <1>4
<1>6. StateAfter(history, Chosen, (x - 1) + 1)
        = StepState(StateAfter(history, Chosen, x - 1), history[Chosen[(x - 1) + 1]].input)
  BY <1>4, StateAfterFacts, Zenon
<1>7. (x - 1) + 1 = x /\ Chosen[x] = Id(calls[x].entry)
  BY <1>4, ChosenDistinct
<1>8. StateAt(x) = StepState(StateAt(x - 1), history[Id(calls[x].entry)].input)
  BY <1>4, FrameFacts
<1>9. StateAfter(history, Chosen, x) = StateAt(x)
  BY <1>5, <1>6, <1>7, <1>8, Zenon
<1> QED
  BY <1>9

LEMMA ChosenLegal ==
  ASSUME EntriesOK, StackOK
  PROVE  Legal(history, Chosen)
<1> SUFFICES ASSUME NEW k \in DOMAIN Chosen
             PROVE  StepOK(StateAfter(history, Chosen, k-1), history[Chosen[k]].input, history[Chosen[k]].output)
  BY DEF Legal
<1>1. k \in 1..Len(calls) /\ k-1 \in 0..Len(calls)
  BY ChosenOrder
<1>2. StateAfter(history, Chosen, k-1) = StateAt(k-1) /\ Chosen[k] = Id(calls[k].entry)
  BY <1>1, ChosenStates, ChosenDistinct
<1>3. StepOK(StateAt(k-1), history[Id(calls[k].entry)].input, history[Id(calls[k].entry)].output)
  BY <1>1, FrameFacts
<1> QED
  BY <1>2, <1>3, Zenon

\* An operation is chosen when everything that must precede it is.
LEMMA ChosenRespects ==
  ASSUME EntriesOK, StackOK, NEW k \in DOMAIN Chosen, NEW a \in 1..n, EntriesBefore(a, Chosen[k])
  PROVE  \E j \in 1..(k-1) : Chosen[j] = a
<1>1. k \in 1..Len(calls) /\ k-1 \in 0..Len(calls)
  BY ChosenOrder
<1> DEFINE e == calls[k].entry
<1>2. e \in Nodes /\ IsCall(e) /\ Chosen[k] = Id(e) /\ Passed(k-1, e)
  BY <1>1, FrameFacts, CallsFacts, ChosenDistinct
<1>3. PICK r \in Nodes : entries[r] = <<"return", a>>
  BY DEF EntriesOK, Ids
<1>4. Id(r) = a /\ ~IsCall(r)
  BY <1>3 DEF Id, IsCall
<1>5. r < e
  BY <1>2, <1>4, EntriesBeforeIs
<1>6. r \notin Rest(k-1)
  BY <1>2, <1>4, <1>5 DEF Passed
<1>7. a \in Lin(k-1)
  BY <1>4, <1>6 DEF Rest
<1>8. Lin(k-1) = {Chosen[j] : j \in 1..(k-1)}
  BY <1>1, ChosenDistinct
<1> QED
  BY <1>7, <1>8

LEMMA ChosenPartial ==
  ASSUME EntriesOK, StackOK
  PROVE  /\ Chosen \in PartialLinearizations(history, EntriesBefore)
         /\ Chosen \in PartialLinearizations(history, Before)
<1>1. Chosen \in Orders(n) /\ Legal(history, Chosen)
  BY ChosenOrder, ChosenLegal
<1>2. \A k \in DOMAIN Chosen : \A a \in 1..n : EntriesBefore(a, Chosen[k]) => \E j \in 1..(k-1) : Chosen[j] = a
  BY ChosenRespects
<1>3. \A k \in DOMAIN Chosen : Chosen[k] \in Ids
  BY ChosenOrder, ChosenDistinct
<1>4. \A k \in DOMAIN Chosen : \A a \in 1..n : Before(a, Chosen[k]) => \E j \in 1..(k-1) : Chosen[j] = a
  BY <1>2, <1>3, BeforeIsEntriesBefore DEF Ids
<1>5. Respects(Chosen, n, EntriesBefore)
  BY <1>2, Zenon DEF Respects
<1>6. Respects(Chosen, n, Before)
  BY <1>4, Zenon DEF Respects
<1> QED
  BY <1>1, <1>5, <1>6, Zenon DEF PartialLinearizations, n

\* An operation that is in the list has both its entries there.
LEMMA RestFacts ==
  ASSUME EntriesOK, StackOK, NEW k \in 0..Len(calls)
  PROVE  /\ Rest(k) \subseteq Nodes
         /\ \A p \in Rest(k) : Match(p) \in Rest(k)
         /\ \A p \in Rest(k) : Id(p) \in Ids \ Lin(k)
<1>1. Rest(k) \subseteq Nodes
  BY DEF Rest
<1>2. \A p \in Rest(k) : Match(p) \in Rest(k)
  BY <1>1, MatchFacts DEF Rest
<1>3. \A p \in Rest(k) : Id(p) \in Ids \ Lin(k)
  BY <1>1, EntryFacts DEF Rest
<1> QED
  BY <1>1, <1>2, <1>3

LEMMA ListFacts ==
  ASSUME EntriesOK, StackOK, ListOK
  PROVE  /\ list.next[0] = Nil => Rest(Len(calls)) = {}
         /\ list.next[0] # Nil => entry \in Rest(Len(calls)) /\ Rest(Len(calls)) # {}
<1> DEFINE R == Rest(Len(calls))
<1>1. Len(calls) \in 0..Len(calls)
  BY CallsFacts
<1>2. R \subseteq Nodes /\ \A p \in R : Match(p) \in R
  BY <1>1, RestFacts
<1>3. IsNext(R, 0, list.next[0])
  BY DEF ListOK, Linked
<1>4. n \in Nat /\ \A q \in Nodes : q \in Nat /\ 0 < q /\ q < Nil /\ Nil \in Nat
  BY DEF EntriesOK, Nodes, Nil
<1>5. ASSUME list.next[0] = Nil PROVE R = {}
  <2> SUFFICES ASSUME NEW r \in R PROVE FALSE
    OBVIOUS
  <2>1. Nil <= r
    BY <1>2, <1>3, <1>4, <1>5 DEF IsNext
  <2> QED
    BY <2>1, <1>2, <1>4
<1>6. ASSUME list.next[0] # Nil PROVE entry \in R /\ R # {}
  <2> DEFINE p == list.next[0]
  <2>1. p \in R
    BY <1>3, <1>6 DEF IsNext
  <2>2. Match(p) \in R /\ ~IsCall(Match(p))
    BY <2>1, <1>2, MatchFacts
  <2>3. entry # Nil
    BY <2>2, <1>2, <1>4 DEF ListOK, Passed
  <2> QED
    BY <2>1, <2>3 DEF ListOK
<1> QED
  BY <1>5, <1>6

LEMMA PartialFacts ==
  ASSUME EntriesOK, NEW s \in PartialLinearizations(history, EntriesBefore)
  PROVE  /\ s \in Orders(n) /\ Len(s) \in 0..n /\ DOMAIN s = 1..Len(s) /\ s \in [1..Len(s) -> Ids]
         /\ \A j, k \in 1..Len(s) : s[j] = s[k] => j = k
         /\ \A k \in 1..Len(s) : \A a \in Ids :
              EntriesBefore(a, s[k]) => \E j \in 1..(k-1) : s[j] = a
         /\ \A k \in 1..Len(s) :
              StepOK(StateAfter(history, s, k-1), history[s[k]].input, history[s[k]].output)
<1>1. s \in Orders(n) /\ Respects(s, n, EntriesBefore) /\ Legal(history, s)
  BY Zenon DEF PartialLinearizations, n
<1>2. n \in Nat
  BY DEF EntriesOK
<1>3. /\ Len(s) \in 0..n /\ DOMAIN s = 1..Len(s) /\ s \in [1..Len(s) -> 1..n]
      /\ \A j, k \in 1..Len(s) : s[j] = s[k] => j = k
  BY <1>1, <1>2, OrderFacts
<1>4. \A k \in 1..Len(s) : \A a \in 1..n : EntriesBefore(a, s[k]) => \E j \in 1..(k-1) : s[j] = a
  BY <1>1, <1>3, Zenon DEF Respects
<1>5. \A k \in 1..Len(s) :
              StepOK(StateAfter(history, s, k-1), history[s[k]].input, history[s[k]].output)
  BY <1>1, <1>3, Zenon DEF Legal
<1> QED
  BY <1>1, <1>3, <1>4, <1>5 DEF Ids

\* At a return entry, whatever goes on from the current configuration has been
\* explored: the next operation's call was passed and leads into the cache.
LEMMA Exhausted ==
  ASSUME EntriesOK, StackOK, ListOK, CacheOK, list.next[0] # Nil, ~IsCall(entry),
         NEW s \in PartialLinearizations(history, EntriesBefore), NEW k \in 0..(Len(s) - 1),
         Through(s, k) = Config(Len(calls))
  PROVE  Bounded(s)
<1> DEFINE K == Len(calls)
           x == s[k+1]
<1>0. K \in Nat /\ K \in 0..K /\ K \in 0..Len(calls)
  BY CallsFacts
<1>1. /\ Len(s) \in Nat /\ s \in [1..Len(s) -> Ids] /\ \A j, l \in 1..Len(s) : s[j] = s[l] => j = l
      /\ k+1 \in 1..Len(s) /\ (k+1) - 1 = k /\ k \in Nat /\ k+1 \in 0..Len(s)
  <2>1. Len(s) \in 0..n /\ n \in Nat
    BY PartialFacts DEF EntriesOK
  <2>2. s \in [1..Len(s) -> Ids] /\ \A j, l \in 1..Len(s) : s[j] = s[l] => j = l
    BY PartialFacts
  <2> QED
    BY <2>1, <2>2
<1>2. Lin(K) = {s[j] : j \in 1..k} /\ StateAfter(history, s, k) = StateAt(K)
  BY Zenon DEF Through, Config
<1>3. x \in Ids /\ x \notin Lin(K)
  BY <1>1, <1>2
<1>4. PICK c \in Nodes : entries[c] = <<"call", x>>
  BY <1>3 DEF EntriesOK
<1>5. Id(c) = x /\ IsCall(c)
  BY <1>4 DEF Id, IsCall
<1>6. c \in Rest(K)
  BY <1>3, <1>5 DEF Rest
<1>7. entry \in Rest(K) /\ entry \in Nodes /\ Id(entry) \in Ids \ Lin(K)
  BY <1>0, ListFacts, RestFacts
<1>8. c < entry
  <2> SUFFICES ASSUME ~(c < entry) PROVE FALSE
    OBVIOUS
  <2>1. entry < c
    BY <1>5, <1>7 DEF Nodes, EntriesOK
  <2>2. EntriesBefore(Id(entry), x)
    BY <2>1, <1>5, <1>7, EntriesBeforeIs
  <2>3. \E j \in 1..((k+1) - 1) : s[j] = Id(entry)
    BY <2>2, <1>1, <1>7, PartialFacts
  <2>4. Id(entry) \in Lin(K)
    BY <2>3, <1>1, <1>2
  <2> QED
    BY <2>4, <1>7
<1>9. Refused(K, c)
  BY <1>6, <1>8 DEF ListOK, Passed
<1>10. StepOK(StateAt(K), history[x].input, history[x].output)
  <2>1. StepOK(StateAfter(history, s, (k+1) - 1), history[x].input, history[x].output)
    BY <1>1, PartialFacts, Zenon
  <2> QED
    BY <2>1, <1>1, <1>2, Zenon
<1> DEFINE d == <<Lin(K) \cup {x}, StepState(StateAt(K), history[x].input)>>
<1>11. d \in cache
  BY <1>5, <1>9, <1>10, Zenon DEF Refused
<1>12. d = Through(s, k+1)
  <2>1. StateAfter(history, s, k+1) = StepState(StateAfter(history, s, k), history[x].input)
    BY <1>1, StateAfterFacts, Zenon
  <2>2. Lin(K) \cup {x} = {s[j] : j \in 1..(k+1)}
    <3>1. 1..(k+1) = (1..k) \cup {k+1}
      BY <1>1
    <3> QED
      BY <3>1, <1>2
  <2> QED
    BY <2>1, <2>2, <1>2, Zenon DEF Through
<1>13. \A j \in 1..K : d # Config(j)
  <2> SUFFICES ASSUME NEW j \in 1..K PROVE Lin(K) \cup {x} # Lin(j)
    BY DEF Config
  <2>1. Lin(j) \subseteq Lin(K)
    BY <1>0, ChosenDistinct
  <2> QED
    BY <2>1, <1>3
<1> HIDE DEF d, x
<1>14. Done(d)
  BY <1>11, <1>13 DEF CacheOK
<1> QED
  BY <1>12, <1>14, <1>1, Zenon DEF Done

\* When the list is empty every operation has been chosen.
LEMMA ChosenComplete ==
  ASSUME EntriesOK, StackOK, Rest(Len(calls)) = {}
  PROVE  Len(Chosen) = n /\ \A i \in Ids : i \in Range(Chosen)
<1>1. Len(Chosen) = Len(calls) /\ Len(calls) \in Nat /\ n \in Nat /\ DOMAIN Chosen = 1..Len(calls)
  BY ChosenOrder DEF EntriesOK
<1>2. ASSUME NEW j \in Ids PROVE j \in Lin(Len(calls))
  <2>1. PICK p \in Nodes : entries[p] = <<"call", j>>
    BY DEF EntriesOK
  <2>2. Id(p) = j
    BY <2>1 DEF Id
  <2> QED
    BY <2>2 DEF Rest
<1>3. /\ Chosen \in [1..Len(calls) -> 1..n]
      /\ \A j, l \in 1..Len(calls) : Chosen[j] = Chosen[l] => j = l
      /\ Lin(Len(calls)) = {Chosen[j] : j \in 1..Len(calls)}
      /\ Lin(Len(calls)) \subseteq Ids
  BY <1>1, ChosenDistinct, CallsFacts DEF Ids
<1>4. {Chosen[j] : j \in 1..Len(calls)} = 1..n
  BY <1>2, <1>3 DEF Ids
<1>5. Cardinality({Chosen[j] : j \in 1..Len(calls)}) = Len(calls)
  BY <1>1, <1>3, Distinct, Zenon
<1>6. Cardinality(1..n) = n
  <2>1. 1 \in Int /\ n \in Int /\ n - 1 + 1 = n /\ (1 > n => n = 0)
    BY <1>1
  <2> QED
    BY <2>1, FS_Interval
<1>7. \A i \in Ids : i \in Range(Chosen)
  BY <1>1, <1>4 DEF Range, Ids
<1> QED
  BY <1>1, <1>4, <1>5, <1>6, <1>7

-----------------------------------------------------------------------------
(* The properties follow from the invariant.                               *)

LEMMA InvVerdict ==
  ASSUME SearchInv
  PROVE  ResultCorrect
<1>0. EntriesOK /\ StackOK /\ ListOK /\ LongestOK /\ ResultOK
  BY DEF SearchInv
<1>1. ASSUME result = "true" PROVE IsLinearizable(history, Before)
  <2>1. Rest(Len(calls)) = {}
    BY <1>0, <1>1 DEF ResultOK
  <2>2. Chosen \in PartialLinearizations(history, Before)
    BY <1>0, ChosenPartial
  <2>4. Len(Chosen) = n
    BY <1>0, <2>1, ChosenComplete
  <2> QED
    BY <2>2, <2>4, Zenon DEF IsLinearizable, n
<1>2. ASSUME result = "false", ~kill, IsLinearizable(history, EntriesBefore) PROVE FALSE
  <2>1. PICK s \in PartialLinearizations(history, EntriesBefore) : Len(s) = n
    BY <1>2, Zenon DEF IsLinearizable, n
  <2>2. 0 < n /\ Bounded(s) /\ n \in Nat
    BY <1>0, <1>2 DEF ResultOK, EntriesOK
  <2>3. 1 \in DOMAIN s /\ s[1] \in Ids
    <3>1. DOMAIN s = 1..n /\ s \in [1..n -> Ids]
      BY <1>0, <2>1, PartialFacts
    <3> QED
      BY <3>1, <2>2
  <2>4. n <= Len(longest[s[1]])
    BY <2>1, <2>2, <2>3 DEF Bounded
  <2>5. Len(longest[s[1]]) < n /\ Len(longest[s[1]]) \in Nat
    BY <1>0, <1>2, <2>3 DEF LongestOK
  <2> QED
    BY <2>2, <2>4, <2>5
<1> QED
  BY <1>1, <1>2 DEF ResultCorrect

LEMMA InvPartials ==
  ASSUME SearchInv
  PROVE  PartialsReplay /\ LongestIsLongest
<1>0. EntriesOK /\ StackOK /\ LongestOK /\ ResultOK
  BY DEF SearchInv
<1>1. PartialsReplay
  BY <1>0 DEF LongestOK
<1>2. ASSUME result # "none", ~kill, NEW i \in Ids,
             NEW s \in PartialLinearizations(history, EntriesBefore), i \in Range(s)
      PROVE  Len(s) <= Len(longest[i])
  <2>1. PICK k \in DOMAIN s : s[k] = i
    BY <1>2 DEF Range
  <2>2. CASE result = "true"
    <3>1. longest = [j \in Ids |-> Chosen] /\ Rest(Len(calls)) = {}
      BY <1>0, <2>2 DEF ResultOK
    <3>2. longest[i] = Chosen
      BY <3>1
    <3>3. Len(Chosen) = n
      BY <1>0, <3>1, ChosenComplete
    <3>4. Len(s) \in 0..n /\ n \in Nat
      BY <1>0, PartialFacts DEF EntriesOK
    <3> QED
      BY <3>2, <3>3, <3>4
  <2>3. CASE result = "false"
    BY <1>0, <1>2, <2>1, <2>3 DEF ResultOK, Bounded
  <2> QED
    BY <1>0, <1>2, <2>2, <2>3 DEF ResultOK
<1> QED
  BY <1>1, <1>2 DEF LongestIsLongest

\* The node the walk goes to from p.
Onward(p) == IF p = Nil THEN Nil ELSE list.next[p]

IsWalk(w, c) ==
  /\ w \in [0..c -> 0..Nil]
  /\ w[0] = 0
  /\ \A k \in 1..c : w[k] = Onward(w[k-1])

LEMMA WalkExists ==
  ASSUME n \in Nat, list \in Lists, NEW c \in Nat
  PROVE  \E w : IsWalk(w, c)
<1> DEFINE bad == {x \in Nat : ~ \E w : IsWalk(w, x)}
<1> SUFFICES ASSUME bad # {} PROVE FALSE
  OBVIOUS
<1>0. Nil \in Nat /\ 0 \in 0..Nil /\ \A p \in 0..Nil : Onward(p) \in 0..Nil
  <2>1. list.next \in [0..2*n -> 1..Nil] /\ 0..Nil = (0..2*n) \cup {Nil} /\ Nil \in Nat
    BY DEF Lists, Nil
  <2>2. 0 \in 0..Nil /\ Nil \in 0..Nil /\ \A x \in 1..Nil : x \in 0..Nil
    BY <2>1
  <2>3. ASSUME NEW p \in 0..Nil, p # Nil PROVE list.next[p] \in 0..Nil
    <3>1. p \in 0..2*n
      BY <2>1, <2>3
    <3> QED
      BY <3>1, <2>1, <2>2
  <2> QED
    BY <2>1, <2>2, <2>3 DEF Onward
<1>1. PICK x \in bad : \A y \in bad : x <= y
  BY LeastExists
<1>2. IsWalk([k \in 0..0 |-> 0], 0)
  BY <1>0 DEF IsWalk
<1>3. x # 0 /\ x - 1 \in Nat
  BY <1>2
<1>4. PICK v : IsWalk(v, x - 1)
  BY <1>1, <1>3
<1> DEFINE w == [k \in 0..x |-> IF k = x THEN Onward(v[x-1]) ELSE v[k]]
<1>5. v \in [0..(x-1) -> 0..Nil] /\ v[0] = 0 /\ \A k \in 1..(x-1) : v[k] = Onward(v[k-1])
  BY <1>4 DEF IsWalk
<1>6. \A k \in 0..(x-1) : w[k] = v[k]
  BY <1>3
<1>7. w[x] = Onward(v[x-1])
  BY <1>3
<1>8. w \in [0..x -> 0..Nil]
  <2>1. \A k \in 0..x : k = x \/ k \in 0..(x-1)
    BY <1>3
  <2>2. x - 1 \in 0..(x-1)
    BY <1>3
  <2> QED
    BY <2>1, <2>2, <1>0, <1>5
<1> HIDE DEF w
<1>9. w[0] = 0
  BY <1>3, <1>5, <1>6
<1>10. ASSUME NEW k \in 1..x PROVE w[k] = Onward(w[k-1])
  <2>1. k-1 \in 0..(x-1)
    BY <1>3
  <2>2. w[k-1] = v[k-1]
    BY <2>1, <1>6
  <2>3. CASE k = x
    BY <2>2, <2>3, <1>7
  <2>4. CASE k # x
    <3>1. k \in 1..(x-1) /\ k \in 0..(x-1)
      BY <2>4, <1>3
    <3> QED
      BY <3>1, <2>2, <1>5, <1>6, Zenon
  <2> QED
    BY <2>3, <2>4
<1>11. IsWalk(w, x)
  BY <1>8, <1>9, <1>10 DEF IsWalk
<1> QED
  BY <1>11

LEMMA WalkIs ==
  ASSUME n \in Nat, list \in Lists
  PROVE  \E w : IsWalk(w, 2*n) /\ Walk = {w[k] : k \in 1..2*n} \ {Nil}
<1> DEFINE Eq(w) == w = [k \in 0..2*n |-> IF k = 0 THEN 0
                                          ELSE IF w[k-1] = Nil THEN Nil ELSE list.next[w[k-1]]]
<1>0. 2*n \in Nat
  OBVIOUS
<1>1. ASSUME NEW w, IsWalk(w, 2*n) PROVE Eq(w)
  <2>1. w = [k \in 0..2*n |-> w[k]] /\ w[0] = 0
    BY <1>1 DEF IsWalk
  <2>2. \A k \in 0..2*n : k = 0 \/ k \in 1..2*n
    BY <1>0
  <2>3. \A k \in 0..2*n : w[k] = IF k = 0 THEN 0
                                          ELSE IF w[k-1] = Nil THEN Nil ELSE list.next[w[k-1]]
    BY <2>1, <2>2, <1>1, Zenon DEF IsWalk, Onward
  <2> QED
    BY <2>1, <2>3, Zenon
<1>2. \E w : Eq(w)
  BY <1>0, <1>1, WalkExists
<1>3. PICK w : Eq(w) /\ Walk = {w[k] : k \in 1..2*n} \ {Nil}
  BY <1>2, Zenon DEF Walk
<1>4. PICK v : IsWalk(v, 2*n)
  BY <1>0, WalkExists
<1>5. Eq(v)
  BY <1>1, <1>4
<1>6. \A x \in 0..2*n : w[x] = v[x]
  <2> DEFINE bad == {x \in Nat : x <= 2*n /\ w[x] # v[x]}
  <2> SUFFICES ASSUME bad # {} PROVE FALSE
    BY <1>0
  <2>1. PICK x \in bad : \A y \in bad : x <= y
    BY LeastExists
  <2>2. x \in 0..2*n /\ 0 \in 0..2*n
    BY <1>0
  <2>3. /\ w[x] = IF x = 0 THEN 0 ELSE IF w[x-1] = Nil THEN Nil ELSE list.next[w[x-1]]
        /\ v[x] = IF x = 0 THEN 0 ELSE IF v[x-1] = Nil THEN Nil ELSE list.next[v[x-1]]
    <3> HIDE DEF bad
    <3> QED
      BY <2>2, <1>3, <1>5, Zenon
  <2>4. x # 0 => w[x-1] = v[x-1]
    BY <2>1
  <2> QED
    BY <2>3, <2>4
<1>7. 1..2*n \subseteq 0..2*n
  BY <1>0
<1>8. {w[k] : k \in 1..2*n} = {v[k] : k \in 1..2*n}
  BY <1>6, <1>7
<1> QED
  BY <1>3, <1>4, <1>8

\* In a list that links S, the walk meets the nodes of S, and it meets all of them.
LEMMA WalkMeets ==
  ASSUME n \in Nat, list \in Lists, NEW S \in SUBSET Nodes, Linked(list, S)
  PROVE  Walk = S
<1>1. PICK w : IsWalk(w, 2*n) /\ Walk = {w[k] : k \in 1..2*n} \ {Nil}
  BY WalkIs
<1>2. /\ Nil \in Nat /\ Nil = 2*n + 1 /\ 2*n \in Nat
      /\ \A q \in S : q \in Nat /\ 0 < q /\ q < Nil
  BY DEF Nil, Nodes
<1>3. /\ w \in [0..2*n -> 0..Nil] /\ w[0] = 0
      /\ \A k \in 1..2*n : w[k] = IF w[k-1] = Nil THEN Nil ELSE list.next[w[k-1]]
  BY <1>1 DEF IsWalk, Onward
<1>4. \A p \in S \cup {0} : list.next[p] \in S \cup {Nil} /\ p < list.next[p]
  BY DEF Linked, Fits, IsNext
\* the walk is on S, and the k-th node is not before k
<1>5. \A k \in 0..2*n : w[k] = Nil \/ (w[k] \in S \cup {0} /\ k <= w[k])
  <2> DEFINE bad == {x \in Nat : x <= 2*n /\ ~(w[x] = Nil \/ (w[x] \in S \cup {0} /\ x <= w[x]))}
  <2> SUFFICES ASSUME bad # {} PROVE FALSE
    BY <1>2
  <2>1. PICK x \in bad : \A y \in bad : x <= y
    BY LeastExists
  <2>2. x # 0
    BY <1>3
  <2>3. x - 1 \in Nat /\ x - 1 <= 2*n /\ x - 1 \notin bad /\ x \in 1..2*n
    BY <2>1, <2>2, <1>2
  <2>4. w[x-1] = Nil \/ (w[x-1] \in S \cup {0} /\ x - 1 <= w[x-1])
    BY <2>3
  <2>5. w[x] = IF w[x-1] = Nil THEN Nil ELSE list.next[w[x-1]]
    BY <2>3, <1>3
  <2>6. w[x-1] # Nil
    BY <2>5
  <2>7. w[x] \in S \cup {Nil} /\ w[x-1] < w[x] /\ w[x-1] \in Nat /\ x - 1 <= w[x-1]
    BY <2>4, <2>5, <2>6, <1>2, <1>4
  <2>8. w[x] \in Nat
    BY <2>7, <1>2
  <2>9. x <= w[x]
    BY <2>3, <2>7, <2>8
  <2> QED
    BY <2>7, <2>9
<1>6. Walk \subseteq S
  <2> SUFFICES ASSUME NEW k \in 1..2*n, w[k] # Nil PROVE w[k] \in S
    BY <1>1
  <2>1. w[k] \in S \cup {0} /\ k <= w[k]
    BY <1>2, <1>5
  <2> QED
    BY <2>1, <1>2
\* the first node that is missed would follow one that is met
<1>7. S \subseteq Walk
  <2> DEFINE missed == S \ Walk
  <2> SUFFICES ASSUME missed # {} PROVE FALSE
    OBVIOUS
  <2>0. missed \in SUBSET Nat
    BY <1>2
  <2>1. PICK x \in missed : \A y \in missed : x <= y
    BY <2>0, LeastExists
  <2>2. x \in S /\ x \notin Walk
    OBVIOUS
  <2> DEFINE p == list.prev[x]
  <2>3. p \in S \cup {0} /\ p < x /\ \A r \in S : r < x => r <= p
    BY <2>2 DEF Linked, Fits, IsPrev
  <2>4. p \notin missed /\ p \in Nat /\ x \in Nat
    BY <2>1, <2>3, <1>2
  <2>5. \E k \in 0..2*n : w[k] = p
    <3>1. CASE p = 0
      BY <3>1, <1>2, <1>3
    <3>2. CASE p # 0
      <4>1. p \in Walk
        BY <3>2, <2>3, <2>4
      <4> HIDE DEF p
      <4>2. PICK k \in 1..2*n : w[k] = p
        BY <4>1, <1>1
      <4> QED
        BY <4>2, <1>2
    <3> QED
      BY <3>1, <3>2
  <2>6. list.next[p] = x
    <3> DEFINE q == list.next[p]
    <3>1. q \in S \cup {Nil} /\ p < q /\ \A r \in S : p < r => q <= r
      BY <2>3 DEF Linked, Fits, IsNext
    <3> HIDE DEF q, p
    <3>2. q <= x
      BY <3>1, <2>2, <2>3
    <3>3. q \in Nat /\ x < Nil
      BY <3>1, <2>2, <1>2
    <3>4. q \in S
      BY <3>1, <3>2, <3>3, <2>4, <1>2
    <3>5. ~(q < x)
      BY <3>1, <3>3, <3>4, <2>3, <2>4
    <3>6. q = x
      BY <3>2, <3>3, <3>5, <2>4
    <3> QED
      BY <3>6 DEF q
  <2> HIDE DEF p
  <2>7. PICK k \in 0..2*n : w[k] = p
    BY <2>5
  <2>8. k <= p /\ p # Nil
    BY <2>3, <2>4, <2>7, <1>2, <1>5
  <2>9. k + 1 \in 1..2*n /\ (k + 1) - 1 = k
    BY <2>2, <2>3, <2>4, <2>8, <1>2
  <2>10. w[k + 1] = x
    BY <2>6, <2>7, <2>8, <2>9, <1>3
  <2>11. x \in Walk
    BY <2>2, <2>9, <2>10, <1>1, <1>2
  <2> QED
    BY <2>2, <2>11
<1> QED
  BY <1>6, <1>7

LEMMA InvList ==
  ASSUME SearchInv
  PROVE  EntriesIntact
<1> DEFINE R == Rest(Len(calls))
<1>0. EntriesOK /\ StackOK /\ ListOK
  BY DEF SearchInv
<1>1. Len(calls) \in Nat /\ DOMAIN calls = 1..Len(calls) /\ n \in Nat
  BY <1>0, CallsFacts DEF EntriesOK
<1>2. R \in SUBSET Nodes /\ list \in Lists /\ Linked(list, R)
  BY <1>0 DEF Rest, ListOK
<1>3. Walk = R
  BY <1>1, <1>2, WalkMeets
<1>4. linearized = {Id(calls[k].entry) : k \in DOMAIN calls}
  BY <1>0, <1>1 DEF StackOK, Lin
<1>5. Walk = {p \in 1..2*n : Id(p) \notin linearized}
  BY <1>0, <1>3 DEF StackOK, Rest, Nodes
<1>6. \A p \in Walk \cup {0} : list.next[p] > p
  BY <1>1, <1>2, <1>3 DEF Linked, Fits, IsNext
<1>7. ASSUME NEW p \in R PROVE list.next[list.prev[p]] = p
  <2>0. /\ Nil \in Nat
        /\ \A q \in R : q \in Nat /\ 0 < q /\ q < Nil
    BY <1>1, <1>2 DEF Nil, Nodes
  <2> DEFINE a == list.prev[p]
             q == list.next[a]
  <2>1. a \in R \cup {0} /\ a < p /\ \A r \in R : r < p => r <= a
    BY <1>2 DEF Linked, Fits, IsPrev
  <2>2. q \in R \cup {Nil} /\ a < q /\ \A r \in R : a < r => q <= r
    BY <1>2, <2>1 DEF Linked, Fits, IsNext
  <2> HIDE DEF a, q, R
  <2>3. q <= p
    BY <2>1, <2>2, <1>7
  <2>4. q \in Nat /\ a \in Nat /\ p \in Nat /\ p < Nil
    BY <2>0, <2>1, <2>2, <1>7
  <2>5. q \in R
    BY <2>0, <2>2, <2>3, <2>4
  <2>6. ~(q < p)
    BY <2>1, <2>2, <2>4, <2>5
  <2>7. q = p
    BY <2>3, <2>4, <2>6
  <2> QED
    BY <2>7 DEF q, a
<1> QED
  BY <1>3, <1>4, <1>5, <1>6, <1>7 DEF EntriesIntact

-----------------------------------------------------------------------------
(* What a step leaves alone.                                               *)

LEMMA Static ==
  ASSUME UNCHANGED <<history, entries>>
  PROVE  /\ n' = n /\ Nodes' = Nodes /\ Ids' = Ids /\ Nil' = Nil /\ Lists' = Lists
         /\ \A p : Id(p)' = Id(p) /\ (IsCall(p)' <=> IsCall(p)) /\ Match(p)' = Match(p)
         /\ \A l, S, p : Fits(l, S, p)' <=> Fits(l, S, p)
         /\ \A l, S : Linked(l, S)' <=> Linked(l, S)
         /\ PartialLinearizations(history, EntriesBefore)' = PartialLinearizations(history, EntriesBefore)
         /\ PartialLinearizations(history, Before)' = PartialLinearizations(history, Before)
         /\ EntriesOK' <=> EntriesOK
         /\ \A s, k : Through(s, k)' = Through(s, k)
<1>0. history' = history /\ entries' = entries
  OBVIOUS
<1>1. n' = n
  BY <1>0 DEF n
<1>2. Nodes' = Nodes /\ Ids' = Ids /\ Nil' = Nil
  BY <1>1 DEF Nodes, Ids, Nil
<1>3. Lists' = Lists
  BY <1>1, <1>2 DEF Lists
<1>4. \A p : Id(p)' = Id(p) /\ (IsCall(p)' <=> IsCall(p))
  BY <1>0 DEF Id, IsCall
<1>5. \A p : Match(p)' = Match(p)
  BY <1>0, <1>1, <1>4, Zenon DEF Match, Id
<1>6. \A l, S, p : Fits(l, S, p)' <=> Fits(l, S, p)
  BY <1>2, Zenon DEF Fits, IsNext, IsPrev
<1>7. \A l, S : Linked(l, S)' <=> Linked(l, S)
  BY <1>2, <1>6, Zenon DEF Linked, IsNext
<1>8. \A a, b : (EntriesBefore(a, b)' <=> EntriesBefore(a, b)) /\ (Before(a, b)' <=> Before(a, b))
  BY <1>0, <1>1, Zenon DEF EntriesBefore, Position, Before
<1>9. PartialLinearizations(history, EntriesBefore)' = PartialLinearizations(history, EntriesBefore)
  BY <1>0, <1>8, Zenon DEF PartialLinearizations, Respects
<1>10. PartialLinearizations(history, Before)' = PartialLinearizations(history, Before)
  BY <1>0, <1>8, Zenon DEF PartialLinearizations, Respects
<1>11. EntriesOK' <=> EntriesOK
  <2>1. n' \in Nat <=> n \in Nat
    BY <1>1
  <2>2. entries' \in [Nodes' -> {"call", "return"} \X Ids'] <=> entries \in [Nodes -> {"call", "return"} \X Ids]
    BY <1>0, <1>2
  <2> QED
    BY <2>1, <2>2, <1>0, <1>2, <1>8 DEF EntriesOK
<1>12. \A s, k : Through(s, k)' = Through(s, k)
  BY <1>0, Zenon DEF Through, StateAfter
<1> QED
  BY <1>1, <1>2, <1>3, <1>4, <1>5, <1>6, <1>7, <1>9, <1>10, <1>11, <1>12

\* The levels up to K are kept when their calls, states and links are.
LEMMA Kept ==
  ASSUME EntriesOK, StackOK, UNCHANGED <<history, entries>>,
         NEW K \in 0..Len(calls), K <= Len(calls)', Len(calls)' \in Nat,
         \A j \in 1..K : calls'[j] = calls[j],
         \A k \in 0..K : StateAt(k)' = StateAt(k),
         cache \subseteq cache',
         \A j \in 1..K : \A p \in {calls[j].entry, Match(calls[j].entry)} :
           list'.next[p] = list.next[p] /\ list'.prev[p] = list.prev[p]
  PROVE  /\ \A k \in 0..K : Lin(k)' = Lin(k) /\ Rest(k)' = Rest(k) /\ Config(k)' = Config(k)
         /\ \A k \in 0..K : \A p : Passed(k, p) => Passed(k, p)'
         /\ \A k \in 1..K : Frame(k)'
<1>0. Len(calls) \in Nat /\ K \in Nat
  BY CallsFacts
<1>1. \A k \in 0..K : Lin(k)' = Lin(k)
  BY <1>0, Static DEF Lin
<1>2. \A k \in 0..K : Rest(k)' = Rest(k)
  <2>1. Nodes' = Nodes /\ \A p : Id(p)' = Id(p)
    BY Static
  <2> QED
    BY <2>1, <1>1 DEF Rest
<1>3. \A k \in 0..K : Config(k)' = Config(k)
  BY <1>1, Zenon DEF Config
<1>4. ASSUME NEW k \in 0..K, NEW q, Refused(k, q) PROVE Refused(k, q)'
  <2>1. StateAt(k)' = StateAt(k) /\ Lin(k)' = Lin(k) /\ Id(q)' = Id(q) /\ history' = history
    BY <1>1, Static
  <2> QED
    BY <1>4, <2>1, Zenon DEF Refused
<1>5. ASSUME NEW k \in 0..K, NEW p, Passed(k, p) PROVE Passed(k, p)'
  <2>1. Rest(k)' = Rest(k) /\ \A q : IsCall(q)' <=> IsCall(q)
    BY <1>2, Static
  <2> QED
    BY <1>4, <1>5, <2>1, Zenon DEF Passed
<1>6. ASSUME NEW k \in 1..K PROVE Frame(k)'
  <2>0. k \in 1..Len(calls) /\ k-1 \in 0..K /\ k \in 0..K
    BY <1>0
  <2>1. calls'[k] = calls[k] /\ history' = history
    BY <1>6
  <2>e. PICK e : e = calls[k].entry
    OBVIOUS
  <2>m. PICK m : m = Match(e)
    OBVIOUS
  <2>f. PICK R : R = Rest(k-1)
    OBVIOUS
  <2>2. /\ e \in R /\ IsCall(e)
        /\ StepOK(calls[k].state, history[Id(e)].input, history[Id(e)].output)
        /\ StateAt(k) = StepState(calls[k].state, history[Id(e)].input)
        /\ Config(k) \in cache
        /\ Passed(k-1, e)
        /\ Fits(list, R, e) /\ Fits(list, R \ {e}, m)
    BY <2>0, <2>e, <2>m, <2>f, Zenon DEF StackOK, Frame
  <2>3. Passed(k-1, e)'
    BY <2>0, <2>2, <1>5
  <2>4. calls'[k].entry = e /\ Rest(k-1)' = R /\ Match(e)' = m /\ Id(e)' = Id(e) /\ IsCall(e)'
    BY <2>0, <2>1, <2>2, <2>e, <2>m, <2>f, <1>2, Static
  <2>6. StateAt(k)' = StateAt(k) /\ Config(k)' = Config(k)
    BY <2>0, <1>3
  <2>7. /\ list'.next[e] = list.next[e] /\ list'.prev[e] = list.prev[e]
        /\ list'.next[m] = list.next[m] /\ list'.prev[m] = list.prev[m]
    BY <2>e, <2>m, <1>6
  <2>8. PICK T : T = R \ {e}
    OBVIOUS
  <2>9. Fits(list, R, e)' /\ Fits(list, T, m)'
    <3>1. Nil' = Nil
      BY Static
    <3>2. Fits(list, R, e) /\ Fits(list, T, m)
      BY <2>2, <2>8
    <3> QED
      BY <3>1, <3>2, <2>7, Zenon DEF Fits, IsNext, IsPrev
  <2>10. /\ StepOK(calls'[k].state, history'[Id(e)'].input, history'[Id(e)'].output)
         /\ StateAt(k)' = StepState(calls'[k].state, history'[Id(e)'].input)
         /\ Config(k)' \in cache'
    BY <2>1, <2>2, <2>4, <2>6, Zenon
  <2> QED
    BY <2>2, <2>3, <2>4, <2>8, <2>9, <2>10, Zenon DEF Frame
<1> QED
  BY <1>1, <1>2, <1>3, <1>5, <1>6

LEMMA BoundedKept ==
  ASSUME EntriesOK, longest \in [Ids -> Seq(Ids)], longest' \in [Ids -> Seq(Ids)],
         \A i \in Ids : Len(longest[i]) <= Len(longest'[i]),
         NEW s \in PartialLinearizations(history, EntriesBefore), Bounded(s)
  PROVE  Bounded(s)'
<1>1. Len(s) \in 0..n /\ n \in Nat /\ DOMAIN s = 1..Len(s) /\ s \in [1..Len(s) -> Ids]
  BY PartialFacts DEF EntriesOK
<1>2. ASSUME NEW k \in DOMAIN s PROVE Len(s) <= Len(longest'[s[k]])
  <2>1. s[k] \in Ids
    BY <1>1
  <2>2. Len(s) <= Len(longest[s[k]])
    BY DEF Bounded
  <2>3. Len(longest[s[k]]) \in Nat /\ Len(longest'[s[k]]) \in Nat
    BY <2>1
  <2>4. Len(longest[s[k]]) <= Len(longest'[s[k]])
    BY <2>1
  <2> QED
    BY <1>1, <2>2, <2>3, <2>4
<1> QED
  BY <1>2 DEF Bounded

LEMMA DoneKept ==
  ASSUME EntriesOK, UNCHANGED <<history, entries>>,
         longest \in [Ids -> Seq(Ids)], longest' \in [Ids -> Seq(Ids)],
         \A i \in Ids : Len(longest[i]) <= Len(longest'[i]),
         NEW c, Done(c)
  PROVE  Done(c)'
<1>1. \A s \in PartialLinearizations(history, EntriesBefore) : Bounded(s) => Bounded(s)'
  BY BoundedKept
<1>2. /\ PartialLinearizations(history, EntriesBefore)' = PartialLinearizations(history, EntriesBefore)
      /\ \A s, k : Through(s, k)' = Through(s, k)
  BY Static
<1> QED
  BY <1>1, <1>2, Zenon DEF Done

\* Steps that leave the list and the stack alone.
LEMMA Quiet ==
  ASSUME SearchInv, UNCHANGED <<history, entries, list, calls, state, linearized, cache>>,
         longest' \in [Ids -> Seq(Ids)],
         \A i \in Ids : Len(longest[i]) <= Len(longest'[i])
  PROVE  /\ EntriesOK' /\ StackOK' /\ CacheOK' /\ Chosen' = Chosen
         /\ Rest(Len(calls))' = Rest(Len(calls))
         /\ \A p : Passed(Len(calls), p) => Passed(Len(calls), p)'
         /\ (list \in Lists /\ Linked(list, Rest(Len(calls))))'
<1>0. EntriesOK /\ StackOK /\ ListOK /\ CacheOK /\ LongestOK
  BY DEF SearchInv
<1>1. Len(calls) \in Nat /\ Len(calls) \in 0..Len(calls) /\ calls' = calls /\ list' = list /\ cache' = cache
      /\ state' = state /\ history' = history /\ entries' = entries /\ linearized' = linearized
  BY <1>0, CallsFacts
<1>2. \A k \in 0..Len(calls) : StateAt(k)' = StateAt(k)
  BY <1>1, Zenon DEF StateAt
<1>3. /\ \A k \in 0..Len(calls) : Lin(k)' = Lin(k) /\ Rest(k)' = Rest(k) /\ Config(k)' = Config(k)
      /\ \A k \in 0..Len(calls) : \A p : Passed(k, p) => Passed(k, p)'
      /\ \A k \in 1..Len(calls) : Frame(k)'
  <2>1. Len(calls)' = Len(calls) /\ Len(calls) <= Len(calls)' /\ Len(calls)' \in Nat
    BY <1>1
  <2> QED
    BY <1>0, <1>1, <1>2, <2>1, Kept
<1>4. PICK K : K = Len(calls) /\ K \in Nat /\ K \in 0..Len(calls)
  BY <1>1
<1>5. Len(calls)' = K
  BY <1>1, <1>4
<1>6. StackOK'
  <2>1. (\E X : calls \in Seq([entry : Nodes, state : X]))'
    BY <1>0, <1>1, Static, Zenon DEF StackOK
  <2>2. StateAt(0)' = InitState
    BY <1>0, <1>1, <1>2 DEF StackOK
  <2>3. linearized' = Lin(K)'
    BY <1>0, <1>1, <1>3, <1>4 DEF StackOK
  <2>4. \A k \in 1..K : Frame(k)'
    BY <1>3, <1>4
  <2> QED
    BY <2>1, <2>2, <2>3, <2>4, <1>5, Zenon DEF StackOK
<1>7. CacheOK'
  <2>1. ASSUME NEW c \in cache' PROVE (\E k \in 1..K : c = Config(k)') \/ Done(c)'
    <3>1. (\E k \in 1..K : c = Config(k)) \/ Done(c)
      BY <1>0, <1>1, <1>4 DEF CacheOK
    <3>2. \A k \in 1..K : Config(k)' = Config(k)
      BY <1>3, <1>4
    <3>3. Done(c) => Done(c)'
      BY <1>0, <1>1, DoneKept DEF LongestOK
    <3> QED
      BY <3>1, <3>2, <3>3
  <2> QED
    BY <2>1, <1>5, Zenon DEF CacheOK
<1>8. Chosen' = Chosen
  BY <1>1, Zenon DEF Chosen, Id
<1>9. Rest(Len(calls))' = Rest(Len(calls))
  BY <1>1, <1>3, <1>4, <1>5, Zenon DEF Rest, Lin, Id, Nodes, n
<1>10. \A p : Passed(Len(calls), p) => Passed(Len(calls), p)'
  <2>1. \A p : Passed(K, p) => Passed(K, p)'
    BY <1>3, <1>4
  <2> QED
    BY <2>1, <1>4, <1>5, Zenon DEF Passed, Refused, Rest, StateAt
<1>11. (list \in Lists /\ Linked(list, Rest(Len(calls))))'
  <2>1. list \in Lists /\ Linked(list, Rest(Len(calls)))
    BY <1>0 DEF ListOK
  <2>2. PICK R, l : R = Rest(Len(calls)) /\ l = list
    OBVIOUS
  <2>3. Lists' = Lists /\ (Linked(l, R)' <=> Linked(l, R))
    BY <1>1, Static
  <2>4. Linked(l, R)'
    BY <2>1, <2>2, <2>3
  <2>5. Rest(Len(calls))' = R /\ list' = l
    BY <2>2, <1>1, <1>9
  <2> QED
    BY <2>1, <2>2, <2>3, <2>4, <2>5, Zenon DEF Linked, Fits
<1> QED
  BY <1>0, <1>1, <1>6, <1>7, <1>8, <1>9, <1>10, <1>11, Static

LEMMA SetKillStep ==
  ASSUME SearchInv, SetKill
  PROVE  SearchInv'
<1>0. SearchInv /\ EntriesOK /\ StackOK /\ ListOK /\ LongestOK /\ ResultOK
  BY DEF SearchInv
<1>1. /\ UNCHANGED <<history, entries, list, calls, state, linearized, cache>>
      /\ UNCHANGED <<entry, longest, result>> /\ kill' /\ result = "none"
  BY DEF SetKill
<1>2. longest' \in [Ids -> Seq(Ids)] /\ \A i \in Ids : Len(longest[i]) <= Len(longest'[i])
  BY <1>0, <1>1 DEF LongestOK
<1>3. /\ EntriesOK' /\ StackOK' /\ CacheOK' /\ Chosen' = Chosen
      /\ Rest(Len(calls))' = Rest(Len(calls))
      /\ \A p : Passed(Len(calls), p) => Passed(Len(calls), p)'
      /\ (list \in Lists /\ Linked(list, Rest(Len(calls))))'
  BY <1>0, <1>1, <1>2, Quiet
<1>4. ListOK'
  BY <1>0, <1>1, <1>3, Static DEF ListOK, Passed
<1>5. LongestOK'
  <2>1. PartialsReplay'
    BY <1>0, <1>1, Static, Zenon DEF LongestOK, PartialsReplay
  <2> QED
    BY <1>0, <1>1, <1>2, <2>1, Static DEF LongestOK
<1>6. ResultOK'
  BY <1>0, <1>1 DEF ResultOK
<1> QED
  BY <1>3, <1>4, <1>5, <1>6 DEF SearchInv

LEMMA KilledStep ==
  ASSUME SearchInv, Killed
  PROVE  SearchInv'
<1>0. SearchInv /\ EntriesOK /\ StackOK /\ ListOK /\ LongestOK /\ ResultOK
  BY DEF SearchInv
<1>1. /\ UNCHANGED <<history, entries, list, calls, state, linearized, cache>>
      /\ UNCHANGED <<entry, longest, kill>> /\ kill /\ result' = "false" /\ result = "none"
  BY DEF Killed, Looping
<1>2. longest' \in [Ids -> Seq(Ids)] /\ \A i \in Ids : Len(longest[i]) <= Len(longest'[i])
  BY <1>0, <1>1 DEF LongestOK
<1>3. /\ EntriesOK' /\ StackOK' /\ CacheOK' /\ Chosen' = Chosen
      /\ Rest(Len(calls))' = Rest(Len(calls))
      /\ \A p : Passed(Len(calls), p) => Passed(Len(calls), p)'
      /\ (list \in Lists /\ Linked(list, Rest(Len(calls))))'
  BY <1>0, <1>1, <1>2, Quiet
<1>4. ListOK'
  BY <1>0, <1>1, <1>3, Static DEF ListOK, Passed
<1>5. LongestOK'
  <2>1. PartialsReplay'
    BY <1>0, <1>1, Static, Zenon DEF LongestOK, PartialsReplay
  <2> QED
    BY <1>0, <1>1, <1>2, <2>1, Static DEF LongestOK
<1>6. ResultOK'
  BY <1>1 DEF ResultOK
<1> QED
  BY <1>3, <1>4, <1>5, <1>6 DEF SearchInv

LEMMA StutterStep ==
  ASSUME SearchInv, UNCHANGED vars
  PROVE  SearchInv'
<1>0. SearchInv /\ EntriesOK /\ StackOK /\ ListOK /\ LongestOK /\ ResultOK
  BY DEF SearchInv
<1>1. /\ UNCHANGED <<history, entries, list, calls, state, linearized, cache>>
      /\ UNCHANGED <<entry, longest, kill, result>>
  BY DEF vars
<1>2. longest' \in [Ids -> Seq(Ids)] /\ \A i \in Ids : Len(longest[i]) <= Len(longest'[i])
  BY <1>0, <1>1 DEF LongestOK
<1>3. /\ EntriesOK' /\ StackOK' /\ CacheOK' /\ Chosen' = Chosen
      /\ Rest(Len(calls))' = Rest(Len(calls))
      /\ \A p : Passed(Len(calls), p) => Passed(Len(calls), p)'
      /\ (list \in Lists /\ Linked(list, Rest(Len(calls))))'
  BY <1>0, <1>1, <1>2, Quiet
<1>4. ListOK'
  BY <1>0, <1>1, <1>3, Static DEF ListOK, Passed
<1>5. LongestOK'
  <2>1. PartialsReplay'
    BY <1>0, <1>1, Static, Zenon DEF LongestOK, PartialsReplay
  <2> QED
    BY <1>0, <1>1, <1>2, <2>1, Static DEF LongestOK
<1>6. ResultOK'
  <2>1. /\ PartialLinearizations(history, EntriesBefore)' = PartialLinearizations(history, EntriesBefore)
        /\ n' = n /\ Ids' = Ids /\ \A s : Bounded(s)' <=> Bounded(s)
    BY <1>1, Static DEF Bounded
  <2> QED
    BY <1>0, <1>1, <1>3, <2>1, Zenon DEF ResultOK
<1> QED
  BY <1>3, <1>4, <1>5, <1>6 DEF SearchInv

LEMMA NotLinearizableStep ==
  ASSUME SearchInv, NotLinearizable
  PROVE  SearchInv'
<1>0. SearchInv /\ EntriesOK /\ StackOK /\ ListOK /\ CacheOK /\ LongestOK /\ ResultOK
  BY DEF SearchInv
<1>1. /\ UNCHANGED <<history, entries, list, calls, state, linearized, cache>>
      /\ UNCHANGED <<entry, longest, kill>> /\ result' = "false" /\ result = "none"
      /\ calls = <<>> /\ ~IsCall(entry) /\ list.next[0] # Nil
  BY DEF NotLinearizable, Looping
<1>2. longest' \in [Ids -> Seq(Ids)] /\ \A i \in Ids : Len(longest[i]) <= Len(longest'[i])
  BY <1>0, <1>1 DEF LongestOK
<1>3. /\ EntriesOK' /\ StackOK' /\ CacheOK' /\ Chosen' = Chosen
      /\ Rest(Len(calls))' = Rest(Len(calls))
      /\ \A p : Passed(Len(calls), p) => Passed(Len(calls), p)'
      /\ (list \in Lists /\ Linked(list, Rest(Len(calls))))'
  BY <1>0, <1>1, <1>2, Quiet
<1>4. ListOK'
  BY <1>0, <1>1, <1>3, Static DEF ListOK, Passed
<1>5. LongestOK'
  <2>1. PartialsReplay'
    BY <1>0, <1>1, Static, Zenon DEF LongestOK, PartialsReplay
  <2> QED
    BY <1>0, <1>1, <1>2, <2>1, Static DEF LongestOK
<1>6. 0 < n
  <2>1. entry \in Nodes /\ n \in Nat
    BY <1>0, <1>1, ListFacts DEF Rest, EntriesOK
  <2> QED
    BY <2>1 DEF Nodes
<1>7. ASSUME NEW s \in PartialLinearizations(history, EntriesBefore) PROVE Bounded(s)
  <2>1. Len(s) \in 0..n /\ n \in Nat /\ DOMAIN s = 1..Len(s)
    BY <1>0, PartialFacts DEF EntriesOK
  <2>2. CASE Len(s) = 0
    BY <2>1, <2>2 DEF Bounded
  <2>3. CASE Len(s) # 0
    <3>1. 0 \in 0..(Len(s) - 1)
      BY <2>1, <2>3
    <3>2. Len(calls) = 0
      BY <1>1
    <3>3. {s[j] : j \in 1..0} = Lin(0)
      BY DEF Lin
    <3>4. StateAfter(history, s, 0) = StateAt(0)
      BY <1>0, StateAfterFacts, Zenon DEF StackOK
    <3>5. Through(s, 0) = Config(Len(calls))
      BY <3>2, <3>3, <3>4, Zenon DEF Through, Config
    <3> QED
      BY <1>0, <1>1, <3>1, <3>5, Exhausted
  <2> QED
    BY <2>2, <2>3
<1>8. ResultOK'
  <2>1. /\ PartialLinearizations(history, EntriesBefore)' = PartialLinearizations(history, EntriesBefore)
        /\ n' = n /\ \A s : Bounded(s)' <=> Bounded(s)
    BY <1>1, Static DEF Bounded
  <2>2. (\A s \in PartialLinearizations(history, EntriesBefore) : Bounded(s))'
    BY <2>1, <1>7, Zenon
  <2> QED
    BY <1>1, <1>6, <2>1, <2>2 DEF ResultOK
<1> QED
  BY <1>3, <1>4, <1>5, <1>8 DEF SearchInv

LEMMA CompleteStep ==
  ASSUME SearchInv, Complete
  PROVE  SearchInv'
<1>0. SearchInv /\ EntriesOK /\ StackOK /\ ListOK /\ LongestOK /\ ResultOK
  BY DEF SearchInv
<1>1. /\ UNCHANGED <<history, entries, list, calls, state, linearized, cache>>
      /\ UNCHANGED <<entry, kill>> /\ result' = "true" /\ result = "none"
      /\ list.next[0] = Nil /\ longest' = [i \in Ids |-> Chosen]
  BY DEF Complete
<1>2. Rest(Len(calls)) = {}
  BY <1>0, <1>1, ListFacts
<1>3. Len(Chosen) = n /\ Chosen \in Seq(Ids) /\ (\A i \in Ids : i \in Range(Chosen)) /\ n \in Nat
  BY <1>0, <1>2, ChosenComplete, ChosenOrder DEF EntriesOK
<1>4. longest' \in [Ids -> Seq(Ids)]
  BY <1>1, <1>3
<1>5. \A i \in Ids : Len(longest[i]) <= Len(longest'[i])
  <2> SUFFICES ASSUME NEW i \in Ids PROVE Len(longest[i]) <= Len(longest'[i])
    OBVIOUS
  <2>1. longest'[i] = Chosen
    BY <1>1
  <2>2. Len(longest[i]) < n /\ Len(longest[i]) \in Nat
    BY <1>0, <1>1 DEF LongestOK
  <2> QED
    BY <2>1, <2>2, <1>3
<1>6. /\ EntriesOK' /\ StackOK' /\ CacheOK' /\ Chosen' = Chosen
      /\ Rest(Len(calls))' = Rest(Len(calls))
      /\ \A p : Passed(Len(calls), p) => Passed(Len(calls), p)'
      /\ (list \in Lists /\ Linked(list, Rest(Len(calls))))'
  BY <1>0, <1>1, <1>4, <1>5, Quiet
<1>7. ListOK'
  BY <1>0, <1>1, <1>6, Static DEF ListOK, Passed
<1>8. LongestOK'
  <2>1. Chosen \in PartialLinearizations(history, Before)
    BY <1>0, ChosenPartial
  <2>2. \A i \in Ids : longest'[i] = Chosen
    BY <1>1
  <2>3. PartialsReplay'
    BY <2>1, <2>2, <1>1, <1>3, Static DEF PartialsReplay
  <2> QED
    BY <2>3, <1>1, <1>4, Static DEF LongestOK
<1>9. ResultOK'
  BY <1>1, <1>2, <1>6, Static DEF ResultOK
<1> QED
  BY <1>6, <1>7, <1>8, <1>9 DEF SearchInv

\* The entry that is passed was refused, and every entry before it.
LEMMA SkipStep ==
  ASSUME SearchInv, Skip
  PROVE  SearchInv'
<1>0. SearchInv /\ EntriesOK /\ StackOK /\ ListOK /\ LongestOK /\ ResultOK
  BY DEF SearchInv
<1>1. /\ UNCHANGED <<history, entries, list, calls, state, linearized, cache>>
      /\ UNCHANGED <<longest, kill, result>> /\ result = "none" /\ list.next[0] # Nil
      /\ entry' = list.next[entry] /\ IsCall(entry)
      /\ \/ ~StepOK(state, Input, Output)
         \/ CacheContains(linearized \cup {Id(entry)}, StepState(state, Input))
  BY DEF Skip, Looping
<1>2. longest' \in [Ids -> Seq(Ids)] /\ \A i \in Ids : Len(longest[i]) <= Len(longest'[i])
  BY <1>0, <1>1 DEF LongestOK
<1>3. /\ EntriesOK' /\ StackOK' /\ CacheOK' /\ Chosen' = Chosen
      /\ Rest(Len(calls))' = Rest(Len(calls))
      /\ \A p : Passed(Len(calls), p) => Passed(Len(calls), p)'
      /\ (list \in Lists /\ Linked(list, Rest(Len(calls))))'
  BY <1>0, <1>1, <1>2, Quiet
<1> DEFINE K == Len(calls)
           R == Rest(K)
<1>4. entry \in R /\ R \subseteq Nodes
  BY <1>0, <1>1, ListFacts DEF Rest
<1>5. IsNext(R, entry, list.next[entry])
  BY <1>0, <1>4 DEF ListOK, Linked, Fits
<1>6. Refused(K, entry)
  <2>1. StateAt(K) = state /\ Lin(K) = linearized
    BY <1>0 DEF StateAt, StackOK
  <2> QED
    BY <2>1, <1>1, Zenon DEF Refused, CacheContains, Input, Output
<1>7. ASSUME NEW q \in R, q < list.next[entry] PROVE IsCall(q) /\ Refused(K, q)
  <2>1. q \in Nat /\ entry \in Nat /\ list.next[entry] \in Nat /\ n \in Nat
    <3>1. n \in Nat
      BY <1>0 DEF EntriesOK
    <3>2. Nil \in Nat /\ Nodes \subseteq Nat
      BY <3>1 DEF Nil, Nodes
    <3>3. list.next[entry] \in R \cup {Nil} /\ q \in Nodes /\ entry \in Nodes
      BY <1>4, <1>5, <1>7 DEF IsNext
    <3> HIDE DEF R
    <3> QED
      BY <3>1, <3>2, <3>3, <1>4
  <2>2. ~(entry < q)
    BY <1>5, <1>7, <2>1 DEF IsNext
  <2>3. CASE q = entry
    BY <2>3, <1>1, <1>6
  <2>4. CASE q < entry
    BY <2>4, <1>0 DEF ListOK, Passed
  <2> QED
    BY <2>1, <2>2, <2>3, <2>4
<1>8. PICK e : e = list.next[entry]
  OBVIOUS
<1>9. Passed(K, e)
  BY <1>7, <1>8 DEF Passed
<1>10. Passed(K, e)'
  BY <1>3, <1>9
<1>11. ListOK'
  <2>1. entry' \in Rest(Len(calls))' \cup {Nil'}
    BY <1>1, <1>3, <1>5, Static DEF IsNext
  <2>2. entry' = e
    BY <1>1, <1>8
  <2>3. Passed(Len(calls), entry)'
    BY <1>10, <2>2, Zenon DEF Passed
  <2> QED
    BY <1>3, <2>1, <2>3 DEF ListOK
<1>12. LongestOK'
  <2>1. PartialsReplay'
    BY <1>0, <1>1, Static, Zenon DEF LongestOK, PartialsReplay
  <2> QED
    BY <1>0, <1>1, <1>2, <2>1, Static DEF LongestOK
<1>13. ResultOK'
  BY <1>0, <1>1 DEF ResultOK
<1> QED
  BY <1>3, <1>11, <1>12, <1>13 DEF SearchInv

\* The stack and what is left of the list after a call was lifted.
LEMMA LinearizeLevels ==
  ASSUME SearchInv, Linearize, NEW K, K = Len(calls)
  PROVE  /\ K \in Nat /\ Len(calls)' = K + 1
         /\ \A j \in 1..K : calls'[j] = calls[j]
         /\ calls'[K+1] = [entry |-> entry, state |-> state]
         /\ (\E X : calls \in Seq([entry : Nodes, state : X]))'
         /\ \A k \in 0..K : StateAt(k)' = StateAt(k)
         /\ StateAt(K+1)' = state'
         /\ Lin(K+1)' = Lin(K) \cup {Id(entry)}
         /\ Rest(K+1)' = Rest(K) \ {entry, Match(entry)}
         /\ entry \in Rest(K) /\ entry \in Nodes /\ Match(entry) \in Rest(K) /\ IsCall(entry)
<1>0. EntriesOK /\ StackOK /\ ListOK
  BY DEF SearchInv
<1>1. /\ UNCHANGED <<history, entries, longest, kill, result>> /\ list.next[0] # Nil /\ IsCall(entry)
      /\ calls' = Append(calls, [entry |-> entry, state |-> state])
  BY DEF Linearize, Looping
<1>2. K \in Nat /\ K \in 0..Len(calls)
  BY <1>0, CallsFacts
<1>3. entry \in Rest(K) /\ Match(entry) \in Rest(K) /\ entry \in Nodes
  BY <1>0, <1>1, <1>2, ListFacts, RestFacts
<1>4. PICK X : calls \in Seq([entry : Nodes, state : X])
  BY <1>0 DEF StackOK
<1>5. /\ Len(calls)' = K + 1 /\ \A j \in 1..K : calls'[j] = calls[j]
      /\ calls'[K+1] = [entry |-> entry, state |-> state]
      /\ calls' \in Seq([entry : Nodes, state : X \cup {state}])
  <2> DEFINE S == [entry : Nodes, state : X \cup {state}]
             c == [entry |-> entry, state |-> state]
  <2>1. calls \in Seq(S) /\ c \in S
    <3>1. [entry : Nodes, state : X] \subseteq S
      OBVIOUS
    <3> DEFINE T == [entry : Nodes, state : X]
    <3>2. calls \in Seq(T) /\ T \subseteq S
      BY <1>4, <3>1
    <3>3. c \in S
      BY <1>3
    <3> HIDE DEF S, T
    <3>4. calls \in Seq(S)
      BY <3>2
    <3> QED
      BY <3>3, <3>4
  <2> HIDE DEF S, c
  <2>2. calls' = Append(calls, c)
    BY <1>1 DEF c
  <2>3. /\ calls' \in Seq(S) /\ Len(calls') = K + 1 /\ calls'[K+1] = c
        /\ \A j \in 1..K : calls'[j] = calls[j]
    BY <2>1, <2>2
  <2> QED
    BY <2>3 DEF S, c
<1>6. Len(calls') = K + 1
  BY <1>5
<1>7. ASSUME NEW k \in 0..K PROVE StateAt(k)' = StateAt(k)
  <2>1. k # K + 1 /\ k \in Nat
    BY <1>2
  <2>2. StateAt(k)' = calls'[k+1].state
    BY <2>1, <1>6 DEF StateAt
  <2>3. CASE k = K
    <3>1. calls'[k+1].state = state
      BY <2>3, <1>5
    <3> QED
      BY <2>2, <2>3, <3>1 DEF StateAt
  <2>4. CASE k # K
    <3>1. k+1 \in 1..K
      BY <2>1, <2>4, <1>2
    <3>2. calls'[k+1] = calls[k+1]
      BY <3>1, <1>5
    <3> QED
      BY <2>2, <2>4, <3>2 DEF StateAt
  <2> QED
    BY <2>3, <2>4
<1>8. StateAt(K+1)' = state'
  BY <1>6 DEF StateAt
<1>9. Lin(K+1)' = Lin(K) \cup {Id(entry)}
  <2>1. Lin(K+1)' = {Id(calls'[j].entry) : j \in 1..(K+1)}
    BY <1>1, Static DEF Lin
  <2>2. 1..(K+1) = (1..K) \cup {K+1}
    BY <1>2
  <2>3. calls'[K+1].entry = entry
    BY <1>5
  <2> QED
    BY <2>1, <2>2, <2>3, <1>5 DEF Lin
<1>10. Rest(K+1)' = Rest(K) \ {entry, Match(entry)}
  <2>1. Rest(K+1)' = {p \in Nodes : Id(p) \notin Lin(K) \cup {Id(entry)}}
    BY <1>1, <1>9, Static DEF Rest
  <2>2. \A p \in Nodes : Id(p) = Id(entry) <=> p \in {entry, Match(entry)}
    BY <1>0, <1>1, <1>3, SameId, MatchFacts
  <2> QED
    BY <2>1, <2>2 DEF Rest
<1> QED
  BY <1>1, <1>2, <1>3, <1>5, <1>7, <1>8, <1>9, <1>10, Static

LEMMA LinearizeStep ==
  ASSUME SearchInv, Linearize
  PROVE  SearchInv'
<1>0. EntriesOK /\ StackOK /\ ListOK /\ CacheOK /\ LongestOK /\ ResultOK
  BY DEF SearchInv
<1>1. /\ UNCHANGED <<history, entries>> /\ UNCHANGED <<longest, kill, result>>
      /\ result = "none" /\ list.next[0] # Nil
      /\ StepOK(state, history[Id(entry)].input, history[Id(entry)].output)
      /\ linearized' = linearized \cup {Id(entry)}
      /\ state' = StepState(state, history[Id(entry)].input)
      /\ cache' = cache \cup {<<linearized', state'>>}
      /\ list' = Lift(list, entry) /\ entry' = list'.next[0]
  BY DEF Linearize, Looping, Input, Output
<1>K. PICK K : K = Len(calls)
  OBVIOUS
<1>e. PICK e : e = entry
  OBVIOUS
<1>m. PICK m : m = Match(e)
  OBVIOUS
<1>R. PICK R : R = Rest(K)
  OBVIOUS
<1>2. /\ K \in Nat /\ Len(calls)' = K + 1
      /\ \A j \in 1..K : calls'[j] = calls[j]
      /\ calls'[K+1] = [entry |-> e, state |-> state]
      /\ (\E X : calls \in Seq([entry : Nodes, state : X]))'
      /\ \A k \in 0..K : StateAt(k)' = StateAt(k)
      /\ StateAt(K+1)' = state'
      /\ Lin(K+1)' = Lin(K) \cup {Id(e)}
      /\ Rest(K+1)' = R \ {e, m}
      /\ e \in R /\ e \in Nodes /\ m \in R /\ IsCall(e)
  BY <1>K, <1>e, <1>m, <1>R, LinearizeLevels
<1>3. R \in SUBSET Nodes /\ list \in Lists /\ Linked(list, R)
  BY <1>0, <1>K, <1>R DEF ListOK, Rest
<1>4. /\ list' \in Lists /\ Linked(Lift(list, e), R \ {e, m})
      /\ Fits(Lift(list, e), R, e) /\ Fits(Lift(list, e), R \ {e}, m)
      /\ \A q \in Nodes \ R : list'.next[q] = list.next[q] /\ list'.prev[q] = list.prev[q]
  <2>1. EntriesOK /\ IsCall(e) /\ e \in R /\ Match(e) \in R
    BY <1>0, <1>2, <1>m
  <2>2. /\ Lift(list, e) \in Lists /\ Linked(Lift(list, e), R \ {e, Match(e)})
        /\ Fits(Lift(list, e), R, e) /\ Fits(Lift(list, e), R \ {e}, Match(e))
        /\ \A q \in Nodes \ R : Lift(list, e).next[q] = list.next[q] /\ Lift(list, e).prev[q] = list.prev[q]
    BY <2>1, <1>3, LiftLinks, Zenon
  <2>3. list' = Lift(list, e)
    BY <1>1, <1>e
  <2> QED
    BY <2>2, <2>3, <1>m, Zenon
<1>5. /\ StateAt(K) = state /\ Lin(K) = linearized /\ Passed(K, e)
  BY <1>0, <1>K, <1>e DEF StateAt, StackOK, ListOK
<1>6. \A j \in 1..K : \A p \in {calls[j].entry, Match(calls[j].entry)} :
        list'.next[p] = list.next[p] /\ list'.prev[p] = list.prev[p]
  <2> SUFFICES ASSUME NEW j \in 1..K, NEW p \in {calls[j].entry, Match(calls[j].entry)}
               PROVE  p \in Nodes \ R
    BY <1>4
  <2>1. calls[j].entry \in Nodes
    BY <1>0, <1>K, CallsFacts
  <2>2. p \in Nodes /\ Id(p) = Id(calls[j].entry)
    BY <2>1, <1>0, MatchFacts
  <2>3. Id(p) \in Lin(K)
    BY <2>2 DEF Lin
  <2> QED
    BY <2>2, <2>3, <1>R DEF Rest
<1>7. /\ \A k \in 0..K : Lin(k)' = Lin(k) /\ Rest(k)' = Rest(k) /\ Config(k)' = Config(k)
      /\ \A k \in 0..K : \A p : Passed(k, p) => Passed(k, p)'
      /\ \A k \in 1..K : Frame(k)'
  <2>1. K \in 0..Len(calls) /\ K <= Len(calls)' /\ Len(calls)' \in Nat
    BY <1>2, <1>K
  <2>2. cache \subseteq cache'
    BY <1>1
  <2> QED
    BY <2>1, <2>2, <1>0, <1>1, <1>2, <1>6, Kept
<1>8. Config(K+1)' \in cache' /\ Config(K+1)' = <<linearized', state'>> /\ linearized' = Lin(K+1)'
  BY <1>1, <1>2, <1>5, <1>e DEF Config
<1>9. Frame(K+1)'
  <2>1. calls'[K+1].entry = e /\ calls'[K+1].state = state /\ (K+1) - 1 = K /\ K \in 0..K
    BY <1>2
  <2>2. Rest(K)' = R /\ Match(e)' = m /\ Id(e)' = Id(e) /\ IsCall(e)' /\ history' = history
    BY <1>1, <1>2, <1>7, <1>m, <1>R, <2>1, Static
  <2>3. Passed(K, e)'
    BY <1>5, <1>7, <2>1
  <2>4. PICK T : T = R \ {e}
    OBVIOUS
  <2>5. PICK l : l = Lift(list, e)
    OBVIOUS
  <2>6. Fits(l, R, e) /\ Fits(l, T, m) /\ list' = l
    BY <1>1, <1>4, <1>e, <2>4, <2>5
  <2>7. Fits(l, R, e)' /\ Fits(l, T, m)'
    BY <1>1, <2>6, Static
  <2>8. Fits(list, R, e)' /\ Fits(list, T, m)'
    BY <2>6, <2>7, Zenon DEF Fits
  <2>9. /\ StepOK(calls'[K+1].state, history'[Id(e)'].input, history'[Id(e)'].output)
        /\ StateAt(K+1)' = StepState(calls'[K+1].state, history'[Id(e)'].input)
    BY <1>1, <1>2, <1>e, <2>1, <2>2, Zenon
  <2> QED
    BY <1>2, <1>8, <2>1, <2>2, <2>3, <2>4, <2>8, <2>9, Zenon DEF Frame
<1>10. StackOK'
  <2>1. StateAt(0)' = InitState
    BY <1>0, <1>2 DEF StackOK
  <2>2. \A k \in 1..(K+1) : Frame(k)'
    <3>1. \A k \in 1..(K+1) : k \in 1..K \/ k = K+1
      BY <1>2
    <3> QED
      BY <3>1, <1>7, <1>9, Zenon
  <2>3. linearized' = Lin(Len(calls))'
    BY <1>2, <1>8, Zenon DEF Lin
  <2> QED
    BY <2>1, <2>2, <2>3, <1>2, Zenon DEF StackOK
<1>11. ListOK'
  <2>1. PICK T : T = R \ {e, m}
    OBVIOUS
  <2>2. PICK l : l = Lift(list, e)
    OBVIOUS
  <2>3. list' = l /\ Linked(l, T) /\ Lists' = Lists /\ Nil' = Nil
    BY <1>1, <1>4, <1>e, <2>1, <2>2, Static
  <2>4. Linked(l, T)'
    BY <2>3, <1>1, Static
  <2>5. Rest(Len(calls))' = T
    BY <1>2, <2>1, Zenon DEF Rest, Lin
  <2>6. Linked(list, Rest(Len(calls)))'
    BY <2>3, <2>4, <2>5, Zenon DEF Linked, Fits
  <2>7. IsNext(T, 0, l.next[0]) /\ entry' = l.next[0]
    BY <2>3, <1>1 DEF Linked
  <2>8. entry' \in T \cup {Nil}
    BY <2>7 DEF IsNext
  <2>9. ~ \E q \in T : q < entry'
    <3>0. n \in Nat
      BY <1>0 DEF EntriesOK
    <3>1. T \subseteq Nodes /\ Nil \in Nat /\ \A q \in Nodes : q \in Nat /\ 0 < q
      <4>1. T \subseteq Nodes
        BY <1>3, <2>1
      <4> QED
        BY <3>0, <4>1 DEF Nil, Nodes
    <3>2. entry' \in Nat
      BY <3>1, <2>8
    <3>3. \A q \in T : entry' <= q
      BY <3>1, <2>7 DEF IsNext
    <3> QED
      BY <3>1, <3>2, <3>3
  <2>10. Passed(Len(calls), entry)'
    BY <2>5, <2>9, Zenon DEF Passed
  <2> QED
    BY <2>3, <2>5, <2>6, <2>8, <2>10, <1>4 DEF ListOK
<1>12. CacheOK'
  <2>1. ASSUME NEW c \in cache' PROVE (\E k \in 1..(K+1) : c = Config(k)') \/ Done(c)'
    <3>1. CASE c \in cache
      <4>1. (\E k \in 1..K : c = Config(k)) \/ Done(c)
        BY <1>0, <1>K, <3>1 DEF CacheOK
      <4>2. \A k \in 1..K : Config(k)' = Config(k) /\ k \in 1..(K+1)
        BY <1>2, <1>7
      <4>3. longest' \in [Ids -> Seq(Ids)] /\ \A i \in Ids : Len(longest[i]) <= Len(longest'[i])
        BY <1>0, <1>1 DEF LongestOK
      <4>4. Done(c) => Done(c)'
        BY <1>0, <1>1, <4>3, DoneKept DEF LongestOK
      <4> QED
        BY <4>1, <4>2, <4>4
    <3>2. CASE c \notin cache
      <4>1. c = Config(K+1)' /\ K+1 \in 1..(K+1)
        <5>1. K+1 \in 1..(K+1)
          BY <1>2
        <5>2. c = <<linearized', state'>>
          BY <1>1, <2>1, <3>2, Zenon
        <5> QED
          BY <5>1, <5>2, <1>8
      <4> QED
        BY <4>1
    <3> QED
      BY <3>1, <3>2
  <2> QED
    BY <2>1, <1>2, Zenon DEF CacheOK
<1>13. LongestOK'
  <2>1. PartialsReplay'
    BY <1>0, <1>1, Static, Zenon DEF LongestOK, PartialsReplay
  <2> QED
    BY <1>0, <1>1, <2>1, Static DEF LongestOK
<1>14. ResultOK'
  BY <1>0, <1>1 DEF ResultOK
<1> QED
  BY <1>0, <1>1, <1>10, <1>11, <1>12, <1>13, <1>14, Static DEF SearchInv

\* The stack and the list after the last call was put back.
LEMMA BacktrackLevels ==
  ASSUME SearchInv, Backtrack, NEW J, J = Len(calls) - 1, NEW e, e = calls[J+1].entry
  PROVE  /\ J \in Nat /\ J + 1 = Len(calls) /\ Len(calls)' = J
         /\ \A j \in 1..J : calls'[j] = calls[j]
         /\ (\E X : calls \in Seq([entry : Nodes, state : X]))'
         /\ \A k \in 0..J : StateAt(k)' = StateAt(k)
         /\ Lin(J+1) = Lin(J) \cup {Id(e)} /\ Id(e) \notin Lin(J)
         /\ Rest(J+1) = Rest(J) \ {e, Match(e)}
         /\ e \in Rest(J) /\ e \in Nodes /\ Match(e) \in Rest(J) /\ IsCall(e)
         /\ state' = calls[J+1].state /\ linearized' = linearized \ {Id(e)}
         /\ list' = Unlift(list, e) /\ entry' = list'.next[e]
<1>0. EntriesOK /\ StackOK /\ ListOK
  BY DEF SearchInv
<1>1. /\ UNCHANGED <<history, entries, cache, kill, result>> /\ calls # <<>>
      /\ state' = Last(calls).state
      /\ linearized' = linearized \ {Id(Last(calls).entry)}
      /\ list' = Unlift(list, Last(calls).entry)
      /\ entry' = list'.next[Last(calls).entry]
      /\ calls' = Front(calls)
  BY DEF Backtrack
<1>2. PICK X : calls \in Seq([entry : Nodes, state : X])
  BY <1>0 DEF StackOK
<1>3. /\ J \in Nat /\ J + 1 = Len(calls) /\ Len(calls') = J /\ \A j \in 1..J : calls'[j] = calls[j]
      /\ calls' \in Seq([entry : Nodes, state : X]) /\ Last(calls) = calls[J+1]
  <2> DEFINE S == [entry : Nodes, state : X]
  <2>1. calls \in Seq(S)
    BY <1>2
  <2> HIDE DEF S
  <2>2. Len(calls) \in Nat /\ Len(calls) # 0
    BY <2>1, <1>1
  <2>3. J \in Nat /\ J + 1 = Len(calls)
    BY <2>2
  <2>4. calls' = SubSeq(calls, 1, J)
    BY <1>1 DEF Front
  <2>5. Len(calls') = J /\ calls' \in Seq(S) /\ \A j \in 1..J : calls'[j] = calls[j]
    BY <2>1, <2>3, <2>4
  <2>6. Last(calls) = calls[J+1]
    BY <2>3 DEF Last
  <2> QED
    BY <2>3, <2>5, <2>6 DEF S
<1>4. J+1 \in 1..Len(calls) /\ (J+1) - 1 = J /\ J \in 0..Len(calls)
  BY <1>3
<1>5. e \in Rest(J) /\ IsCall(e) /\ calls[J+1].state = StateAt(J)
  BY <1>0, <1>4, FrameFacts
<1>6. e \in Nodes /\ Match(e) \in Rest(J)
  BY <1>0, <1>4, <1>5, RestFacts
<1>7. ASSUME NEW k \in 0..J PROVE StateAt(k)' = StateAt(k)
  <2>1. CASE k = J
    <3>1. StateAt(k)' = state'
      BY <2>1, <1>3 DEF StateAt
    <3> QED
      BY <2>1, <3>1, <1>1, <1>3, <1>5
  <2>2. CASE k # J
    <3>1. k+1 \in 1..J /\ k # Len(calls) /\ k # Len(calls')
      BY <2>2, <1>3
    <3>2. calls'[k+1] = calls[k+1]
      BY <3>1, <1>3
    <3> QED
      BY <3>1, <3>2 DEF StateAt
  <2> QED
    BY <2>1, <2>2
<1>8. Lin(J+1) = Lin(J) \cup {Id(e)} /\ Id(e) \notin Lin(J)
  BY <1>0, <1>4, ChosenDistinct
<1>9. Rest(J+1) = Rest(J) \ {e, Match(e)}
  <2>1. \A p \in Nodes : Id(p) = Id(e) <=> p \in {e, Match(e)}
    BY <1>0, <1>5, <1>6, SameId, MatchFacts
  <2> QED
    BY <2>1, <1>8 DEF Rest
<1> QED
  BY <1>1, <1>3, <1>5, <1>6, <1>7, <1>8, <1>9, Static

\* What is recorded when a search path ends.
LEMMA Recorded ==
  ASSUME SearchInv, Backtrack
  PROVE  /\ longest' \in [Ids -> Seq(Ids)]
         /\ \A i \in Ids : Len(longest[i]) <= Len(longest'[i])
         /\ \A i \in linearized : Len(calls) <= Len(longest'[i])
         /\ \A i \in Ids : Len(longest'[i]) < n
         /\ PartialsReplay'
<1>0. EntriesOK /\ StackOK /\ ListOK /\ LongestOK /\ ResultOK
  BY DEF SearchInv
<1>1. UNCHANGED <<history, entries>> /\ longest' = RecordLongest /\ result = "none" /\ list.next[0] # Nil
  BY DEF Backtrack, Looping
<1>K. PICK K : K = Len(calls)
  OBVIOUS
<1>C. PICK C : C = Chosen
  OBVIOUS
<1>2. C \in Seq(Ids) /\ Len(C) = K /\ K \in Nat /\ n \in Nat /\ DOMAIN C = 1..K
  BY <1>0, <1>K, <1>C, ChosenOrder DEF EntriesOK
<1>3. linearized = {C[j] : j \in 1..K} /\ linearized \subseteq Ids
  <2>1. K \in 0..Len(calls)
    BY <1>2, <1>K
  <2> QED
    <3>0. \A k \in 0..Len(calls) : Lin(k) = {Chosen[j] : j \in 1..k}
      BY <1>0, ChosenDistinct
    <3>1. Lin(K) = {C[j] : j \in 1..K}
      BY <2>1, <3>0, <1>C, Zenon
    <3>2. Lin(K) \subseteq Ids
      BY <2>1, <1>0, CallsFacts
    <3>3. linearized = Lin(K)
      BY <1>0, <1>K DEF StackOK
    <3> QED
      BY <3>1, <3>2, <3>3
<1>4. K < n
  <2>1. Id(entry) \in Ids \ Lin(K) /\ K \in 0..Len(calls)
    BY <1>0, <1>1, <1>2, <1>K, ListFacts, RestFacts
  <2>2. Lin(K) = {C[j] : j \in 1..K} /\ C \in [1..K -> 1..n] /\ \A j, k \in 1..K : C[j] = C[k] => j = k
    BY <1>0, <2>1, <1>K, <1>C, ChosenDistinct DEF Ids
  <2>3. \E x \in 1..n : x \notin {C[j] : j \in 1..K}
    BY <2>1, <2>2 DEF Ids
  <2> QED
    BY <1>2, <2>2, <2>3, Pigeonhole
<1>5. \A i \in Ids : longest'[i] = IF i \in linearized /\ K > Len(longest[i]) THEN C ELSE longest[i]
  BY <1>1, <1>2, <1>C DEF RecordLongest
<1>6. \A i \in Ids : longest[i] \in Seq(Ids) /\ Len(longest[i]) \in Nat /\ Len(longest[i]) < n
  BY <1>0, <1>1 DEF LongestOK
<1>7. longest' \in [Ids -> Seq(Ids)]
  BY <1>1, <1>2, <1>6, <1>C DEF RecordLongest
<1>8. \A i \in Ids : Len(longest[i]) <= Len(longest'[i]) /\ Len(longest'[i]) < n
  BY <1>2, <1>4, <1>5, <1>6
<1>9. \A i \in linearized : K <= Len(longest'[i])
  BY <1>2, <1>3, <1>5, <1>6
<1>10. PartialsReplay'
  <2>1. C \in PartialLinearizations(history, Before) /\ \A i \in linearized : i \in Range(C)
    BY <1>0, <1>C, <1>2, <1>3, ChosenPartial DEF Range
  <2>2. \A i \in Ids : longest[i] # <<>> => longest[i] \in PartialLinearizations(history, Before) /\ i \in Range(longest[i])
    BY <1>0 DEF LongestOK, PartialsReplay
  <2>3. \A i \in Ids : longest'[i] # <<>> =>
          longest'[i] \in PartialLinearizations(history, Before) /\ i \in Range(longest'[i])
    BY <2>1, <2>2, <1>5, Zenon
  <2> QED
    BY <2>3, <1>1, Static DEF PartialsReplay
<1> QED
  BY <1>7, <1>8, <1>9, <1>10, <1>K

\* The configuration that is left behind is done.
LEMMA LeftDone ==
  ASSUME SearchInv, Backtrack
  PROVE  \A c : c = Config(Len(calls)) => Done(c)'
<1>0. EntriesOK /\ StackOK /\ ListOK /\ CacheOK /\ LongestOK
  BY DEF SearchInv
<1>1. UNCHANGED <<history, entries>> /\ list.next[0] # Nil /\ ~IsCall(entry)
  BY DEF Backtrack, Looping
<1>K. PICK K : K = Len(calls) /\ K \in Nat /\ K \in 0..Len(calls)
  BY <1>0, CallsFacts
<1>2. /\ longest \in [Ids -> Seq(Ids)] /\ longest' \in [Ids -> Seq(Ids)]
      /\ \A i \in Ids : Len(longest[i]) <= Len(longest'[i])
      /\ \A i \in linearized : K <= Len(longest'[i])
  BY <1>0, <1>K, Recorded DEF LongestOK
<1>3. linearized = Lin(K)
  BY <1>0, <1>K DEF StackOK
<1>4. ASSUME NEW s \in PartialLinearizations(history, EntriesBefore), NEW k \in 0..Len(s),
             Config(K) = Through(s, k)
      PROVE  Bounded(s)'
  <2>1. Len(s) \in 0..n /\ n \in Nat /\ DOMAIN s = 1..Len(s) /\ s \in [1..Len(s) -> 1..n]
        /\ \A j, l \in 1..Len(s) : s[j] = s[l] => j = l
    BY <1>0, PartialFacts DEF EntriesOK, Ids
  <2>2. CASE k # Len(s)
    <3>1. k \in 0..(Len(s) - 1)
      <4>1. Len(s) \in Nat /\ k \in Nat /\ k <= Len(s)
        BY <2>1, <1>4
      <4> QED
        BY <4>1, <2>2
    <3>2. Bounded(s)
      BY <3>1, <1>0, <1>1, <1>4, <1>K, Exhausted
    <3> QED
      BY <3>2, <1>0, <1>2, BoundedKept
  <2>3. CASE k = Len(s)
    <3>1. Lin(K) = {s[j] : j \in 1..Len(s)}
      BY <1>4, <2>3 DEF Config, Through
    <3>2. Cardinality(Lin(K)) = Len(s)
      <4>1. Len(s) \in Nat
        BY <2>1
      <4>2. Cardinality({s[j] : j \in 1..Len(s)}) = Len(s)
        BY <4>1, <2>1, Distinct, Zenon
      <4> QED
        BY <3>1, <4>2, Zenon
    <3>3. /\ Chosen \in [1..K -> 1..n] /\ \A j, l \in 1..K : Chosen[j] = Chosen[l] => j = l
          /\ Lin(K) = {Chosen[j] : j \in 1..K}
      BY <1>0, <1>K, ChosenDistinct DEF Ids
    <3>4. Cardinality(Lin(K)) = K
      <4>1. Cardinality({Chosen[j] : j \in 1..K}) = K
        BY <3>3, <1>K, <2>1, Distinct, Zenon
      <4> QED
        BY <3>3, <4>1, Zenon
    <3>5. \A j \in DOMAIN s : s[j] \in linearized
      BY <3>1, <1>3, <2>1
    <3> QED
      BY <3>2, <3>4, <3>5, <1>2 DEF Bounded
  <2> QED
    BY <2>2, <2>3
<1>5. /\ PartialLinearizations(history, EntriesBefore)' = PartialLinearizations(history, EntriesBefore)
      /\ \A s, k : Through(s, k)' = Through(s, k)
  BY <1>1, Static
<1> SUFFICES ASSUME NEW c, c = Config(K) PROVE Done(c)'
  BY <1>K
<1> QED
  BY <1>4, <1>5, Zenon DEF Done

LEMMA BacktrackStep ==
  ASSUME SearchInv, Backtrack
  PROVE  SearchInv'
<1>0. EntriesOK /\ StackOK /\ ListOK /\ CacheOK /\ LongestOK /\ ResultOK
  BY DEF SearchInv
<1>1. UNCHANGED <<history, entries>> /\ UNCHANGED <<cache, kill, result>> /\ result = "none"
  BY DEF Backtrack, Looping
<1>J. PICK J : J = Len(calls) - 1
  OBVIOUS
<1>e. PICK e : e = calls[J+1].entry
  OBVIOUS
<1>m. PICK m : m = Match(e)
  OBVIOUS
<1>R. PICK R : R = Rest(J)
  OBVIOUS
<1>2. /\ J \in Nat /\ J + 1 = Len(calls) /\ Len(calls)' = J
      /\ \A j \in 1..J : calls'[j] = calls[j]
      /\ (\E X : calls \in Seq([entry : Nodes, state : X]))'
      /\ \A k \in 0..J : StateAt(k)' = StateAt(k)
      /\ Lin(J+1) = Lin(J) \cup {Id(e)} /\ Id(e) \notin Lin(J)
      /\ Rest(J+1) = R \ {e, m}
      /\ e \in R /\ e \in Nodes /\ m \in R /\ IsCall(e)
      /\ state' = calls[J+1].state /\ linearized' = linearized \ {Id(e)}
      /\ list' = Unlift(list, e) /\ entry' = list'.next[e]
  BY <1>J, <1>e, <1>m, <1>R, BacktrackLevels
<1>3. /\ J+1 \in 1..Len(calls) /\ (J+1) - 1 = J /\ J \in 0..Len(calls) /\ J \in 0..J
  BY <1>2
<1>4. /\ Fits(list, R, e) /\ Fits(list, R \ {e}, m) /\ Passed(J, e) /\ Config(J+1) \in cache
      /\ StateAt(J+1) = StepState(StateAt(J), history[Id(e)].input)
  BY <1>0, <1>3, <1>e, <1>m, <1>R, FrameFacts
<1>5. R \in SUBSET Nodes /\ list \in Lists /\ Linked(list, R \ {e, m}) /\ linearized = Lin(J+1)
  BY <1>0, <1>2, <1>R DEF ListOK, StackOK, Rest
<1>6. /\ list' \in Lists /\ Linked(Unlift(list, e), R)
      /\ \A q \in Nodes \ R : list'.next[q] = list.next[q] /\ list'.prev[q] = list.prev[q]
  <2>1. EntriesOK /\ IsCall(e) /\ e \in R /\ Match(e) \in R /\ Linked(list, R \ {e, Match(e)})
        /\ Fits(list, R, e) /\ Fits(list, R \ {e}, Match(e)) /\ R \in SUBSET Nodes /\ list \in Lists
    BY <1>0, <1>2, <1>4, <1>5, <1>m
  <2>2. /\ Unlift(list, e) \in Lists /\ Linked(Unlift(list, e), R)
        /\ \A q \in Nodes \ R : Unlift(list, e).next[q] = list.next[q] /\ Unlift(list, e).prev[q] = list.prev[q]
    BY <2>1, UnliftLinks, Zenon
  <2>3. list' = Unlift(list, e)
    BY <1>2
  <2> QED
    BY <2>2, <2>3, Zenon
<1>7. \A j \in 1..J : \A p \in {calls[j].entry, Match(calls[j].entry)} :
        list'.next[p] = list.next[p] /\ list'.prev[p] = list.prev[p]
  <2> SUFFICES ASSUME NEW j \in 1..J, NEW p \in {calls[j].entry, Match(calls[j].entry)}
               PROVE  p \in Nodes \ R
    BY <1>6
  <2>0. j \in 1..Len(calls)
    BY <1>2
  <2>1. calls[j].entry \in Nodes
    BY <2>0, <1>0, CallsFacts
  <2>2. p \in Nodes /\ Id(p) = Id(calls[j].entry)
    BY <2>1, <1>0, MatchFacts
  <2>3. Id(p) \in Lin(J)
    BY <2>2 DEF Lin
  <2> QED
    BY <2>2, <2>3, <1>R DEF Rest
<1>8. /\ \A k \in 0..J : Lin(k)' = Lin(k) /\ Rest(k)' = Rest(k) /\ Config(k)' = Config(k)
      /\ \A k \in 0..J : \A p : Passed(k, p) => Passed(k, p)'
      /\ \A k \in 1..J : Frame(k)'
  <2>1. J <= Len(calls)' /\ Len(calls)' \in Nat /\ cache \subseteq cache'
    BY <1>1, <1>2
  <2> QED
    BY <2>1, <1>0, <1>1, <1>2, <1>3, <1>7, Kept
<1>9. StackOK'
  <2>1. StateAt(0)' = InitState
    BY <1>0, <1>2 DEF StackOK
  <2>2. linearized' = Lin(J)'
    BY <1>2, <1>3, <1>5, <1>8
  <2> QED
    BY <2>1, <2>2, <1>2, <1>8, Zenon DEF StackOK
<1>10. ListOK'
  <2>2. PICK l : l = Unlift(list, e)
    OBVIOUS
  <2>3. list' = l /\ Linked(l, R) /\ Lists' = Lists /\ Nil' = Nil
    BY <1>1, <1>2, <1>6, <2>2, Static
  <2>4. Linked(l, R)'
    BY <2>3, <1>1, Static
  <2>5. Rest(J)' = R
    BY <1>3, <1>8, <1>R
  <2>6. Linked(list, Rest(Len(calls)))'
    BY <2>3, <2>4, <2>5, <1>2, Zenon DEF Linked, Fits
  <2>7. PICK x : x = l.next[e]
    OBVIOUS
  <2>8. IsNext(R, e, x) /\ entry' = x
    BY <2>3, <2>7, <1>2 DEF Linked, Fits
  <2>9. ASSUME NEW q \in R, q < x PROVE IsCall(q) /\ Refused(J, q)
    <3>0. n \in Nat
      BY <1>0 DEF EntriesOK
    <3>1. Nil \in Nat /\ Nodes \subseteq Nat
      BY <3>0 DEF Nil, Nodes
    <3>2. q \in Nat /\ e \in Nat /\ x \in Nat
      BY <3>1, <2>8, <1>2, <1>5 DEF IsNext
    <3>3. ~(e < q)
      BY <3>2, <2>8, <2>9 DEF IsNext
    <3>4. CASE q = e
      <4>1. Config(J+1) = <<Lin(J) \cup {Id(e)}, StepState(StateAt(J), history[Id(e)].input)>>
        BY <1>2, <1>4 DEF Config
      <4> QED
        BY <3>4, <4>1, <1>2, <1>4 DEF Refused
    <3>5. CASE q < e
      BY <3>5, <1>4, <1>R DEF Passed
    <3> QED
      BY <3>2, <3>3, <3>4, <3>5
  <2>10. Passed(J, x)
    BY <2>9, <1>R DEF Passed
  <2>11. Passed(J, x)'
    BY <2>10, <1>3, <1>8
  <2>12. Passed(Len(calls), entry)'
    BY <2>8, <2>11, <1>2, Zenon DEF Passed
  <2>13. (entry \in Rest(Len(calls)) \cup {Nil})'
    BY <2>3, <2>5, <2>8, <1>2 DEF IsNext
  <2> QED
    BY <2>3, <2>6, <2>12, <2>13, <1>6, Zenon DEF ListOK
<1>11. /\ longest \in [Ids -> Seq(Ids)] /\ longest' \in [Ids -> Seq(Ids)]
       /\ \A i \in Ids : Len(longest[i]) <= Len(longest'[i])
       /\ \A i \in Ids : Len(longest'[i]) < n
       /\ PartialsReplay'
  BY <1>0, Recorded DEF LongestOK
<1>12. CacheOK'
  <2>1. ASSUME NEW c \in cache' PROVE (\E k \in 1..J : c = Config(k)') \/ Done(c)'
    <3>1. (\E k \in 1..(J+1) : c = Config(k)) \/ Done(c)
      BY <1>0, <1>1, <1>2 DEF CacheOK
    <3>2. CASE Done(c)
      BY <3>2, <1>0, <1>1, <1>11, DoneKept
    <3>3. ASSUME NEW k \in 1..(J+1), c = Config(k) PROVE (\E k2 \in 1..J : c = Config(k2)') \/ Done(c)'
      <4>1. CASE k = J+1
        BY <4>1, <3>3, <1>2, LeftDone
      <4>2. CASE k # J+1
        <5>1. k \in 1..J /\ k \in 0..J
          BY <4>2, <1>2
        <5> QED
          BY <5>1, <3>3, <1>8
      <4> QED
        BY <4>1, <4>2
    <3> QED
      BY <3>1, <3>2, <3>3
  <2> QED
    BY <2>1, <1>2, Zenon DEF CacheOK
<1>13. LongestOK'
  BY <1>1, <1>11, Static DEF LongestOK
<1>14. ResultOK'
  BY <1>0, <1>1 DEF ResultOK
<1> QED
  BY <1>0, <1>1, <1>9, <1>10, <1>12, <1>13, <1>14, Static DEF SearchInv

-----------------------------------------------------------------------------
(* The histories the search starts from.                                   *)

\* s is an order of the entries of c operations, each call before its return.
Arranged(s, c) ==
  /\ s \in Seq({"call", "return"} \X (1..c)) /\ Len(s) = 2*c
  /\ \A i \in 1..c : \E p, q \in 1..2*c : p < q /\ s[p] = <<"call", i>> /\ s[q] = <<"return", i>>
  /\ \A p, q \in 1..2*c : s[p] = s[q] => p = q

\* r is s with x inserted at p and y appended.
Inserted(r, s, p, x, y, T) ==
  /\ r \in Seq(T) /\ Len(r) = Len(s) + 2
  /\ \A q \in 1..(p-1) : r[q] = s[q]
  /\ r[p] = x
  /\ \A q \in (p+1)..(Len(s)+1) : r[q] = s[q-1]
  /\ r[Len(s) + 2] = y

LEMMA InsertFacts ==
  ASSUME NEW T, NEW s \in Seq(T), NEW x \in T, NEW y \in T, NEW p \in 1..(Len(s) + 1)
  PROVE  Inserted(InsertAt(s, p, x) \o << y >>, s, p, x, y, T)
<1> DEFINE a == SubSeq(s, 1, p-1)
           b == SubSeq(s, p, Len(s))
           c == a \o <<x>>
           d == c \o b
           t == d \o <<y>>
<1>0. Len(s) \in Nat /\ p \in Nat /\ 1 <= p /\ p <= Len(s) + 1
  OBVIOUS
<1>1. a \in Seq(T) /\ Len(a) = p-1 /\ \A q \in 1..(p-1) : a[q] = s[q]
  BY <1>0
<1>2. b \in Seq(T) /\ Len(b) = Len(s) + 1 - p /\ \A q \in 1..(Len(s) + 1 - p) : b[q] = s[p + q - 1]
  BY <1>0
<1> HIDE DEF a, b
<1>3. c \in Seq(T) /\ Len(c) = p /\ (\A q \in 1..(p-1) : c[q] = s[q]) /\ c[p] = x
  BY <1>0, <1>1
<1> HIDE DEF c
<1>4. d \in Seq(T) /\ Len(d) = Len(s) + 1
  BY <1>0, <1>2, <1>3
<1>5. \A q \in 1..p : d[q] = c[q]
  BY <1>0, <1>2, <1>3
<1>6. \A q \in (p+1)..(Len(s)+1) : d[q] = b[q - p]
  BY <1>0, <1>2, <1>3
<1>7. ASSUME NEW q \in (p+1)..(Len(s)+1) PROVE d[q] = s[q-1]
  <2>1. q - p \in 1..(Len(s) + 1 - p) /\ p + (q - p) - 1 = q - 1
    BY <1>0
  <2> QED
    BY <2>1, <1>2, <1>6
<1>8. (\A q \in 1..(p-1) : d[q] = s[q]) /\ d[p] = x
  BY <1>0, <1>3, <1>5
<1> HIDE DEF d
<1>9. t \in Seq(T) /\ Len(t) = Len(s) + 2 /\ t[Len(s) + 2] = y /\ \A q \in 1..(Len(s)+1) : t[q] = d[q]
  BY <1>0, <1>4
<1> HIDE DEF t
<1>10. InsertAt(s, p, x) \o <<y>> = t
  BY DEF InsertAt, a, b, c, d, t
<1>11. (\A q \in 1..(p-1) : t[q] = s[q]) /\ t[p] = x
  <2>1. p \in 1..(Len(s)+1) /\ \A q \in 1..(p-1) : q \in 1..(Len(s)+1)
    BY <1>0
  <2> QED
    BY <2>1, <1>8, <1>9
<1>12. \A q \in (p+1)..(Len(s)+1) : t[q] = s[q-1]
  <2>1. \A q \in (p+1)..(Len(s)+1) : q \in 1..(Len(s)+1)
    BY <1>0
  <2> QED
    BY <2>1, <1>7, <1>9
<1> QED
  BY <1>9, <1>10, <1>11, <1>12, Zenon DEF Inserted

LEMMA ArrangedLonger ==
  ASSUME NEW c \in Nat, c # 0, NEW s, Arranged(s, c - 1), NEW p \in 1..(2*c - 1)
  PROVE  Arranged(WithOperation(s, p, c), c)
<1> DEFINE t == WithOperation(s, p, c)
           T == {"call", "return"} \X (1..c)
           M == Len(s)
           Place(r) == IF r < p THEN r ELSE r + 1
<1>0. M \in Nat /\ M = 2*c - 2 /\ p \in 1..(M + 1) /\ 2*(c - 1) = M
  BY DEF Arranged
<1>1. s \in Seq(T) /\ (\A r \in 1..M : s[r] \in {"call", "return"} \X (1..(c-1)))
      /\ <<"call", c>> \in T /\ <<"return", c>> \in T
  <2> DEFINE U == {"call", "return"} \X (1..(c-1))
  <2>1. s \in Seq(U)
    BY DEF Arranged
  <2>2. U \subseteq T
    OBVIOUS
  <2>3. <<"call", c>> \in T /\ <<"return", c>> \in T
    OBVIOUS
  <2> HIDE DEF U, T
  <2>4. s \in Seq(T) /\ \A r \in 1..M : s[r] \in U
    BY <2>1, <2>2
  <2> QED
    BY <2>3, <2>4 DEF U
<1> HIDE DEF T
<1>2. /\ t \in Seq(T) /\ Len(t) = M + 2
      /\ \A q \in 1..(p-1) : t[q] = s[q]
      /\ t[p] = <<"call", c>>
      /\ \A q \in (p+1)..(M+1) : t[q] = s[q-1]
      /\ t[M + 2] = <<"return", c>>
  <2>1. PICK x, y : x = <<"call", c>> /\ y = <<"return", c>>
    OBVIOUS
  <2>2. PICK D : D = T
    OBVIOUS
  <2>3. t = InsertAt(s, p, x) \o << y >>
    BY <2>1 DEF WithOperation
  <2> HIDE DEF t
  <2>4. x \in D
    BY <2>1, <2>2, <1>1
  <2>5. y \in D
    BY <2>1, <2>2, <1>1
  <2>6. s \in Seq(D)
    BY <2>2, <1>1
  <2>7. p \in 1..(Len(s) + 1)
    BY <1>0
  <2>8. /\ t \in Seq(D) /\ Len(t) = Len(s) + 2
        /\ \A q \in 1..(p-1) : t[q] = s[q]
        /\ t[p] = x
        /\ \A q \in (p+1)..(Len(s)+1) : t[q] = s[q-1]
        /\ t[Len(s) + 2] = y
    <3>1. Inserted(InsertAt(s, p, x) \o << y >>, s, p, x, y, D)
      BY <2>4, <2>5, <2>6, <2>7, InsertFacts, Zenon
    <3> QED
      BY <2>3, <3>1, Zenon DEF Inserted
  <2> QED
    BY <2>1, <2>2, <2>8
<1> HIDE DEF t, M
<1>3. ASSUME NEW r \in 1..M PROVE Place(r) \in 1..2*c /\ t[Place(r)] = s[r]
  <2>1. CASE r < p
    <3>1. r \in 1..(p-1)
      BY <2>1, <1>0
    <3> QED
      BY <2>1, <3>1, <1>0, <1>2
  <2>2. CASE ~(r < p)
    <3>1. r + 1 \in (p+1)..(M+1) /\ (r + 1) - 1 = r
      BY <2>2, <1>0
    <3>2. t[r + 1] = s[r]
      BY <3>1, <1>2
    <3> QED
      BY <2>2, <3>2, <1>0
  <2> QED
    BY <2>1, <2>2
<1>4. \A r1, r2 \in 1..M : r1 < r2 => Place(r1) < Place(r2)
  BY <1>0
<1>5. ASSUME NEW q \in 1..2*c, q # p, q # 2*c PROVE \E r \in 1..M : q = Place(r)
  <2>1. CASE q < p
    <3>1. q \in 1..M /\ q = Place(q)
      BY <2>1, <1>0, <1>5
    <3> QED
      BY <3>1
  <2>2. CASE ~(q < p)
    <3>1. q - 1 \in 1..M /\ q = Place(q - 1)
      BY <2>2, <1>0, <1>5
    <3> QED
      BY <3>1
  <2> QED
    BY <2>1, <2>2
<1>6. \A r \in 1..M : Place(r) # p /\ Place(r) # 2*c
  BY <1>0
<1> HIDE DEF Place
<1>7. ASSUME NEW i \in 1..c
      PROVE  \E a, b \in 1..2*c : a < b /\ t[a] = <<"call", i>> /\ t[b] = <<"return", i>>
  <2>1. CASE i = c
    <3>1. p \in 1..2*c /\ 2*c \in 1..2*c /\ p < 2*c /\ M + 2 = 2*c
      BY <1>0
    <3> QED
      BY <2>1, <3>1, <1>2
  <2>2. CASE i # c
    <3>1. i \in 1..(c-1)
      BY <2>2
    <3>2. PICK a, b \in 1..M : a < b /\ s[a] = <<"call", i>> /\ s[b] = <<"return", i>>
      BY <3>1, <1>0 DEF Arranged
    <3> QED
      BY <3>2, <1>3, <1>4
  <2> QED
    BY <2>1, <2>2
<1>8. ASSUME NEW q \in 1..2*c
      PROVE  \/ q = p /\ t[q] = <<"call", c>>
             \/ q = 2*c /\ t[q] = <<"return", c>>
             \/ \E r \in 1..M : q = Place(r) /\ t[q] = s[r] /\ t[q] # <<"call", c>> /\ t[q] # <<"return", c>>
  <2>1. CASE q = p
    BY <2>1, <1>2
  <2>2. CASE q = 2*c
    <3>1. q = M + 2
      BY <2>2, <1>0
    <3> QED
      BY <2>2, <3>1, <1>2
  <2>3. CASE q # p /\ q # 2*c
    <3>1. PICK r \in 1..M : q = Place(r)
      BY <2>3, <1>5
    <3>2. t[q] = s[r]
      BY <3>1, <1>3
    <3>3. PICK x \in {"call", "return"}, j \in 1..(c-1) : s[r] = <<x, j>>
      BY <1>1
    <3>4. j # c
      OBVIOUS
    <3>5. s[r] # <<"call", c>> /\ s[r] # <<"return", c>>
      BY <3>3, <3>4
    <3> QED
      BY <3>1, <3>2, <3>5
  <2> QED
    BY <2>1, <2>2, <2>3
<1>9. ASSUME NEW a \in 1..2*c, NEW b \in 1..2*c, t[a] = t[b] PROVE a = b
  <2>0. <<"call", c>> # <<"return", c>>
    OBVIOUS
  <2>1. \A x, y \in 1..M : s[x] = s[y] => x = y
    BY <1>0 DEF Arranged
  <2>5. \A q \in 1..2*c : (t[q] = <<"call", c>> <=> q = p) /\ (t[q] = <<"return", c>> <=> q = 2*c)
    <3> SUFFICES ASSUME NEW q \in 1..2*c
                 PROVE  (t[q] = <<"call", c>> <=> q = p) /\ (t[q] = <<"return", c>> <=> q = 2*c)
      OBVIOUS
    <3>1. p # 2*c
      BY <1>0
    <3>2. CASE q = p
      BY <2>0, <3>1, <3>2, <1>2
    <3>3. CASE q = 2*c
      <4>1. 2*c = M + 2
        BY <1>0
      <4>2. t[q] = <<"return", c>>
        BY <3>3, <4>1, <1>2, Zenon
      <4> QED
        BY <2>0, <3>1, <3>3, <4>2
    <3>4. CASE q # p /\ q # 2*c
      <4>1. PICK r \in 1..M : q = Place(r) /\ t[q] = s[r] /\ t[q] # <<"call", c>> /\ t[q] # <<"return", c>>
        BY <3>4, <1>8, Zenon
      <4> QED
        BY <3>4, <4>1, Zenon
    <3> QED
      BY <3>2, <3>3, <3>4
  <2>2. CASE a = p \/ b = p
    BY <2>2, <2>5, <1>9
  <2>3. CASE a = 2*c \/ b = 2*c
    BY <2>3, <2>5, <1>9
  <2>4. CASE a # p /\ b # p /\ a # 2*c /\ b # 2*c
    <3>1. PICK x \in 1..M : a = Place(x) /\ t[a] = s[x]
      BY <2>4, <1>8
    <3>2. PICK y \in 1..M : b = Place(y) /\ t[b] = s[y]
      BY <2>4, <1>8
    <3>3. x = y
      BY <3>1, <3>2, <2>1, <1>9
    <3> QED
      BY <3>1, <3>2, <3>3
  <2> QED
    BY <2>2, <2>3, <2>4
<1>10. t \in Seq({"call", "return"} \X (1..c)) /\ Len(t) = 2*c
  BY <1>0, <1>2 DEF T
<1>11. Arranged(t, c)
  BY <1>7, <1>9, <1>10 DEF Arranged
<1> QED
  BY <1>11 DEF t

IsTable(g, c) ==
  /\ g = [k \in 0..c |-> g[k]]
  /\ g[0] = {<<>>}
  /\ \A k \in 1..c : g[k] = Extended(g[k-1], k)

LEMMA TableExists ==
  ASSUME NEW c \in Nat
  PROVE  \E g : IsTable(g, c)
<1> DEFINE bad == {x \in Nat : ~ \E g : IsTable(g, x)}
<1> SUFFICES ASSUME bad # {} PROVE FALSE
  OBVIOUS
<1>1. PICK x \in bad : \A y \in bad : x <= y
  BY LeastExists
<1>2. IsTable([k \in 0..0 |-> {<<>>}], 0)
  BY DEF IsTable
<1>3. x # 0 /\ x - 1 \in Nat
  BY <1>2
<1>4. PICK v : IsTable(v, x - 1)
  BY <1>1, <1>3
<1> DEFINE w == [k \in 0..x |-> IF k = x THEN Extended(v[x-1], x) ELSE v[k]]
<1>6. \A k \in 0..(x-1) : w[k] = v[k]
  BY <1>3
<1>7. w[x] = Extended(v[x-1], x)
  BY <1>3
<1>8. w = [k \in 0..x |-> w[k]]
  OBVIOUS
<1> HIDE DEF w
<1>9. w[0] = {<<>>}
  BY <1>3, <1>4, <1>6 DEF IsTable
<1>10. ASSUME NEW k \in 1..x PROVE w[k] = Extended(w[k-1], k)
  <2>1. k-1 \in 0..(x-1)
    BY <1>3
  <2>2. w[k-1] = v[k-1]
    BY <2>1, <1>6
  <2>3. CASE k = x
    BY <2>2, <2>3, <1>7
  <2>4. CASE k # x
    <3>1. k \in 1..(x-1) /\ k \in 0..(x-1)
      BY <2>4, <1>3
    <3> QED
      BY <3>1, <2>2, <1>4, <1>6, Zenon DEF IsTable
  <2> QED
    BY <2>3, <2>4
<1>11. IsTable(w, x)
  BY <1>8, <1>9, <1>10 DEF IsTable
<1> QED
  BY <1>11

LEMMA ArrangementsIs ==
  ASSUME MaxOps \in Nat
  PROVE  IsTable(Arrangements, MaxOps)
<1> DEFINE Eq(g) == g = [m \in 0..MaxOps |->
             IF m = 0 THEN {<<>>} ELSE Extended(g[m-1], m)]
<1>1. ASSUME NEW g, IsTable(g, MaxOps) PROVE Eq(g)
  <2>1. g = [k \in 0..MaxOps |-> g[k]] /\ g[0] = {<<>>}
    BY <1>1 DEF IsTable
  <2>2. \A k \in 0..MaxOps : k = 0 \/ k \in 1..MaxOps
    OBVIOUS
  <2>3. \A k \in 0..MaxOps : g[k] = IF k = 0 THEN {<<>>} ELSE Extended(g[k-1], k)
    BY <2>1, <2>2, <1>1, Zenon DEF IsTable
  <2> QED
    BY <2>1, <2>3, Zenon
<1>2. \E g : Eq(g)
  BY <1>1, TableExists
<1>3. Eq(Arrangements)
  BY <1>2, Zenon DEF Arrangements
<1>4. ASSUME NEW g, Eq(g) PROVE IsTable(g, MaxOps)
  <2>1. g = [k \in 0..MaxOps |-> g[k]]
    BY <1>4, Zenon
  <2>2. \A k \in 0..MaxOps : g[k] = IF k = 0 THEN {<<>>} ELSE Extended(g[k-1], k)
    BY <1>4, Zenon
  <2>3. 0 \in 0..MaxOps /\ \A k \in 1..MaxOps : k \in 0..MaxOps /\ k # 0
    OBVIOUS
  <2>4. g[0] = {<<>>}
    BY <2>2, <2>3, Zenon
  <2>5. \A k \in 1..MaxOps : g[k] = Extended(g[k-1], k)
    BY <2>2, <2>3, Zenon
  <2> QED
    BY <2>1, <2>4, <2>5, Zenon DEF IsTable
<1> QED
  BY <1>3, <1>4

LEMMA ArrangementFacts ==
  ASSUME MaxOps \in Nat, NEW c \in 0..MaxOps, NEW s \in Arrangements[c]
  PROVE  Arranged(s, c)
<1> DEFINE bad == {x \in Nat : x <= MaxOps /\ \E u \in Arrangements[x] : ~Arranged(u, x)}
<1> SUFFICES ASSUME bad # {} PROVE FALSE
  OBVIOUS
<1>0. IsTable(Arrangements, MaxOps)
  BY ArrangementsIs
<1>1. PICK x \in bad : \A y \in bad : x <= y
  BY LeastExists
<1>2. ASSUME NEW u \in Arrangements[0] PROVE Arranged(u, 0)
  <2>1. u = <<>>
    BY <1>0 DEF IsTable
  <2> QED
    BY <2>1 DEF Arranged
<1>3. x # 0 /\ x - 1 \in Nat /\ x - 1 <= MaxOps /\ x \in 1..MaxOps
  BY <1>2
<1>4. x - 1 \notin bad
  BY <1>1, <1>3
<1>5. PICK u \in Arrangements[x] : ~Arranged(u, x)
  OBVIOUS
<1>6. Arrangements[x] = Extended(Arrangements[x-1], x)
  BY <1>0, <1>3 DEF IsTable
<1>7. PICK v \in Arrangements[x-1], p \in 1..(2*x - 1) :
        u = WithOperation(v, p, x)
  BY <1>5, <1>6 DEF Extended
<1>8. Arranged(v, x - 1)
  BY <1>3, <1>4
<1> QED
  BY <1>3, <1>5, <1>7, <1>8, ArrangedLonger

LEMMA TimeMonotone ==
  ASSUME NEW tied, NEW p \in Nat, NEW q \in Nat, q <= p
  PROVE  Time(tied, p) \in Nat /\ Time(tied, q) \in Nat /\ Time(tied, q) <= Time(tied, p)
<1> DEFINE X == {k + 1 : k \in tied}
           A == 1..p \ X
           B == 1..q \ X
<1>1. IsFiniteSet(1..p)
  BY FS_Interval
<1>2. A \in SUBSET (1..p) /\ B \in SUBSET A
  OBVIOUS
<1>3. Time(tied, p) = Cardinality(A) /\ Time(tied, q) = Cardinality(B)
  BY DEF Time
<1> HIDE DEF A, B
<1>4. IsFiniteSet(A)
  BY <1>1, <1>2, FS_Subset
<1>5. IsFiniteSet(B) /\ Cardinality(B) <= Cardinality(A)
  BY <1>2, <1>4, FS_Subset
<1>6. Cardinality(A) \in Nat /\ Cardinality(B) \in Nat
  BY <1>4, <1>5, FS_CardinalityType
<1> QED
  BY <1>3, <1>5, <1>6

LEMMA InitEntries ==
  ASSUME MaxOps \in Nat, Init
  PROVE  EntriesOK
<1>1. PICK m \in 0..MaxOps : \E s \in Arrangements[m] :
        \E tied \in SUBSET Ties(s), invocation \in [1..m -> Invocations] :
          history = HistoryOf(s, tied, invocation) /\ entries = s
  BY Zenon DEF Init
<1>2. PICK s \in Arrangements[m] :
        \E tied \in SUBSET Ties(s), invocation \in [1..m -> Invocations] :
          history = HistoryOf(s, tied, invocation) /\ entries = s
  BY <1>1
<1>3. PICK tied \in SUBSET Ties(s), invocation \in [1..m -> Invocations] :
          history = HistoryOf(s, tied, invocation) /\ entries = s
  BY <1>2
<1>4. Arranged(s, m)
  BY ArrangementFacts
<1> DEFINE pos(e) == CHOOSE p \in DOMAIN s : s[p] = e
<1>5. history = [k \in 1..m |-> [input  |-> invocation[k].input, output |-> invocation[k].output,
                                 call   |-> Time(tied, pos(<<"call", k>>)),
                                 return |-> Time(tied, pos(<<"return", k>>))]]
  BY <1>3 DEF HistoryOf
<1>6. /\ \A k \in 1..m : history[k].call = Time(tied, pos(<<"call", k>>))
      /\ \A k \in 1..m : history[k].return = Time(tied, pos(<<"return", k>>))
      /\ DOMAIN history = 1..m
  BY <1>5
<1>7. n = m /\ n \in Nat
  <2>1. m \in Nat
    OBVIOUS
  <2> QED
    BY <1>5, <2>1 DEF n
<1>8. DOMAIN s = 1..2*m /\ 2*m \in Nat /\ s \in [1..2*m -> {"call", "return"} \X (1..m)]
  <2> DEFINE T == {"call", "return"} \X (1..m)
  <2>1. s \in Seq(T) /\ Len(s) = 2*m
    BY <1>4 DEF Arranged
  <2>2. 2*m \in Nat
    OBVIOUS
  <2> HIDE DEF T
  <2>3. DOMAIN s = 1..2*m /\ s \in [1..2*m -> T]
    BY <2>1
  <2> QED
    BY <2>2, <2>3 DEF T
<1> HIDE DEF pos
<1>9. \A e : \A p \in 1..2*m : s[p] = e => pos(e) = p
  <2> SUFFICES ASSUME NEW e, NEW p \in 1..2*m, s[p] = e PROVE pos(e) = p
    OBVIOUS
  <2>1. \A q \in 1..2*m : s[q] = e => q = p
    BY <1>4 DEF Arranged
  <2> QED
    BY <2>1, <1>8, Zenon DEF pos
<1>10. Nodes = 1..2*m /\ Ids = 1..m
  BY <1>7 DEF Nodes, Ids
<1>11. entries \in [Nodes -> {"call", "return"} \X Ids]
  BY <1>3, <1>8, <1>10
<1>12. \A i \in Ids : \E p, q \in Nodes :
         p < q /\ entries[p] = <<"call", i>> /\ entries[q] = <<"return", i>>
  BY <1>3, <1>4, <1>10, Zenon DEF Arranged
<1>13. \A p, q \in Nodes : entries[p] = entries[q] => p = q
  BY <1>3, <1>4, <1>10, Zenon DEF Arranged
<1>14. ASSUME NEW a \in Ids, NEW b \in Ids, Before(a, b), NEW p \in Nodes, NEW q \in Nodes,
              entries[p] = <<"return", a>>, entries[q] = <<"call", b>>
       PROVE  p < q
  <2>1. pos(<<"return", a>>) = p /\ pos(<<"call", b>>) = q
    BY <1>3, <1>9, <1>10, <1>14, Zenon
  <2>2. Time(tied, p) < Time(tied, q)
    BY <1>6, <1>10, <1>14, <2>1 DEF Before
  <2>3. p \in Nat /\ q \in Nat
    BY <1>10
  <2>4. CASE q <= p
    <3>1. Time(tied, p) \in Nat /\ Time(tied, q) \in Nat /\ Time(tied, q) <= Time(tied, p)
      BY <2>3, <2>4, TimeMonotone
    <3> QED
      BY <3>1, <2>2
  <2> QED
    BY <2>3, <2>4
<1> QED
  BY <1>7, <1>11, <1>12, <1>13, <1>14 DEF EntriesOK

LEMMA InitList ==
  ASSUME n \in Nat, list = LinkedEntries(n)
  PROVE  list \in Lists /\ Linked(list, Nodes)
<1>1. list = [next |-> [p \in 0..2*n |-> p + 1], prev |-> [p \in 1..2*n |-> p - 1]]
  BY DEF LinkedEntries
<1>2. list.next = [p \in 0..2*n |-> p + 1] /\ list.prev = [p \in 1..2*n |-> p - 1]
  BY <1>1
<1>3. \A p \in 0..2*n : p + 1 \in 1..Nil /\ list.next[p] = p + 1
  BY <1>2 DEF Nil
<1>4. \A p \in Nodes : p - 1 \in 0..2*n /\ list.prev[p] = p - 1
  BY <1>2 DEF Nodes
<1>5. list.next \in [0..2*n -> 1..Nil] /\ list.prev \in [Nodes -> 0..2*n]
  BY <1>2, <1>3, <1>4 DEF Nodes
<1>6. list \in Lists
  BY <1>1, <1>2, <1>5 DEF Lists
<1>7. ASSUME NEW p \in 0..2*n PROVE IsNext(Nodes, p, list.next[p])
  BY <1>3 DEF IsNext, Nodes, Nil
<1>8. ASSUME NEW p \in Nodes PROVE IsPrev(Nodes, p, list.prev[p])
  BY <1>4 DEF IsPrev, Nodes
<1>9. 0 \in 0..2*n /\ \A p \in Nodes : p \in 0..2*n
  BY DEF Nodes
<1> QED
  BY <1>6, <1>7, <1>8, <1>9 DEF Linked, Fits

LEMMA InitInv ==
  ASSUME MaxOps \in Nat, Init
  PROVE  SearchInv
<1>1. /\ list = LinkedEntries(n) /\ entry = 1 /\ state = InitState /\ linearized = {}
      /\ cache = {} /\ calls = <<>> /\ longest = [i \in Ids |-> <<>>]
      /\ kill = FALSE /\ result = "none"
  BY DEF Init
<1>2. EntriesOK /\ n \in Nat
  BY InitEntries DEF EntriesOK
<1>3. Len(calls) = 0 /\ Lin(0) = {} /\ Rest(0) = Nodes
  BY <1>1 DEF Lin, Rest
<1>4. StackOK
  <2>1. calls \in Seq([entry : Nodes, state : {}])
    BY <1>1
  <2>2. StateAt(0) = InitState
    BY <1>1, <1>3 DEF StateAt
  <2>3. \A k \in 1..Len(calls) : Frame(k)
    BY <1>3
  <2>4. linearized = Lin(Len(calls))
    BY <1>1, <1>3
  <2> QED
    BY <2>1, <2>2, <2>3, <2>4 DEF StackOK
<1>5. ListOK
  <2>1. list \in Lists /\ Linked(list, Nodes)
    BY <1>1, <1>2, InitList
  <2>2. entry \in Nodes \cup {Nil}
    BY <1>1, <1>2 DEF Nodes, Nil
  <2>3. \A q \in Nodes : ~(q < entry)
    BY <1>1, <1>2 DEF Nodes
  <2>4. Passed(0, entry)
    BY <1>3, <2>3 DEF Passed
  <2> QED
    BY <1>3, <2>1, <2>2, <2>4 DEF ListOK
<1>6. CacheOK
  BY <1>1 DEF CacheOK
<1>7. LongestOK
  <2>1. \A i \in Ids : longest[i] = <<>>
    BY <1>1
  <2>2. longest \in [Ids -> Seq(Ids)]
    BY <1>1
  <2>3. \A i \in Ids : Len(longest[i]) < n
    BY <1>2, <2>1 DEF Ids
  <2>4. PartialsReplay
    BY <2>1, Zenon DEF PartialsReplay
  <2> QED
    BY <2>2, <2>3, <2>4 DEF LongestOK
<1>8. ResultOK
  BY <1>1 DEF ResultOK
<1> QED
  BY <1>2, <1>4, <1>5, <1>6, <1>7, <1>8 DEF SearchInv

LEMMA NextInv ==
  ASSUME SearchInv, [Next]_vars
  PROVE  SearchInv'
<1>1. CASE SetKill
  BY <1>1, SetKillStep
<1>2. CASE Killed
  BY <1>2, KilledStep
<1>3. CASE Linearize
  BY <1>3, LinearizeStep
<1>4. CASE Skip
  BY <1>4, SkipStep
<1>5. CASE Backtrack
  BY <1>5, BacktrackStep
<1>6. CASE NotLinearizable
  BY <1>6, NotLinearizableStep
<1>7. CASE Complete
  BY <1>7, CompleteStep
<1>8. CASE UNCHANGED vars
  BY <1>8, StutterStep
<1> QED
  BY <1>1, <1>2, <1>3, <1>4, <1>5, <1>6, <1>7, <1>8 DEF Next, Search

(* A search of checkSingle that ends by itself answers truly, the linked   *)
(* list survives every lift and unlift, and the partial linearizations it  *)
(* leaves are legal and the longest, for histories of any length.          *)
THEOREM SearchCorrect ==
  Spec => [](ResultCorrect /\ EntriesIntact /\ PartialsReplay /\ LongestIsLongest)
<1>1. Init => SearchInv
  BY InitInv, OpsAssumption
<1>2. SearchInv /\ [Next]_vars => SearchInv'
  BY NextInv
<1>3. SearchInv => ResultCorrect /\ EntriesIntact /\ PartialsReplay /\ LongestIsLongest
  BY InvVerdict, InvList, InvPartials
<1> QED
  BY <1>1, <1>2, <1>3, PTL DEF Spec
=============================================================================
