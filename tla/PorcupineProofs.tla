-------------------------- MODULE PorcupineProofs --------------------------
(***************************************************************************)
(* Proofs about the linearizability checker: the parallel check for every  *)
(* set of partitions, the search for histories of every length, bitsets    *)
(* for every width of a word and every size, and the page for any partial  *)
(* linearizations.                                                         *)
(***************************************************************************)
EXTENDS MCPorcupine, CheckSingleProofs

-----------------------------------------------------------------------------
(* checkParallel.                                                          *)

\* A goroutine has written its slot before it sends, and sends once.
Slots ==
  /\ \A p \in Parts : worker[p] \in {"send", "exit"} => p \in slots
  /\ \A p \in results \cup received : worker[p] = "exit"

\* Until the Parallel!caller sets killAll, searches end with the truth.
Truth ==
  /\ pc = "loop" => ~killAll
  /\ ~killAll => \A p \in Parts : worker[p] # "search" => (found[p] <=> p \in linearizable)

\* What the Parallel!caller knows.
Known ==
  /\ ~ok => linearizable # Parts
  /\ pc = "loop" /\ ok => received \subseteq linearizable
  /\ pc # "loop" /\ ok /\ ~timedOut => linearizable = Parts
  /\ timedOut => timeout
  /\ verdict = "Ok" => linearizable = Parts
  /\ verdict = "Illegal" => linearizable # Parts
  /\ verdict = "Unknown" => timeout
  /\ pc = "returned" /\ computeInfo => received = Parts

\* The inductive invariant.
ParallelInv == Parallel!TypeOK /\ Slots /\ Truth /\ Known

LEMMA ParallelInit == Parallel!Init => ParallelInv
<1> SUFFICES ASSUME Parallel!Init PROVE ParallelInv
  OBVIOUS
<1>1. Parallel!TypeOK
  BY DEF Parallel!Init, Parallel!TypeOK
<1>2. Slots /\ Truth /\ Known
  BY DEF Parallel!Init, Slots, Truth, Known
<1> QED
  BY <1>1, <1>2 DEF ParallelInv

\* What checkSingle may return when it ends.
LEMMA FoundTruth ==
  ASSUME ParallelInv, NEW p \in Parts, Parallel!CheckSingle(p)
  PROVE  /\ found' \in [Parts -> BOOLEAN]
         /\ \A q \in Parts : q # p => (found'[q] <=> found[q])
         /\ ~killAll => (found'[p] <=> p \in linearizable)
<1> USE DEF ParallelInv, Parallel!TypeOK, Parallel!CheckSingle
<1>1. CASE found' = [found EXCEPT ![p] = (p \in linearizable)]
  <2>1. CASE p \in linearizable
    <3>1. (p \in linearizable) = TRUE
      BY <2>1
    <3>2. found' = [found EXCEPT ![p] = TRUE]
      BY <1>1, <3>1
    <3> QED
      BY <2>1, <3>2
  <2>2. CASE p \notin linearizable
    <3>1. (p \in linearizable) = FALSE
      BY <2>2
    <3>2. found' = [found EXCEPT ![p] = FALSE]
      BY <1>1, <3>1
    <3> QED
      BY <2>2, <3>2
  <2> QED
    BY <2>1, <2>2
<1>2. CASE killAll /\ found' = [found EXCEPT ![p] = FALSE]
  BY <1>2
<1> QED
  BY <1>1, <1>2

LEMMA ParallelNext == ParallelInv /\ [Parallel!Next]_(Parallel!vars) => ParallelInv'
<1> SUFFICES ASSUME ParallelInv, [Parallel!Next]_(Parallel!vars) PROVE ParallelInv'
  OBVIOUS
<1> USE DEF ParallelInv, Parallel!TypeOK, Slots, Truth, Known, Parallel!args, Parallel!workers, Parallel!caller, Parallel!Receive
<1>1. ASSUME NEW p \in Parts, Parallel!CheckSingle(p)
      PROVE  ParallelInv'
  BY <1>1, FoundTruth DEF Parallel!CheckSingle
<1>2. ASSUME NEW p \in Parts, Parallel!StoreLongest(p)
      PROVE  ParallelInv'
  BY <1>2 DEF Parallel!StoreLongest
<1>3. ASSUME NEW p \in Parts, Parallel!Send(p)
      PROVE  ParallelInv'
  BY <1>3 DEF Parallel!Send
<1>4. ASSUME NEW p \in Parts, Parallel!ReceiveResult(p)
      PROVE  ParallelInv'
  <2>1. found[p] <=> p \in linearizable
    BY <1>4 DEF Parallel!ReceiveResult
  <2>2. CASE ok /\ found[p]
    <3>1. ok' = TRUE
      BY <1>4, <2>2 DEF Parallel!ReceiveResult
    <3> QED
      BY <1>4, <2>1, <2>2, <3>1 DEF Parallel!ReceiveResult
  <2>3. CASE ~(ok /\ found[p])
    <3>1. ok' = FALSE
      BY <1>4, <2>3 DEF Parallel!ReceiveResult
    <3>2. linearizable # Parts
      BY <2>1, <2>3
    <3> QED
      BY <1>4, <3>1, <3>2 DEF Parallel!ReceiveResult
  <2> QED
    BY <2>2, <2>3
<1>5. CASE Parallel!Timeout
  BY <1>5 DEF Parallel!Timeout
<1>6. ASSUME NEW p \in Parts, Parallel!Collect(p)
      PROVE  ParallelInv'
  BY <1>6 DEF Parallel!Collect
<1>7. CASE Parallel!Return
  BY <1>7 DEF Parallel!Return
<1>8. CASE UNCHANGED Parallel!vars
  BY <1>8 DEF Parallel!vars
<1> QED
  BY <1>1, <1>2, <1>3, <1>4, <1>5, <1>6, <1>7, <1>8 DEF Parallel!Next, Parallel!Caller

-----------------------------------------------------------------------------
(* Bitsets.                                                                *)

Words == 0..(Bits!Chunks(Size) - 1)

\* The bitset of the set S.
Packed(S) == [c \in Words |-> {x \in 0..W-1 : \E p \in S : <<c, x>> = Bits!bitsetIndex(p)}]

\* Division with remainder, for a number and a divisor.
LEMMA Division ==
  ASSUME NEW a \in Nat, NEW w \in Nat \ {0}
  PROVE  /\ a \div w \in Nat /\ (a % w) \in 0..w-1
         /\ a = w * (a \div w) + (a % w)
  OBVIOUS

\* Every member has a bit of its own.
LEMMA IndexFacts ==
  ASSUME NEW p \in Bits!Positions
  PROVE  /\ Bits!bitsetIndex(p) = <<p \div W, p % W>>
         /\ p \div W \in Words /\ (p % W) \in 0..W-1
         /\ \A q \in Bits!Positions : Bits!bitsetIndex(p) = Bits!bitsetIndex(q) => p = q
<1>1. W \in Nat \ {0} /\ Size \in Nat /\ p \in Nat /\ p < Size
  BY SizeAssumption DEF Bits!Positions
<1>2. p \div W \in Nat /\ (p % W) \in 0..W-1 /\ p = W * (p \div W) + (p % W)
  BY <1>1, Division
<1>3. Size \div W \in Nat /\ (Size % W) \in 0..W-1 /\ Size = W * (Size \div W) + (Size % W)
  BY <1>1, Division
<1>4. p \div W <= Bits!Chunks(Size) - 1
  <2> DEFINE a == p \div W
             b == Size \div W
             r == Size % W
             s == p % W
  <2>1. a \in Nat /\ b \in Nat /\ r \in 0..W-1 /\ s \in 0..W-1 /\ W * a + s < W * b + r
    BY <1>1, <1>2, <1>3
  <2>2. Bits!Chunks(Size) = IF r # 0 THEN b + 1 ELSE b
    BY <1>1, <1>3 DEF Bits!Chunks
  <2> HIDE DEF a, b, r, s
  <2>3. a <= b
    <3>1. CASE a > b
      <4>1. PICK d \in Nat : a = b + 1 + d
        <5>1. a - (b + 1) \in Nat /\ a = b + 1 + (a - (b + 1))
          BY <2>1, <3>1
        <5> QED
          BY <5>1
      <4>2. W * a = W * b + W + W * d /\ W * d \in Nat /\ W * b \in Nat
        BY <1>1, <2>1, <4>1
      <4> QED
        BY <1>1, <2>1, <4>2
    <3> QED
      BY <2>1, <3>1
  <2>4. r = 0 => a # b
    BY <1>1, <2>1
  <2>5. a <= Bits!Chunks(Size) - 1
    BY <2>1, <2>2, <2>3, <2>4
  <2> QED
    BY <2>5 DEF a
<1>5. p \div W \in Words
  <2>1. Bits!Chunks(Size) \in Int
    BY <1>1, <1>3 DEF Bits!Chunks
  <2> QED
    BY <1>2, <1>4, <2>1 DEF Words
<1>6. ASSUME NEW q \in Bits!Positions, Bits!bitsetIndex(p) = Bits!bitsetIndex(q) PROVE p = q
  <2>1. q \in Nat
    BY <1>1 DEF Bits!Positions
  <2>2. q = W * (q \div W) + (q % W)
    BY <1>1, <2>1, Division
  <2>3. p \div W = q \div W /\ (p % W) = (q % W)
    BY <1>6 DEF Bits!bitsetIndex
  <2> QED
    BY <1>2, <2>2, <2>3, Zenon
<1> QED
  BY <1>2, <1>5, <1>6 DEF Bits!bitsetIndex

\* get, set and clear are membership, union and difference.
LEMMA PackedFacts ==
  ASSUME NEW S \in SUBSET Bits!Positions, NEW p \in Bits!Positions
  PROVE  /\ Bits!get(Packed(S), p) <=> p \in S
         /\ Bits!set(Packed(S), p) = Packed(S \cup {p})
         /\ Bits!clear(Packed(S), p) = Packed(S \ {p})
<1>0. PICK c, x : Bits!bitsetIndex(p) = <<c, x>> /\ c \in Words /\ x \in 0..W-1
  BY IndexFacts
<1>1. \A q \in Bits!Positions : Bits!bitsetIndex(q) = <<c, x>> => q = p
  BY <1>0, IndexFacts
<1>2. \A T, d : d \in Words => Packed(T)[d] = {y \in 0..W-1 : \E q \in T : <<d, y>> = Bits!bitsetIndex(q)}
  BY DEF Packed
<1>3. \A T \in SUBSET Bits!Positions : x \in Packed(T)[c] <=> p \in T
  BY <1>0, <1>1, <1>2
<1>4. Bits!get(Packed(S), p) <=> p \in S
  BY <1>0, <1>3 DEF Bits!get
<1>5. Bits!set(Packed(S), p) = [Packed(S) EXCEPT ![c] = @ \cup {x}]
  BY <1>0 DEF Bits!set
<1>6. Bits!clear(Packed(S), p) = [Packed(S) EXCEPT ![c] = @ \ {x}]
  BY <1>0 DEF Bits!clear
<1>7. \A T : DOMAIN Packed(T) = Words /\ Packed(T) = [d \in Words |-> Packed(T)[d]]
  BY DEF Packed
<1>8. Bits!set(Packed(S), p) = Packed(S \cup {p})
  <2>1. [Packed(S) EXCEPT ![c] = @ \cup {x}] = [d \in Words |-> IF d = c THEN Packed(S)[c] \cup {x} ELSE Packed(S)[d]]
    BY <1>0, <1>7
  <2>2. ASSUME NEW d \in Words
        PROVE  Packed(S \cup {p})[d] = IF d = c THEN Packed(S)[c] \cup {x} ELSE Packed(S)[d]
    <3>1. Packed(S \cup {p})[d] = {y \in 0..W-1 : \E q \in S \cup {p} : <<d, y>> = Bits!bitsetIndex(q)}
      BY <1>2
    <3>2. Packed(S)[d] = {y \in 0..W-1 : \E q \in S : <<d, y>> = Bits!bitsetIndex(q)}
      BY <1>2
    <3>3. \A y : <<d, y>> = Bits!bitsetIndex(p) <=> d = c /\ y = x
      BY <1>0
    <3> QED
      BY <1>0, <3>1, <3>2, <3>3
  <2> QED
    BY <1>5, <1>7, <2>1, <2>2
<1>9. Bits!clear(Packed(S), p) = Packed(S \ {p})
  <2>1. [Packed(S) EXCEPT ![c] = @ \ {x}] = [d \in Words |-> IF d = c THEN Packed(S)[c] \ {x} ELSE Packed(S)[d]]
    BY <1>0, <1>7
  <2>2. ASSUME NEW d \in Words
        PROVE  Packed(S \ {p})[d] = IF d = c THEN Packed(S)[c] \ {x} ELSE Packed(S)[d]
    <3>1. Packed(S \ {p})[d] = {y \in 0..W-1 : \E q \in S \ {p} : <<d, y>> = Bits!bitsetIndex(q)}
      BY <1>2
    <3>2. Packed(S)[d] = {y \in 0..W-1 : \E q \in S : <<d, y>> = Bits!bitsetIndex(q)}
      BY <1>2
    <3>3. \A q \in S : \A y : q # p /\ <<d, y>> = Bits!bitsetIndex(q) => ~(d = c /\ y = x)
      BY <1>1
    <3>4. \A y : <<d, y>> = Bits!bitsetIndex(p) => d = c /\ y = x
      BY <1>0
    <3>5. CASE d = c
      <4>1. \A y \in 0..W-1 : y \in Packed(S \ {p})[d] <=> y \in Packed(S)[d] /\ y # x
        BY <3>1, <3>2, <3>3, <3>4, <3>5
      <4>2. Packed(S \ {p})[d] \subseteq 0..W-1 /\ Packed(S)[d] \subseteq 0..W-1
        BY <3>1, <3>2
      <4> QED
        BY <3>5, <4>1, <4>2
    <3>6. CASE d # c
      BY <3>1, <3>2, <3>3, <3>4, <3>6
    <3> QED
      BY <3>5, <3>6
  <2> QED
    BY <1>6, <1>7, <2>1, <2>2
<1> QED
  BY <1>4, <1>8, <1>9

LEMMA PackedGet ==
  ASSUME NEW S \in SUBSET Bits!Positions, NEW p \in Bits!Positions
  PROVE  Bits!get(Packed(S), p) <=> p \in S
  BY PackedFacts

LEMMA PackedSet ==
  ASSUME NEW S \in SUBSET Bits!Positions, NEW p \in Bits!Positions
  PROVE  Bits!set(Packed(S), p) = Packed(S \cup {p})
  BY PackedFacts

LEMMA PackedClear ==
  ASSUME NEW S \in SUBSET Bits!Positions, NEW p \in Bits!Positions
  PROVE  Bits!clear(Packed(S), p) = Packed(S \ {p})
  BY PackedFacts

\* equals is equality.
LEMMA PackedEquals ==
  ASSUME NEW S \in SUBSET Bits!Positions, NEW T \in SUBSET Bits!Positions,
         Bits!equals(Packed(S), Packed(T))
  PROVE  S = T
<1>1. ASSUME NEW q \in Bits!Positions PROVE q \in S <=> q \in T
  <2>1. PICK d, y : Bits!bitsetIndex(q) = <<d, y>> /\ d \in Words /\ y \in 0..W-1
    BY IndexFacts
  <2>2. \A p \in Bits!Positions : Bits!bitsetIndex(p) = <<d, y>> => p = q
    BY <2>1, IndexFacts
  <2>3. \A V : Packed(V)[d] = {x \in 0..W-1 : \E p \in V : <<d, x>> = Bits!bitsetIndex(p)}
    BY <2>1 DEF Packed
  <2>4. \A V \in SUBSET Bits!Positions : y \in Packed(V)[d] <=> q \in V
    BY <2>1, <2>2, <2>3
  <2>5. Packed(S)[d] = Packed(T)[d]
    BY <2>1 DEF Bits!equals, Packed
  <2> QED
    BY <2>4, <2>5
<1> QED
  BY <1>1

\* The cached bitsets have addresses of their own, hold what was explored, and
\* are found in the bucket of their hash.
Stored ==
  /\ \A S \in explored : S \in SUBSET Bits!Positions
  /\ \A S \in explored : \E a \in 2..Len(heap) :
       heap[a] = Packed(S) /\ <<Bits!hash(Packed(S)), a>> \in cache
  /\ \A h, a : <<h, a>> \in cache =>
       a \in 2..Len(heap) /\ \E S \in explored : heap[a] = Packed(S)

BitsInv ==
  /\ \E X : heap \in Seq(X)
  /\ linearized = 1 /\ 1 <= Len(heap)
  /\ calls \in Seq(Bits!Positions)
  /\ \A p, q \in 1..Len(calls) : calls[p] = calls[q] => p = q
  /\ heap[1] = Packed({calls[p] : p \in 1..Len(calls)})
  /\ Stored

LEMMA MembersAre ==
  ASSUME calls \in Seq(Bits!Positions)
  PROVE  /\ Bits!Members = {calls[p] : p \in 1..Len(calls)}
         /\ Bits!Members \in SUBSET Bits!Positions
<1>1. DOMAIN calls = 1..Len(calls) /\ \A p \in 1..Len(calls) : calls[p] \in Bits!Positions
  OBVIOUS
<1> QED
  BY <1>1 DEF Bits!Members, Bits!ToSet

LEMMA BitsExact == BitsInv => Bits!HoldsMembers /\ Bits!CacheExact
<1> SUFFICES ASSUME BitsInv PROVE Bits!HoldsMembers /\ Bits!CacheExact
  OBVIOUS
<1>1. PICK M : M = Bits!Members
  OBVIOUS
<1>2. M \in SUBSET Bits!Positions /\ heap[linearized] = Packed(M)
  BY <1>1, MembersAre DEF BitsInv
<1>3. Bits!HoldsMembers
  BY <1>1, <1>2, PackedGet DEF Bits!HoldsMembers
<1>4. ASSUME NEW a \in Bits!Positions \ M
      PROVE  Bits!cacheContains(Bits!set(heap[linearized], a)) <=> (M \cup {a}) \in explored
  <2>1. PICK N : N = M \cup {a}
    OBVIOUS
  <2>2. N \in SUBSET Bits!Positions /\ Bits!set(heap[linearized], a) = Packed(N)
    BY <1>2, <2>1, PackedFacts
  <2>3. DOMAIN heap = 1..Len(heap) /\ Len(heap) \in Nat
    BY DEF BitsInv
  <2>4. \A b : Bits!cacheContains(b) <=>
          \E x \in 1..Len(heap) : <<Bits!hash(b), x>> \in cache /\ Bits!equals(b, heap[x])
    BY <2>3 DEF Bits!cacheContains, Bits!Bucket
  <2>0. a \in Bits!Positions
    OBVIOUS
  <2>5. ASSUME N \in explored PROVE Bits!cacheContains(Packed(N))
    <3>1. PICK x \in 2..Len(heap) : heap[x] = Packed(N) /\ <<Bits!hash(Packed(N)), x>> \in cache
      BY <2>5 DEF BitsInv, Stored
    <3>2. x \in 1..Len(heap)
      BY <2>3
    <3>3. Bits!equals(Packed(N), Packed(N))
      BY DEF Bits!equals
    <3> QED
      BY <2>4, <3>1, <3>2, <3>3
  <2>6. ASSUME Bits!cacheContains(Packed(N)) PROVE N \in explored
    <3>1. PICK x \in 1..Len(heap) : <<Bits!hash(Packed(N)), x>> \in cache /\ Bits!equals(Packed(N), heap[x])
      BY <2>4, <2>6
    <3>2. PICK S \in explored : heap[x] = Packed(S)
      BY <3>1 DEF BitsInv, Stored
    <3>3. S \in SUBSET Bits!Positions
      BY DEF BitsInv, Stored
    <3>4. N = S
      BY <2>0, <2>2, <3>1, <3>2, <3>3, PackedEquals
    <3> QED
      BY <3>2, <3>4
  <2> QED
    BY <2>1, <2>2, <2>5, <2>6
<1> QED
  BY <1>1, <1>3, <1>4 DEF Bits!CacheExact

LEMMA BitsInit == Bits!Init => BitsInv
<1> SUFFICES ASSUME Bits!Init PROVE BitsInv
  OBVIOUS
<1>1. heap = <<Bits!newBitset(Size)>> /\ linearized = 1 /\ cache = {} /\ calls = <<>> /\ explored = {}
  BY DEF Bits!Init
<1>2. Len(heap) = 1 /\ heap[1] = Bits!newBitset(Size) /\ heap \in Seq({Bits!newBitset(Size)})
  BY <1>1
<1>3. Bits!newBitset(Size) = Packed({})
  BY DEF Bits!newBitset, Packed, Words
<1>4. Len(calls) = 0 /\ calls \in Seq(Bits!Positions) /\ {calls[p] : p \in 1..Len(calls)} = {}
  BY <1>1
<1>5. Stored
  BY <1>1 DEF Stored
<1>6. heap[1] = Packed({calls[p] : p \in 1..Len(calls)})
  BY <1>2, <1>3, <1>4
<1>7. 1 <= Len(heap) /\ \A p, q \in 1..Len(calls) : calls[p] = calls[q] => p = q
  BY <1>2, <1>4
<1> QED
  BY <1>1, <1>2, <1>4, <1>5, <1>6, <1>7, Zenon DEF BitsInv

LEMMA BitsLinearize ==
  ASSUME BitsInv, NEW a \in Bits!Positions, Bits!Linearize(a)
  PROVE  BitsInv'
<1>1. PICK M, L, b, X : M = {calls[p] : p \in 1..Len(calls)} /\ L = Len(heap)
        /\ b = Packed(M \cup {a}) /\ heap \in Seq(X)
  BY DEF BitsInv
<1>2. M = Bits!Members /\ M \in SUBSET Bits!Positions /\ heap[linearized] = Packed(M) /\ linearized = 1
  BY <1>1, MembersAre DEF BitsInv
<1>3. Bits!set(heap[linearized], a) = b
  BY <1>1, <1>2, PackedSet
<1>4. /\ a \notin M
      /\ heap' = Append([heap EXCEPT ![1] = b], b)
      /\ cache' = cache \cup {<<Bits!hash(b), L + 1>>}
      /\ calls' = Append(calls, a)
      /\ explored' = explored \cup {M \cup {a}}
      /\ linearized' = linearized
  BY <1>1, <1>2, <1>3 DEF Bits!Linearize
<1>5. L \in Nat /\ 1 <= L /\ calls \in Seq(Bits!Positions) /\ Len(calls) \in Nat
  BY <1>1 DEF BitsInv
<1>6. /\ heap' \in Seq(X \cup {b}) /\ Len(heap') = L + 1
      /\ heap'[1] = b /\ heap'[L+1] = b /\ \A x \in 2..L : heap'[x] = heap[x]
  <2>1. PICK g : g = [heap EXCEPT ![1] = b]
    OBVIOUS
  <2>2. heap \in Seq(X \cup {b}) /\ 1 \in 1..Len(heap)
    BY <1>1, <1>5
  <2>3. g \in Seq(X \cup {b}) /\ Len(g) = L /\ g[1] = b /\ \A x \in 2..L : g[x] = heap[x]
    BY <1>1, <1>5, <2>1, <2>2
  <2>4. heap' = Append(g, b)
    BY <1>4, <2>1
  <2> QED
    BY <1>5, <2>3, <2>4
<1>7. /\ calls' \in Seq(Bits!Positions) /\ Len(calls') = Len(calls) + 1
      /\ calls'[Len(calls) + 1] = a /\ \A p \in 1..Len(calls) : calls'[p] = calls[p]
  BY <1>4, <1>5
<1>8. {calls'[p] : p \in 1..Len(calls')} = M \cup {a}
  <2>1. \A p : p \in 1..Len(calls') <=> p \in 1..Len(calls) \/ p = Len(calls) + 1
    BY <1>5, <1>7
  <2> QED
    BY <1>1, <1>7, <2>1
<1>9. \A p, q \in 1..Len(calls') : calls'[p] = calls'[q] => p = q
  <2>1. \A p : p \in 1..Len(calls') <=> p \in 1..Len(calls) \/ p = Len(calls) + 1
    BY <1>5, <1>7
  <2>2. \A p \in 1..Len(calls) : calls'[p] # a
    BY <1>1, <1>4, <1>7
  <2>3. \A p, q \in 1..Len(calls) : calls[p] = calls[q] => p = q
    BY DEF BitsInv
  <2> QED
    BY <1>7, <2>1, <2>2, <2>3
<1>10. Stored'
  <2>1. \A S \in explored' : S \in SUBSET Bits!Positions
    BY <1>2, <1>4 DEF BitsInv, Stored
  <2>2. ASSUME NEW S \in explored'
        PROVE  \E x \in 2..Len(heap') : heap'[x] = Packed(S) /\ <<Bits!hash(Packed(S)), x>> \in cache'
    <3>1. CASE S \in explored
      <4>1. PICK x \in 2..L : heap[x] = Packed(S) /\ <<Bits!hash(Packed(S)), x>> \in cache
        BY <1>1, <3>1 DEF BitsInv, Stored
      <4>2. x \in 2..Len(heap') /\ heap'[x] = heap[x]
        BY <1>5, <1>6
      <4> QED
        BY <1>4, <4>1, <4>2
    <3>2. CASE S = M \cup {a}
      <4>1. L + 1 \in 2..Len(heap')
        BY <1>5, <1>6
      <4> QED
        BY <1>1, <1>4, <1>6, <3>2, <4>1
    <3> QED
      BY <1>4, <3>1, <3>2
  <2>3. ASSUME NEW h, NEW x, <<h, x>> \in cache'
        PROVE  x \in 2..Len(heap') /\ \E S \in explored' : heap'[x] = Packed(S)
    <3>1. CASE <<h, x>> \in cache
      <4>1. x \in 2..L /\ \E S \in explored : heap[x] = Packed(S)
        BY <1>1, <3>1 DEF BitsInv, Stored
      <4>2. x \in 2..Len(heap') /\ heap'[x] = heap[x]
        BY <1>5, <1>6, <4>1
      <4> QED
        BY <1>4, <4>1, <4>2
    <3>2. CASE <<h, x>> = <<Bits!hash(b), L + 1>>
      <4>1. x = L + 1 /\ L + 1 \in 2..Len(heap')
        BY <1>5, <1>6, <3>2
      <4> QED
        BY <1>1, <1>4, <1>6, <4>1
    <3> QED
      BY <1>4, <2>3, <3>1, <3>2
  <2> QED
    BY <2>1, <2>2, <2>3 DEF Stored, Bits!Positions, Packed, Bits!hash, Words
<1>11. heap'[1] = Packed({calls'[p] : p \in 1..Len(calls')})
  BY <1>1, <1>6, <1>8
<1>12. linearized' = 1 /\ 1 <= Len(heap')
  BY <1>2, <1>4, <1>5, <1>6
<1>13. \E Y : heap' \in Seq(Y)
  BY <1>6
<1> QED
  BY <1>7, <1>9, <1>10, <1>11, <1>12, <1>13, Zenon DEF BitsInv, Bits!Positions, Packed, Words

LEMMA BitsBacktrack ==
  ASSUME BitsInv, Bits!Backtrack
  PROVE  BitsInv'
<1>1. PICK M, L, K, X : M = {calls[p] : p \in 1..Len(calls)} /\ L = Len(heap)
        /\ K = Len(calls) /\ heap \in Seq(X)
  BY DEF BitsInv
<1>2. M \in SUBSET Bits!Positions /\ heap[linearized] = Packed(M) /\ linearized = 1
  BY <1>1, MembersAre DEF BitsInv
<1>3. /\ L \in Nat /\ 1 <= L /\ calls \in Seq(Bits!Positions) /\ K \in Nat /\ K # 0
      /\ \A p \in 1..K : calls[p] \in Bits!Positions
  BY <1>1 DEF BitsInv, Bits!Backtrack
<1>4. PICK a \in Bits!Positions : a = calls[K]
  BY <1>3
<1>5. Bits!clear(heap[linearized], a) = Packed(M \ {a})
  BY <1>2, PackedClear
<1>6. PICK b : b = Packed(M \ {a})
  OBVIOUS
<1>7. /\ heap' = [heap EXCEPT ![1] = b]
      /\ UNCHANGED <<linearized, cache, explored>>
      /\ calls' = Bits!Front(calls)
  BY <1>1, <1>2, <1>4, <1>5, <1>6 DEF Bits!Backtrack, Bits!Last
<1>8. /\ heap' \in Seq(X \cup {b}) /\ Len(heap') = L
      /\ heap'[1] = b /\ \A x \in 2..L : heap'[x] = heap[x]
  <2>1. heap \in Seq(X \cup {b}) /\ 1 \in 1..Len(heap)
    BY <1>1, <1>3
  <2> QED
    BY <1>1, <1>3, <1>7, <2>1
<1>9. /\ calls' \in Seq(Bits!Positions) /\ Len(calls') = K - 1
      /\ \A p \in 1..K-1 : calls'[p] = calls[p]
  BY <1>1, <1>3, <1>7 DEF Bits!Front
<1>10. \A p, q \in 1..K : calls[p] = calls[q] => p = q
  BY <1>1 DEF BitsInv
<1>11. \A p : p \in 1..K <=> p \in 1..K-1 \/ p = K
  BY <1>3
<1>12. {calls'[p] : p \in 1..Len(calls')} = M \ {a}
  <2>1. \A p \in 1..K-1 : p # K
    BY <1>3
  <2>2. \A p \in 1..K-1 : calls[p] # a
    BY <1>4, <1>10, <1>11, <2>1
  <2> QED
    BY <1>1, <1>4, <1>9, <1>11, <2>2
<1>13. \A p, q \in 1..Len(calls') : calls'[p] = calls'[q] => p = q
  BY <1>9, <1>10, <1>11
<1>14. Stored'
  <2>1. \A S \in explored' : S \in SUBSET Bits!Positions
    BY <1>7 DEF BitsInv, Stored
  <2>2. \A S \in explored' : \E x \in 2..Len(heap') :
          heap'[x] = Packed(S) /\ <<Bits!hash(Packed(S)), x>> \in cache'
    BY <1>1, <1>7, <1>8 DEF BitsInv, Stored
  <2>3. \A h, x : <<h, x>> \in cache' => x \in 2..Len(heap') /\ \E S \in explored' : heap'[x] = Packed(S)
    BY <1>1, <1>7, <1>8 DEF BitsInv, Stored
  <2> QED
    BY <2>1, <2>2, <2>3 DEF Stored, Bits!Positions, Packed, Bits!hash, Words
<1>15. heap'[1] = Packed({calls'[p] : p \in 1..Len(calls')})
  BY <1>6, <1>8, <1>12
<1>16. linearized' = 1 /\ 1 <= Len(heap')
  BY <1>2, <1>3, <1>7, <1>8
<1>17. \E Y : heap' \in Seq(Y)
  BY <1>8
<1> QED
  BY <1>9, <1>13, <1>14, <1>15, <1>16, <1>17, Zenon DEF BitsInv, Bits!Positions, Packed, Words

LEMMA BitsNext == BitsInv /\ [Bits!Next]_(Bits!vars) => BitsInv'
<1> SUFFICES ASSUME BitsInv, [Bits!Next]_(Bits!vars) PROVE BitsInv'
  OBVIOUS
<1>1. CASE UNCHANGED Bits!vars
  <2>1. UNCHANGED <<heap, linearized, cache, calls, explored>>
    BY <1>1 DEF Bits!vars
  <2>2. Stored'
    <3>1. \A S \in explored' : S \in SUBSET Bits!Positions
      BY <2>1 DEF BitsInv, Stored
    <3>2. \A S \in explored' : \E x \in 2..Len(heap') :
            heap'[x] = Packed(S) /\ <<Bits!hash(Packed(S)), x>> \in cache'
      BY <2>1 DEF BitsInv, Stored
    <3>3. \A h, x : <<h, x>> \in cache' => x \in 2..Len(heap') /\ \E S \in explored' : heap'[x] = Packed(S)
      BY <2>1 DEF BitsInv, Stored
    <3> QED
      BY <3>1, <3>2, <3>3 DEF Stored, Bits!Positions, Packed, Bits!hash, Words
  <2>3. /\ calls' \in Seq(Bits!Positions)
        /\ \A p, q \in 1..Len(calls') : calls'[p] = calls'[q] => p = q
        /\ heap'[1] = Packed({calls'[p] : p \in 1..Len(calls')})
        /\ linearized' = 1 /\ 1 <= Len(heap') /\ \E Y : heap' \in Seq(Y)
    BY <2>1, Zenon DEF BitsInv
  <2> QED
    BY <2>2, <2>3, Zenon DEF BitsInv, Bits!Positions, Packed, Words
<1>2. ASSUME NEW a \in Bits!Positions, Bits!Linearize(a) PROVE BitsInv'
  BY <1>2, BitsLinearize
<1>3. CASE Bits!Backtrack
  BY <1>3, BitsBacktrack
<1> QED
  BY <1>1, <1>2, <1>3 DEF Bits!Next

-----------------------------------------------------------------------------
(* The page.                                                               *)

ShownPartials == Shown!PartialLinearizations(history, Shown!RealTime)

LEMMA SameState ==
  ASSUME NEW h, NEW s, NEW x
  PROVE  Shown!StateAfter(h, s, x) = StateAfter(h, s, x)
  BY Zenon DEF Shown!StateAfter, StateAfter, Shown!InitState, InitState, Shown!StepState, StepState

LEMMA ShownStates ==
  ASSUME NEW h, NEW s
  PROVE  /\ Shown!StateAfter(h, s, 0) = Shown!InitState
         /\ \A x \in Nat : Shown!StateAfter(h, s, x + 1)
                             = Shown!StepState(Shown!StateAfter(h, s, x), h[s[x+1]].input)
  BY StateAfterFacts, SameState DEF Shown!InitState, InitState, Shown!StepState, StepState

LEMMA ShownFacts ==
  ASSUME NEW s \in ShownPartials
  PROVE  /\ Len(s) \in Nat /\ DOMAIN s = 1..Len(s)
         /\ \A x \in 1..Len(s) :
              Shown!StepOK(Shown!StateAfter(history, s, x - 1), history[s[x]].input, history[s[x]].output)
<1>1. s \in Shown!Orders(Len(history)) /\ Shown!Legal(history, s)
  BY DEF ShownPartials, Shown!PartialLinearizations
<1>2. PICK c \in 0..Len(history) : s \in [1..c -> 1..Len(history)]
  BY <1>1 DEF Shown!Orders
<1>3. c \in Nat /\ DOMAIN s = 1..c /\ Len(s) = c
  BY <1>2
<1> QED
  BY <1>1, <1>3 DEF Shown!Legal

\* How far the replay has come.
ReplayAt ==
  /\ partials \in Seq(ShownPartials)
  /\ place \in {"sort", "replay"}
  /\ i \in Nat \ {0} /\ j \in Nat \ {0}
  /\ i <= Len(partials) => state = Shown!StateAfter(history, partials[i], j - 1)
  /\ place = "sort" =>
       /\ i = 1 /\ j = 1 /\ state = Shown!InitState
       /\ DOMAIN largestIndex = {} /\ DOMAIN largestSize = {}

\* An operation that was passed has an index, of a partial linearization that
\* contains it and is no shorter than any of those passed.
Recording ==
  /\ DOMAIN largestIndex = DOMAIN largestSize
  /\ \A x \in DOMAIN largestIndex :
       /\ largestIndex[x] \in 1..Len(partials)
       /\ largestSize[x] = Len(partials[largestIndex[x]])
       /\ \E q \in 1..Len(partials[largestIndex[x]]) : partials[largestIndex[x]][q] = x
  /\ \A p \in 1..Len(partials) : \A q \in 1..Len(partials[p]) :
       p < i \/ (p = i /\ q < j) =>
         /\ partials[p][q] \in DOMAIN largestSize
         /\ Len(partials[p]) <= largestSize[partials[p][q]]

ShownInv == ReplayAt /\ Recording

LEMMA ShownLargest == ShownInv => Shown!LargestShown
<1> SUFFICES ASSUME ShownInv PROVE Shown!LargestShown
  OBVIOUS
<1>1. place # "panic"
  BY DEF ShownInv, ReplayAt
<1>2. ASSUME i > Len(partials), place = "replay", NEW x \in DOMAIN history
      PROVE  /\ x \in DOMAIN largestIndex <=> Shown!Containing(x) # {}
             /\ Shown!Containing(x) # {} =>
                  /\ largestIndex[x] \in Shown!Containing(x)
                  /\ \A p \in Shown!Containing(x) : Len(partials[p]) <= Len(partials[largestIndex[x]])
  <2>1. /\ DOMAIN partials = 1..Len(partials) /\ Len(partials) \in Nat /\ i \in Nat
        /\ \A p \in 1..Len(partials) : partials[p] \in ShownPartials
    BY DEF ShownInv, ReplayAt
  <2>2. \A p \in 1..Len(partials) : DOMAIN partials[p] = 1..Len(partials[p])
    BY <2>1, ShownFacts
  <2>3. \A p : p \in Shown!Containing(x) <=>
          p \in 1..Len(partials) /\ \E q \in 1..Len(partials[p]) : partials[p][q] = x
    BY <2>1, <2>2 DEF Shown!Containing, Shown!ToSet
  <2>4. \A p \in 1..Len(partials) : p < i
    BY <1>2, <2>1
  <2>5. ASSUME NEW p \in Shown!Containing(x)
        PROVE  x \in DOMAIN largestIndex /\ Len(partials[p]) <= Len(partials[largestIndex[x]])
    <3>1. PICK q \in 1..Len(partials[p]) : partials[p][q] = x
      BY <2>3
    <3>2. p \in 1..Len(partials) /\ p < i
      BY <2>3, <2>4
    <3>3. x \in DOMAIN largestSize /\ Len(partials[p]) <= largestSize[x]
      BY <3>1, <3>2 DEF ShownInv, Recording
    <3> QED
      BY <3>3 DEF ShownInv, Recording
  <2>6. ASSUME x \in DOMAIN largestIndex PROVE largestIndex[x] \in Shown!Containing(x)
    BY <2>3, <2>6 DEF ShownInv, Recording
  <2> QED
    BY <2>5, <2>6
<1> QED
  BY <1>1, <1>2 DEF Shown!LargestShown

LEMMA ShownInit == Shown!Init => ShownInv
<1> SUFFICES ASSUME Shown!Init PROVE ShownInv
  OBVIOUS
<1>1. /\ place = "sort" /\ i = 1 /\ j = 1 /\ state = Shown!InitState
      /\ DOMAIN largestIndex = {} /\ DOMAIN largestSize = {}
  BY DEF Shown!Init
<1>2. partials \in Shown!SeqOf(ShownPartials \ {<<>>}, MaxPartials)
  BY DEF Shown!Init, Shown!BoundedSeq, ShownPartials
<1>3. PICK c \in 0..MaxPartials : partials \in [1..c -> ShownPartials \ {<<>>}]
  BY <1>2 DEF Shown!SeqOf
<1>4. partials \in Seq(ShownPartials)
  <2>1. c \in Nat
    BY SizeAssumption
  <2>2. partials \in [1..c -> ShownPartials]
    BY <1>3
  <2> QED
    BY <2>1, <2>2
<1>5. state = Shown!StateAfter(history, partials[i], j - 1)
  <2>1. j - 1 = 0
    BY <1>1
  <2> QED
    BY <1>1, <2>1, ShownStates
<1>6. ReplayAt
  BY <1>1, <1>4, <1>5 DEF ReplayAt
<1>7. Recording
  <2>1. \A p \in 1..Len(partials) : \A q \in 1..Len(partials[p]) : ~(p < i \/ (p = i /\ q < j))
    <3> SUFFICES ASSUME NEW p \in 1..Len(partials), NEW q \in 1..Len(partials[p])
                 PROVE  ~(p < 1) /\ ~(q < 1)
      BY <1>1
    <3>1. Len(partials) \in Nat /\ partials[p] \in ShownPartials
      BY <1>4
    <3>2. Len(partials[p]) \in Nat
      BY <3>1, ShownFacts
    <3> QED
      BY <3>1, <3>2
  <2> QED
    BY <1>1, <2>1 DEF Recording
<1> QED
  BY <1>6, <1>7 DEF ShownInv

LEMMA ShownSort == ShownInv /\ Shown!Sort => ShownInv'
<1> SUFFICES ASSUME ShownInv, Shown!Sort PROVE ShownInv'
  OBVIOUS
<1>1. /\ place = "sort" /\ place' = "replay"
      /\ UNCHANGED <<history, i, j, state, largestIndex, largestSize>>
  BY DEF Shown!Sort
<1>2. PICK p \in Shown!SetToSeqs(DOMAIN partials) : partials' = [x \in DOMAIN partials |-> partials[p[x]]]
  BY DEF Shown!Sort
<1>3. PICK c, X : c = Len(partials) /\ X = ShownPartials
  OBVIOUS
<1>4. c \in Nat /\ DOMAIN partials = 1..c /\ \A x \in 1..c : partials[x] \in X
  BY <1>3 DEF ShownInv, ReplayAt
<1>5. p \in [1..c -> 1..c]
  <2>1. Shown!Cardinality(1..c) = c
    <3>1. Shown!Cardinality(1..c) = Cardinality(1..c)
      BY Zenon DEF Shown!Cardinality, Cardinality
    <3> QED
      BY <1>4, <3>1, FS_Interval
  <2> QED
    BY <1>2, <1>4, <2>1 DEF Shown!SetToSeqs
<1>6. partials' \in [1..c -> X]
  BY <1>2, <1>4, <1>5
<1>7. partials' \in Seq(X) /\ Len(partials') = c
  BY <1>4, <1>6
<1>8. ShownPartials' = X
  BY <1>1, <1>3 DEF ShownPartials, Shown!PartialLinearizations, Shown!RealTime, Shown!Respects, Shown!Legal,
     Shown!Orders
<1>9. i = 1 /\ j = 1 /\ state = Shown!InitState /\ DOMAIN largestIndex = {} /\ DOMAIN largestSize = {}
  BY <1>1 DEF ShownInv, ReplayAt
<1>10. state' = Shown!StateAfter(history', partials'[i'], j' - 1)
  <2>1. j' - 1 = 0
    BY <1>1, <1>9
  <2> QED
    BY <1>1, <1>9, <2>1, ShownStates
<1>11. ReplayAt'
  BY <1>1, <1>7, <1>8, <1>9, <1>10 DEF ReplayAt
<1>12. \A q \in 1..Len(partials') : \A x \in 1..Len(partials'[q]) : ~(q < 1) /\ ~(x < 1)
  <2> SUFFICES ASSUME NEW q \in 1..Len(partials'), NEW x \in 1..Len(partials'[q])
               PROVE  ~(q < 1) /\ ~(x < 1)
    OBVIOUS
  <2>1. partials'[q] \in X
    BY <1>6, <1>7
  <2>2. Len(partials'[q]) \in Nat
    BY <1>3, <2>1, ShownFacts
  <2> QED
    BY <1>4, <1>7, <2>2
<1>13. Recording'
  BY <1>1, <1>9, <1>12 DEF Recording
<1> QED
  BY <1>11, <1>13 DEF ShownInv

LEMMA ShownReplay == ShownInv /\ Shown!Replay => ShownInv'
<1> SUFFICES ASSUME ShownInv, Shown!Replay PROVE ShownInv'
  OBVIOUS
<1>1. place = "replay" /\ i <= Len(partials) /\ j <= Len(partials[i]) /\ UNCHANGED <<history, partials, i>>
  BY DEF Shown!Replay
<1>2. PICK s, N, x : s = partials[i] /\ N = Len(s) /\ x = s[j]
  OBVIOUS
<1>3. /\ partials \in Seq(ShownPartials) /\ Len(partials) \in Nat /\ i \in 1..Len(partials)
      /\ s \in ShownPartials /\ j \in Nat \ {0}
  <2>1. partials \in Seq(ShownPartials) /\ i \in Nat \ {0} /\ j \in Nat \ {0}
    BY DEF ShownInv, ReplayAt
  <2>2. Len(partials) \in Nat /\ i \in 1..Len(partials)
    BY <1>1, <2>1
  <2> QED
    BY <1>2, <2>1, <2>2
<1>4. N \in Nat /\ j \in 1..N /\ state = Shown!StateAfter(history, s, j - 1)
  <2>1. N \in Nat
    BY <1>2, <1>3, ShownFacts
  <2> QED
    BY <1>1, <1>2, <1>3, <2>1 DEF ShownInv, ReplayAt
<1>5. Shown!StepOK(state, history[x].input, history[x].output)
  BY <1>2, <1>3, <1>4, ShownFacts
<1>6. /\ state' = Shown!StepState(state, history[x].input)
      /\ Shown!RecordLargest(x) /\ j' = j + 1 /\ place' = place
  BY <1>2, <1>5 DEF Shown!Replay
<1>7. state' = Shown!StateAfter(history', partials'[i'], j' - 1)
  <2>1. j - 1 \in Nat /\ (j - 1) + 1 = j /\ j' - 1 = j
    BY <1>3, <1>6
  <2>2. Shown!StateAfter(history, s, (j - 1) + 1)
          = Shown!StepState(Shown!StateAfter(history, s, j - 1), history[s[(j - 1) + 1]].input)
    BY <2>1, ShownStates
  <2>3. Shown!StateAfter(history, s, j) = Shown!StepState(state, history[x].input)
    BY <1>2, <1>4, <2>1, <2>2
  <2> QED
    BY <1>1, <1>2, <1>6, <2>1, <2>3
<1>8. ShownPartials' = ShownPartials
  BY <1>1 DEF ShownPartials, Shown!PartialLinearizations, Shown!RealTime, Shown!Respects, Shown!Legal,
     Shown!Orders
<1>9. ReplayAt'
  <2>1. j' \in Nat \ {0} /\ i' \in Nat \ {0} /\ place' = "replay"
    BY <1>1, <1>3, <1>6
  <2> QED
    BY <1>1, <1>3, <1>7, <1>8, <2>1 DEF ReplayAt
<1>10. /\ DOMAIN largestIndex = DOMAIN largestSize
       /\ \A y \in DOMAIN largestIndex :
            /\ largestIndex[y] \in 1..Len(partials)
            /\ largestSize[y] = Len(partials[largestIndex[y]])
            /\ \E q \in 1..Len(partials[largestIndex[y]]) : partials[largestIndex[y]][q] = y
  BY DEF ShownInv, Recording
<1>11. \A y \in DOMAIN largestSize : largestSize[y] \in Nat
  <2> SUFFICES ASSUME NEW y \in DOMAIN largestSize PROVE largestSize[y] \in Nat
    OBVIOUS
  <2>1. PICK p \in 1..Len(partials) : largestSize[y] = Len(partials[p])
    BY <1>10
  <2>2. partials[p] \in ShownPartials
    BY <1>3
  <2> QED
    BY <2>1, <2>2, ShownFacts
\* what is recorded for x, and for every other operation
<1>12. /\ DOMAIN largestSize' = DOMAIN largestSize \cup {x}
       /\ DOMAIN largestIndex' = DOMAIN largestSize \cup {x}
       /\ \A y \in DOMAIN largestSize : y # x =>
            largestSize'[y] = largestSize[y] /\ largestIndex'[y] = largestIndex[y]
       /\ \/ largestSize'[x] = N /\ largestIndex'[x] = i
          \/ /\ x \in DOMAIN largestSize /\ N <= largestSize[x]
             /\ largestSize'[x] = largestSize[x] /\ largestIndex'[x] = largestIndex[x]
       /\ x \in DOMAIN largestSize => largestSize[x] <= largestSize'[x]
  <2>1. CASE Shown!Length(x) < N
    <3>1. largestSize' = Shown!Put(largestSize, x, N) /\ largestIndex' = Shown!Put(largestIndex, x, i)
      BY <1>2, <1>6, <2>1 DEF Shown!RecordLargest
    <3>2. x \in DOMAIN largestSize => largestSize[x] <= N
      BY <1>4, <1>11, <2>1 DEF Shown!Length
    <3> QED
      BY <1>10, <3>1, <3>2 DEF Shown!Put
  <2>2. CASE ~(Shown!Length(x) < N)
    <3>1. UNCHANGED <<largestSize, largestIndex>>
      BY <1>2, <1>6, <2>2 DEF Shown!RecordLargest
    <3>2. 0 < N
      BY <1>4
    <3>3. x \in DOMAIN largestSize
      BY <1>4, <2>2, <3>2 DEF Shown!Length
    <3>4. N <= largestSize[x] /\ largestSize[x] <= largestSize[x]
      BY <1>4, <1>11, <2>2, <3>3 DEF Shown!Length
    <3> QED
      BY <1>10, <3>1, <3>3, <3>4
  <2> QED
    BY <2>1, <2>2
<1>13. ASSUME NEW y \in DOMAIN largestIndex'
       PROVE  /\ largestIndex'[y] \in 1..Len(partials')
              /\ largestSize'[y] = Len(partials'[largestIndex'[y]])
              /\ \E q \in 1..Len(partials'[largestIndex'[y]]) : partials'[largestIndex'[y]][q] = y
  <2>1. CASE largestIndex'[y] = i /\ y = x /\ largestSize'[x] = N
    BY <1>1, <1>2, <1>3, <1>4, <2>1
  <2>2. CASE y \in DOMAIN largestIndex /\ largestIndex'[y] = largestIndex[y] /\ largestSize'[y] = largestSize[y]
    BY <1>1, <1>10, <2>2
  <2> QED
    BY <1>10, <1>12, <2>1, <2>2
<1>14. ASSUME NEW p \in 1..Len(partials'), NEW q \in 1..Len(partials'[p]), p < i' \/ (p = i' /\ q < j')
       PROVE  /\ partials'[p][q] \in DOMAIN largestSize'
              /\ Len(partials'[p]) <= largestSize'[partials'[p][q]]
  <2>1. p \in 1..Len(partials) /\ q \in 1..Len(partials[p]) /\ partials' = partials
    BY <1>1, <1>14
  <2>2. Len(partials[p]) \in Nat /\ p \in Nat /\ q \in Nat /\ i \in Nat /\ j \in Nat
    <3>1. partials[p] \in ShownPartials
      BY <1>3, <2>1
    <3> QED
      BY <1>3, <2>1, <3>1, ShownFacts
  <2>3. CASE p = i /\ q = j
    <3>1. partials[p][q] = x /\ Len(partials[p]) = N /\ x \in DOMAIN largestSize'
      BY <1>2, <1>12, <2>3
    <3>2. N <= largestSize'[x]
      BY <1>4, <1>12
    <3> QED
      BY <2>1, <3>1, <3>2
  <2>4. CASE p < i \/ (p = i /\ q < j)
    <3>1. PICK y : y = partials[p][q]
      OBVIOUS
    <3>2. y \in DOMAIN largestSize /\ Len(partials[p]) <= largestSize[y]
      BY <2>1, <2>4, <3>1 DEF ShownInv, Recording
    <3>3. largestSize[y] \in Nat /\ largestSize'[y] \in Nat /\ largestSize[y] <= largestSize'[y]
      BY <1>4, <1>11, <1>12, <3>2
    <3>4. y \in DOMAIN largestSize'
      BY <1>12, <3>2
    <3> QED
      BY <2>1, <2>2, <3>1, <3>2, <3>3, <3>4
  <2> QED
    BY <1>1, <1>6, <1>14, <2>2, <2>3, <2>4
<1>15. Recording'
  BY <1>12, <1>13, <1>14 DEF Recording
<1> QED
  BY <1>9, <1>15 DEF ShownInv

LEMMA ShownNextPartial == ShownInv /\ Shown!NextPartial => ShownInv'
<1> SUFFICES ASSUME ShownInv, Shown!NextPartial PROVE ShownInv'
  OBVIOUS
<1>1. /\ place = "replay" /\ i <= Len(partials) /\ j > Len(partials[i])
      /\ i' = i + 1 /\ j' = 1 /\ state' = Shown!InitState
      /\ UNCHANGED <<history, partials, place, largestIndex, largestSize>>
  BY DEF Shown!NextPartial
<1>2. /\ partials \in Seq(ShownPartials) /\ Len(partials) \in Nat /\ i \in Nat \ {0} /\ j \in Nat \ {0}
  BY DEF ShownInv, ReplayAt
<1>3. ShownPartials' = ShownPartials
  BY <1>1 DEF ShownPartials, Shown!PartialLinearizations, Shown!RealTime, Shown!Respects, Shown!Legal,
     Shown!Orders
<1>4. state' = Shown!StateAfter(history', partials'[i'], j' - 1)
  <2>1. j' - 1 = 0
    BY <1>1
  <2> QED
    BY <1>1, <2>1, ShownStates
<1>5. ReplayAt'
  <2>1. i' \in Nat \ {0} /\ j' \in Nat \ {0}
    BY <1>1, <1>2
  <2> QED
    BY <1>1, <1>2, <1>3, <1>4, <2>1 DEF ReplayAt
<1>6. ASSUME NEW p \in 1..Len(partials), NEW q \in 1..Len(partials[p]), p < i' \/ (p = i' /\ q < j')
      PROVE  p < i \/ (p = i /\ q < j)
  <2>1. partials[p] \in ShownPartials
    BY <1>2
  <2>2. Len(partials[p]) \in Nat
    BY <2>1, ShownFacts
  <2> QED
    BY <1>1, <1>2, <1>6, <2>2
<1>7. Recording'
  BY <1>1, <1>6 DEF ShownInv, Recording
<1> QED
  BY <1>5, <1>7 DEF ShownInv

LEMMA ShownNext == ShownInv /\ [Shown!Next]_(Shown!vars) => ShownInv'
<1> SUFFICES ASSUME ShownInv, [Shown!Next]_(Shown!vars) PROVE ShownInv'
  OBVIOUS
<1>1. CASE UNCHANGED Shown!vars
  <2>1. UNCHANGED <<history, partials, place, i, j, state, largestIndex, largestSize>>
    BY <1>1 DEF Shown!vars
  <2>2. ShownPartials' = ShownPartials
    BY <2>1 DEF ShownPartials, Shown!PartialLinearizations, Shown!RealTime, Shown!Respects, Shown!Legal,
       Shown!Orders
  <2>3. ReplayAt'
    <3>1. ReplayAt
      BY DEF ShownInv
    <3> QED
      BY <2>1, <2>2, <3>1 DEF ReplayAt
  <2>4. Recording'
    BY <2>1 DEF ShownInv, Recording
  <2> QED
    BY <2>3, <2>4 DEF ShownInv
<1> QED
  BY <1>1, ShownSort, ShownReplay, ShownNextPartial DEF Shown!Next

-----------------------------------------------------------------------------
(* A behaviour is about one function.                                      *)

PartInv ==
  /\ part = "checkParallel" => ParallelInv
  /\ part = "checkSingle" => SearchInv
  /\ part = "bitset" => BitsInv
  /\ part = "visualize" => ShownInv

LEMMA PartInit == AnyInit => PartInv
<1> SUFFICES ASSUME AnyInit PROVE PartInv
  OBVIOUS
<1>1. CASE part = "checkParallel"
  <2>1. Parallel!Init
    BY <1>1 DEF AnyInit
  <2> QED
    BY <1>1, <2>1, ParallelInit DEF PartInv
<1>2. CASE part = "checkSingle"
  <2>1. Init
    BY <1>2 DEF AnyInit
  <2> QED
    BY <1>2, <2>1, InitInv, OpsAssumption DEF PartInv
<1>3. CASE part = "bitset"
  <2>1. Bits!Init
    BY <1>3 DEF AnyInit
  <2> QED
    BY <1>3, <2>1, BitsInit DEF PartInv
<1>4. CASE part = "visualize"
  <2>1. Shown!Init
    BY <1>4 DEF AnyInit
  <2> QED
    BY <1>4, <2>1, ShownInit DEF PartInv
<1> QED
  BY <1>1, <1>2, <1>3, <1>4 DEF PartInv

LEMMA PartNext == PartInv /\ [AnyNext]_all => PartInv'
<1> SUFFICES ASSUME PartInv, [AnyNext]_all PROVE PartInv'
  OBVIOUS
<1>0. part' = part
  BY DEF AnyNext, all
<1>1. CASE part = "checkParallel"
  <2>1. [Parallel!Next]_(Parallel!vars)
    BY <1>1 DEF AnyNext, all, parallelVars, Parallel!vars, Parallel!args, Parallel!workers, Parallel!caller
  <2> QED
    BY <1>0, <1>1, <2>1, ParallelNext DEF PartInv
<1>2. CASE part = "checkSingle"
  <2>1. [Next]_vars
    BY <1>2 DEF AnyNext, all, vars, singleVars, setVars
  <2> QED
    BY <1>0, <1>2, <2>1, NextInv DEF PartInv
<1>3. CASE part = "bitset"
  <2>1. [Bits!Next]_(Bits!vars)
    BY <1>3 DEF AnyNext, all, setVars, Bits!vars
  <2> QED
    BY <1>0, <1>3, <2>1, BitsNext DEF PartInv
<1>4. CASE part = "visualize"
  <2>1. [Shown!Next]_(Shown!vars)
    BY <1>4 DEF AnyNext, all, shownVars, Shown!vars
  <2> QED
    BY <1>0, <1>4, <2>1, ShownNext DEF PartInv
<1> QED
  BY <1>0, <1>1, <1>2, <1>3, <1>4 DEF PartInv

LEMMA PartInvariant == AnySpec => []PartInv
  BY PartInit, PartNext, PTL DEF AnySpec

(* The verdict of the parallel check is the truth about the history,       *)
(* however many partitions it has and however their searches are killed.   *)
THEOREM SoundVerdictHolds == AnySpec => []SoundVerdict
<1>1. PartInv => SoundVerdict
  BY DEF PartInv, ParallelInv, Known, SoundVerdict, Parallel!SoundVerdict
<1> QED
  BY <1>1, PartInvariant, PTL

(* The caller of a verbose check reads longest[] only when every goroutine *)
(* has written its slot.                                                   *)
THEOREM NoRaceHolds == AnySpec => []NoRaceOnLongest
<1>1. PartInv => NoRaceOnLongest
  BY DEF PartInv, ParallelInv, Parallel!TypeOK, Known, Slots, NoRaceOnLongest, Parallel!NoRaceOnLongest
<1> QED
  BY <1>1, PartInvariant, PTL

(* checkSingle answers true only for a linearizable history and, unless it *)
(* was killed, false only for one that is not, for histories of any number *)
(* of operations: pruning by the cache loses no linearization.             *)
THEOREM VerdictHolds == AnySpec => []CorrectVerdict
<1>1. PartInv => CorrectVerdict
  BY InvVerdict DEF PartInv, CorrectVerdict
<1> QED
  BY <1>1, PartInvariant, PTL

(* However often lift and unlift were applied, the list holds the entries  *)
(* of the operations that are not linearized, in order and linked both     *)
(* ways, and the bitset agrees with the stack.                             *)
THEOREM ListHolds == AnySpec => []ListIntact
<1>1. PartInv => ListIntact
  BY InvList DEF PartInv, ListIntact
<1> QED
  BY <1>1, PartInvariant, PTL

(* Every partial linearization handed out is legal and respects real time, *)
(* also when the search was killed, and none that the order of the entries *)
(* allows is longer when it ended by itself.                               *)
THEOREM PartialsHold == AnySpec => []PartialsRight
<1>1. PartInv => PartialsRight
  BY InvPartials DEF PartInv, PartialsRight
<1> QED
  BY <1>1, PartInvariant, PTL

(* For every width of a word and every number of members the bitset has    *)
(* exactly the operations on the stack, and a lookup in the hashed cache   *)
(* tells exactly whether a configuration was explored, whatever the hash   *)
(* collides on.                                                            *)
THEOREM BitsetHolds == AnySpec => []BitsetExact
<1>1. PartInv => BitsetExact
  BY BitsExact DEF PartInv, BitsetExact
<1> QED
  BY <1>1, PartInvariant, PTL

(* The replay of any legal partial linearizations never panics, and every  *)
(* operation is shown in one of the longest that contain it.               *)
THEOREM LargestHolds == AnySpec => []LargestShown
<1>1. PartInv => LargestShown
  BY ShownLargest DEF PartInv, LargestShown
<1> QED
  BY <1>1, PartInvariant, PTL
=============================================================================
