------------------------------- MODULE Bitset -------------------------------
(***************************************************************************)
(* porcupine/bitset.go and the way checkSingle and cacheContains use it: a *)
(* set of small numbers packed into the words of a slice.  A slice is a    *)
(* reference, so set and clear change every bitset that shares it, and the *)
(* cache must hold clones; it is looked up by a hash that collides.        *)
(* CheckSingle takes bitsets and cache for the sets they stand for, which  *)
(* this module justifies.  The states cached with the bitsets are equal.   *)
(***************************************************************************)
EXTENDS Integers, SequencesExt

CONSTANTS W,           \* bits of a word (64 in the code)
          Size,        \* members are 0..Size-1
          MaxCached    \* bound: entries of the cache

Positions == 0..Size-1

VARIABLES heap,        \* the arrays: address -> words
          linearized,  \* address of checkSingle's bitset
          cache,       \* <<hash, address>> of the entries of its buckets
          calls,       \* members in the order they were set
          explored     \* history: the configurations cached, as sets

vars == <<heap, linearized, cache, calls, explored>>

Chunks(bits) == bits \div W + (IF bits % W # 0 THEN 1 ELSE 0)

\* A word is the set of its 1-bits.
newBitset(bits) == [c \in 0..Chunks(bits)-1 |-> {}]

bitsetIndex(pos) == <<pos \div W, pos % W>>

get(b, pos) == LET x == bitsetIndex(pos) IN x[2] \in b[x[1]]

\* b[major] |= 1 << minor and b[major] &^= 1 << minor
set(b, pos) ==
  LET x == bitsetIndex(pos) IN [b EXCEPT ![x[1]] = @ \cup {x[2]}]

clear(b, pos) ==
  LET x == bitsetIndex(pos) IN [b EXCEPT ![x[1]] = @ \ {x[2]}]

popcnt(b) == Cardinality({p \in (DOMAIN b) \X (0..W-1) : p[2] \in b[p[1]]})

\* The word with value v.
Word(v) == {x \in 0..W-1 : (v \div 2^x) % 2 = 1}

\* popcnt, and the words xored into it
hash(b) == FoldFunction(SymDiff, Word(popcnt(b)), b)

equals(b, b2) ==
  DOMAIN b = DOMAIN b2 /\ \A c \in DOMAIN b : b[c] = b2[c]

Bucket(b) == {a \in DOMAIN heap : <<hash(b), a>> \in cache}

cacheContains(b) == \E a \in Bucket(b) : equals(b, heap[a])

-----------------------------------------------------------------------------
Init ==
  /\ heap = <<newBitset(Size)>> /\ linearized = 1
  /\ cache = {} /\ calls = <<>> /\ explored = {}

Members == ToSet(calls)

\* Mutant: the cache gets the bitset itself.
LinearizeAliased(id) ==
  /\ id \notin Members /\ Cardinality(explored) < MaxCached
  /\ LET b == set(heap[linearized], id)
     IN  /\ ~cacheContains(b)
         /\ heap' = [heap EXCEPT ![linearized] = b]
         /\ cache' = cache \cup {<<hash(b), linearized>>}
  /\ calls' = Append(calls, id)
  /\ explored' = explored \cup {Members \cup {id}}
  /\ UNCHANGED linearized

\* linearized.clone().set(id) is new: it is cached, and id set in linearized.
Linearize(id) ==
  /\ id \notin Members /\ Cardinality(explored) < MaxCached
  /\ LET b == set(heap[linearized], id)
     IN  /\ ~cacheContains(b)
         /\ heap' = Append([heap EXCEPT ![linearized] = set(@, id)], b)
         /\ cache' = cache \cup {<<hash(b), Len(heap) + 1>>}
  /\ calls' = Append(calls, id)
  /\ explored' = explored \cup {Members \cup {id}}
  /\ UNCHANGED linearized

\* The last call is undone.
Backtrack ==
  /\ calls # <<>>
  /\ heap' = [heap EXCEPT ![linearized] = clear(@, Last(calls))]
  /\ calls' = Front(calls)
  /\ UNCHANGED <<linearized, cache, explored>>

Next == (\E id \in Positions : Linearize(id)) \/ Backtrack

Spec == Init /\ [][Next]_vars

-----------------------------------------------------------------------------
(* The bitset of the search holds exactly the operations on its stack,     *)
(* across word boundaries and however often members come and go.           *)
HoldsMembers == \A pos \in Positions : get(heap[linearized], pos) <=> pos \in Members

(* The cache answers exactly whether a configuration was explored: a       *)
(* lookup through the colliding hash finds what was stored, finds nothing  *)
(* else, and no later set or clear has changed what is stored.             *)
CacheExact ==
  \A id \in Positions \ Members :
    cacheContains(set(heap[linearized], id)) <=> (Members \cup {id}) \in explored
=============================================================================
