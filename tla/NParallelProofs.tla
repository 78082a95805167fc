-------------------------- MODULE NParallelProofs --------------------------
(***************************************************************************)
(* The two promises of nparallel, for any set of worker processes.         *)
(***************************************************************************)
EXTENDS NParallel, TLAPS

Listing(p) == pc[p] \in {"read", "probe", "sleep"}

\* q is, or is bound to be, counted by the listing of p.
Sees(p, q) ==
  \/ pc[p] = "read" /\ q \in lo[p]
  \/ pc[p] = "probe" /\ q \in names[p] \cup counted[p]
  \/ pc[p] = "sleep" /\ q \in counted[p]

\* A worker in nparallel has its file, an idle one has none.
Filed ==
  \A p \in Workers : (Running(p) => p \in files) /\ (pc[p] = "idle" => p \notin files)

\* Of two workers that have opened the directory, one sees the other.
OneSees ==
  \A p, q \in Workers : Listing(p) /\ Listing(q) => Sees(p, q) \/ Sees(q, p)

\* Whatever a running worker has found or can find overlapped it or is dead.
Candidates(p) ==
  files \cup (IF pc[p] = "read" THEN hi[p] ELSE {})
        \cup (IF pc[p] = "probe" THEN names[p] ELSE {})

Overlapping ==
  \A p \in Workers : Running(p) =>
    /\ counted[p] \subseteq overlap[p]
    /\ \A q \in Candidates(p) : q \in overlap[p] \/ pc[q] = "dead"

Inv == TypeOK /\ Filed /\ OneSees /\ Overlapping

(* The invariant holds before any worker has called nparallel.             *)
LEMMA InitInv == Init => Inv
  BY DEF Init, Inv, TypeOK, Filed, OneSees, Overlapping, Candidates, Running,
         Listing, Nobody, States

(* Every step of nparallel, and a kill, keeps the types.                   *)
LEMMA TypeStep == TypeOK /\ [Next]_vars => TypeOK'
<1> SUFFICES ASSUME TypeOK, [Next]_vars PROVE TypeOK'
  OBVIOUS
<1> USE DEF TypeOK, States
<1>1. ASSUME NEW p \in Workers, WriteFile(p) PROVE TypeOK'
  BY <1>1 DEF WriteFile
<1>2. ASSUME NEW p \in Workers, OpenDir(p) PROVE TypeOK'
  BY <1>2 DEF OpenDir
<1>3. ASSUME NEW p \in Workers, Readdirnames(p) PROVE TypeOK'
  BY <1>3 DEF Readdirnames
<1>4. ASSUME NEW p \in Workers, NEW q \in Workers, Probe(p, q) PROVE TypeOK'
  BY <1>4 DEF Probe
<1>5. ASSUME NEW p \in Workers, Sleep(p) PROVE TypeOK'
  BY <1>5 DEF Sleep
<1>6. ASSUME NEW p \in Workers, Remove(p) PROVE TypeOK'
  BY <1>6 DEF Remove
<1>7. ASSUME NEW p \in Workers, Die(p) PROVE TypeOK'
  BY <1>7 DEF Die
<1>8. CASE UNCHANGED vars
  BY <1>8 DEF vars
<1> QED
  BY <1>1, <1>2, <1>3, <1>4, <1>5, <1>6, <1>7, <1>8 DEF Next, nparallel

(* Files follow the program counters.                                      *)
LEMMA FiledStep == TypeOK /\ Filed /\ [Next]_vars => Filed'
<1> SUFFICES ASSUME TypeOK, Filed, [Next]_vars PROVE Filed'
  OBVIOUS
<1> USE DEF TypeOK, Filed, Running
<1>1. ASSUME NEW p \in Workers, WriteFile(p) PROVE Filed'
  BY <1>1 DEF WriteFile
<1>2. ASSUME NEW p \in Workers, OpenDir(p) PROVE Filed'
  BY <1>2 DEF OpenDir
<1>3. ASSUME NEW p \in Workers, Readdirnames(p) PROVE Filed'
  BY <1>3 DEF Readdirnames
<1>4. ASSUME NEW p \in Workers, NEW q \in Workers, Probe(p, q) PROVE Filed'
  BY <1>4 DEF Probe
<1>5. ASSUME NEW p \in Workers, Sleep(p) PROVE Filed'
  BY <1>5 DEF Sleep
<1>6. ASSUME NEW p \in Workers, Remove(p) PROVE Filed'
  BY <1>6 DEF Remove
<1>7. ASSUME NEW p \in Workers, Die(p) PROVE Filed'
  BY <1>7 DEF Die
<1>8. CASE UNCHANGED vars
  BY <1>8 DEF vars
<1> QED
  BY <1>1, <1>2, <1>3, <1>4, <1>5, <1>6, <1>7, <1>8 DEF Next, nparallel

(* The later of two listings contains the earlier worker: its file has     *)
(* been there since before the directory was opened.                       *)
LEMMA OneSeesStep == TypeOK /\ Filed /\ OneSees /\ [Next]_vars => OneSees'
<1> SUFFICES ASSUME TypeOK, Filed, OneSees, [Next]_vars PROVE OneSees'
  OBVIOUS
<1> USE DEF TypeOK, Filed, Running, OneSees, Listing, Sees
<1>1. ASSUME NEW p \in Workers, WriteFile(p) PROVE OneSees'
  BY <1>1 DEF WriteFile
<1>2. ASSUME NEW p \in Workers, OpenDir(p) PROVE OneSees'
  BY <1>2 DEF OpenDir
<1>3. ASSUME NEW p \in Workers, Readdirnames(p) PROVE OneSees'
  BY <1>3 DEF Readdirnames
<1>4. ASSUME NEW p \in Workers, NEW q \in Workers, Probe(p, q) PROVE OneSees'
  BY <1>4 DEF Probe
<1>5. ASSUME NEW p \in Workers, Sleep(p) PROVE OneSees'
  BY <1>5 DEF Sleep
<1>6. ASSUME NEW p \in Workers, Remove(p) PROVE OneSees'
  BY <1>6 DEF Remove
<1>7. ASSUME NEW p \in Workers, Die(p) PROVE OneSees'
  BY <1>7 DEF Die
<1>8. CASE UNCHANGED vars
  BY <1>8 DEF vars
<1> QED
  BY <1>1, <1>2, <1>3, <1>4, <1>5, <1>6, <1>7, <1>8 DEF Next, nparallel

(* Files without a running owner belong to the dead.                       *)
LEMMA OverlappingStep == TypeOK /\ Filed /\ Overlapping /\ [Next]_vars => Overlapping'
<1> SUFFICES ASSUME TypeOK, Filed, Overlapping, [Next]_vars PROVE Overlapping'
  OBVIOUS
<1> USE DEF TypeOK, Filed, Running, Overlapping, Candidates, States
<1>1. ASSUME NEW p \in Workers, WriteFile(p) PROVE Overlapping'
  BY <1>1 DEF WriteFile
<1>2. ASSUME NEW p \in Workers, OpenDir(p) PROVE Overlapping'
  BY <1>2 DEF OpenDir
<1>3. ASSUME NEW p \in Workers, Readdirnames(p) PROVE Overlapping'
  BY <1>3 DEF Readdirnames
<1>4. ASSUME NEW p \in Workers, NEW q \in Workers, Probe(p, q) PROVE Overlapping'
  BY <1>4 DEF Probe
<1>5. ASSUME NEW p \in Workers, Sleep(p) PROVE Overlapping'
  BY <1>5 DEF Sleep
<1>6. ASSUME NEW p \in Workers, Remove(p) PROVE Overlapping'
  BY <1>6 DEF Remove
<1>7. ASSUME NEW p \in Workers, Die(p) PROVE Overlapping'
  BY <1>7 DEF Die
<1>8. CASE UNCHANGED vars
  BY <1>8 DEF vars
<1> QED
  BY <1>1, <1>2, <1>3, <1>4, <1>5, <1>6, <1>7, <1>8 DEF Next, nparallel

(* The invariant holds of every behaviour.                                 *)
LEMMA Invariance == Spec => []Inv
<1>1. Inv /\ [Next]_vars => Inv'
  BY TypeStep, FiledStep, OneSeesStep, OverlappingStep DEF Inv
<1> QED
  BY InitInv, <1>1, PTL DEF Spec

(* Two workers asleep in nparallel at the same time: one counted the other,*)
(* so the parallelism tests of test-mr.sh never miss it, for any number of *)
(* workers, of which any may be killed.                                    *)
THEOREM ParallelSeenHolds == Spec => []ParallelSeen
<1>1. Inv => ParallelSeen
  BY DEF Inv, OneSees, Listing, Sees, ParallelSeen
<1> QED
  BY Invariance, <1>1, PTL

(* nparallel counts only workers that ran in parallel with the call.       *)
THEOREM CountedRanTogetherHolds == Spec => []CountedRanTogether
<1>1. Inv => CountedRanTogether
  BY DEF Inv, Overlapping, CountedRanTogether
<1> QED
  BY Invariance, <1>1, PTL
=============================================================================
