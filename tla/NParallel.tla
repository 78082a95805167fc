----------------------------- MODULE NParallel -----------------------------
(***************************************************************************)
(* nparallel of mrapps/mtiming.go and mrapps/rtiming.go, the probe with    *)
(* which test-mr.sh finds out whether workers run tasks in parallel: every *)
(* worker process leaves a file in the shared directory, lists the         *)
(* directory, asks for each process it finds there whether it is alive,    *)
(* sleeps, and removes its file.  Workers are killed at any point and      *)
(* leave their files behind; a process runs one task at a time.            *)
(***************************************************************************)
EXTENDS Naturals, FiniteSets

CONSTANT Workers      \* the worker processes, by pid

VARIABLES pc,
          files,      \* the pids with a file mr-worker-<phase>-<pid>
          lo, hi,     \* listing in progress: names surely, and possibly, in it
          names,      \* names of the listing still to be asked for
          counted,    \* the processes found alive; ret is their number
          overlap     \* history: who was in nparallel during the current call

vars == <<pc, files, lo, hi, names, counted, overlap>>

States == {"idle", "open", "read", "probe", "sleep", "dead"}

TypeOK ==
  /\ pc \in [Workers -> States] /\ files \in SUBSET Workers
  /\ lo \in [Workers -> SUBSET Workers] /\ hi \in [Workers -> SUBSET Workers]
  /\ names \in [Workers -> SUBSET Workers] /\ counted \in [Workers -> SUBSET Workers]
  /\ overlap \in [Workers -> SUBSET Workers]

Running(p) == pc[p] \notin {"idle", "dead"}

Nobody == [p \in Workers |-> {}]

Init ==
  /\ pc = [p \in Workers |-> "idle"] /\ files = {}
  /\ lo = Nobody /\ hi = Nobody /\ names = Nobody /\ counted = Nobody
  /\ overlap = Nobody

\* Map or Reduce calls nparallel, which creates the file.  Listings that are
\* in progress may or may not show it.
WriteFile(p) ==
  /\ pc[p] = "idle"
  /\ pc' = [pc EXCEPT ![p] = "open"]
  /\ files' = files \cup {p}
  /\ hi' = [r \in Workers |-> hi[r] \cup {p}]
  /\ counted' = [counted EXCEPT ![p] = {}]
  /\ overlap' = [r \in Workers |->
                   IF r = p THEN {p} \cup {q \in Workers : Running(q)}
                   ELSE IF Running(r) THEN overlap[r] \cup {p} ELSE overlap[r]]
  /\ UNCHANGED <<lo, names>>

OpenDir(p) ==
  /\ pc[p] = "open"
  /\ pc' = [pc EXCEPT ![p] = "read"]
  /\ lo' = [lo EXCEPT ![p] = files] /\ hi' = [hi EXCEPT ![p] = files]
  /\ UNCHANGED <<files, names, counted, overlap>>

\* Mutant: the file is removed before the sleep.
ReaddirAndRemove(p) ==
  /\ pc[p] = "read"
  /\ pc' = [pc EXCEPT ![p] = "probe"]
  /\ \E found \in SUBSET hi[p] : lo[p] \subseteq found /\ names' = [names EXCEPT ![p] = found]
  /\ files' = files \ {p}
  /\ lo' = [r \in Workers |-> lo[r] \ {p}]
  /\ UNCHANGED <<hi, counted, overlap>>

\* Names created or removed since the directory was opened may be missing.
Readdirnames(p) ==
  /\ pc[p] = "read"
  /\ pc' = [pc EXCEPT ![p] = "probe"]
  /\ \E found \in SUBSET hi[p] : lo[p] \subseteq found /\ names' = [names EXCEPT ![p] = found]
  /\ UNCHANGED <<files, lo, hi, counted, overlap>>

\* Mutant: whoever has a file is counted.
Count(p, q) ==
  /\ pc[p] = "probe" /\ q \in names[p]
  /\ names' = [names EXCEPT ![p] = @ \ {q}]
  /\ counted' = [counted EXCEPT ![p] = @ \cup {q}]
  /\ UNCHANGED <<pc, files, lo, hi, overlap>>

\* syscall.Kill(xpid, 0)
Probe(p, q) ==
  /\ pc[p] = "probe" /\ q \in names[p]
  /\ names' = [names EXCEPT ![p] = @ \ {q}]
  /\ counted' = [counted EXCEPT ![p] = IF pc[q] # "dead" THEN @ \cup {q} ELSE @]
  /\ UNCHANGED <<pc, files, lo, hi, overlap>>

Sleep(p) ==
  /\ pc[p] = "probe" /\ names[p] = {}
  /\ pc' = [pc EXCEPT ![p] = "sleep"]
  /\ UNCHANGED <<files, lo, hi, names, counted, overlap>>

\* The file goes, and nparallel returns.
Remove(p) ==
  /\ pc[p] = "sleep"
  /\ pc' = [pc EXCEPT ![p] = "idle"]
  /\ files' = files \ {p}
  /\ lo' = [r \in Workers |-> lo[r] \ {p}]
  /\ UNCHANGED <<hi, names, counted, overlap>>

\* The process is killed.
Die(p) ==
  /\ pc[p] # "dead"
  /\ pc' = [pc EXCEPT ![p] = "dead"]
  /\ UNCHANGED <<files, lo, hi, names, counted, overlap>>

nparallel(p) ==
  \/ WriteFile(p) \/ OpenDir(p) \/ Readdirnames(p)
  \/ \E q \in Workers : Probe(p, q)
  \/ Sleep(p) \/ Remove(p)

Next == \E p \in Workers : nparallel(p) \/ Die(p)

Spec == Init /\ [][Next]_vars

-----------------------------------------------------------------------------
(* No parallelism is missed: of two workers that sleep in nparallel at the *)
(* same time, one has counted the other, so one of them returns at least   *)
(* two, although neither holds a lock and the directory changes while it   *)
(* is being listed.                                                        *)
ParallelSeen ==
  \A p, q \in Workers :
    pc[p] = "sleep" /\ pc[q] = "sleep" => q \in counted[p] \/ p \in counted[q]

(* No parallelism is made up: whoever a call counts was itself in          *)
(* nparallel during that call; the files of killed workers, and workers    *)
(* that finished earlier, do not count.                                    *)
CountedRanTogether == \A p \in Workers : Running(p) => counted[p] \subseteq overlap[p]
=============================================================================
