--------------------------- MODULE CheckParallel ---------------------------
(***************************************************************************)
(* checkParallel of porcupine/checker.go: one goroutine per partition of   *)
(* the history runs checkSingle; the caller collects their results through *)
(* a buffered channel, may time out, and may kill the searches still going *)
(* on.  checkSingle itself is module CheckSingle; here it is a search that *)
(* ends with the truth, or with false once it has seen kill.               *)
(***************************************************************************)
EXTENDS Naturals, FiniteSets

CONSTANT Parts                    \* the partitions of the history

VARIABLES
  \* the arguments, fixed by Init
  linearizable,                   \* the partitions that are linearizable
  computeInfo, timeout,           \* timeout: is it greater than 0?
  \* the goroutine of each partition
  worker, found,                  \* where it is, and what checkSingle returned
  \* shared between them and the caller
  kill, results, longest,         \* longest: the partitions whose slot is written
  \* the caller
  pc, ok, timedOut, received, verdict

args    == <<linearizable, computeInfo, timeout>>
workers == <<worker, found, longest>>
caller  == <<pc, ok, timedOut, received, verdict>>
vars    == <<args, workers, kill, results, caller>>

TypeOK ==
  /\ linearizable \subseteq Parts
  /\ computeInfo \in BOOLEAN /\ timeout \in BOOLEAN
  /\ worker \in [Parts -> {"search", "store", "send", "exit"}]
  /\ found \in [Parts -> BOOLEAN]
  /\ kill \in BOOLEAN
  /\ results \subseteq Parts /\ longest \subseteq Parts /\ received \subseteq Parts
  /\ pc \in {"loop", "collect", "returned"}
  /\ ok \in BOOLEAN /\ timedOut \in BOOLEAN
  /\ verdict \in {"none", "Ok", "Illegal", "Unknown"}

Init ==
  /\ linearizable \in SUBSET Parts
  /\ computeInfo \in BOOLEAN /\ timeout \in BOOLEAN
  /\ worker = [p \in Parts |-> "search"]
  /\ found = [p \in Parts |-> FALSE]
  /\ kill = FALSE /\ results = {} /\ longest = {}
  /\ pc = "loop" /\ ok = TRUE /\ timedOut = FALSE /\ received = {}
  /\ verdict = "none"

-----------------------------------------------------------------------------
(* The goroutine of partition p.                                           *)

\* checkSingle polls kill once per step of its search: it may finish first.
CheckSingle(p) ==
  /\ worker[p] = "search"
  /\ worker' = [worker EXCEPT ![p] = "store"]
  /\ \/ found' = [found EXCEPT ![p] = (p \in linearizable)]
     \/ kill /\ found' = [found EXCEPT ![p] = FALSE]
  /\ UNCHANGED <<args, kill, results, longest, caller>>

\* longest[i] = l
StoreLongest(p) ==
  /\ worker[p] = "store"
  /\ worker' = [worker EXCEPT ![p] = "send"]
  /\ longest' = longest \cup {p}
  /\ UNCHANGED <<args, found, kill, results, caller>>

\* Mutant: an unbuffered channel, on which a send waits for the receiver.
SendUnbuffered(p) ==
  /\ worker[p] = "send"
  /\ pc = "loop" \/ (pc = "collect" /\ computeInfo)
  /\ results = {}
  /\ worker' = [worker EXCEPT ![p] = "exit"]
  /\ results' = results \cup {p}
  /\ UNCHANGED <<args, found, kill, longest, caller>>

\* results has room for every goroutine: the send never blocks.
Send(p) ==
  /\ worker[p] = "send"
  /\ worker' = [worker EXCEPT ![p] = "exit"]
  /\ results' = results \cup {p}
  /\ UNCHANGED <<args, found, kill, longest, caller>>

-----------------------------------------------------------------------------
(* The caller.  The order in which results are buffered is the order of    *)
(* the sends, which are arbitrary: receiving any of them is the same.      *)

Receive(p) ==
  /\ p \in results
  /\ results' = results \ {p}
  /\ received' = received \cup {p}

ReceiveResult(p) ==
  /\ pc = "loop" /\ Receive(p)
  /\ ok' = (ok /\ found[p])
  /\ IF ~ok' /\ ~computeInfo
       THEN kill' = TRUE /\ pc' = "collect"
       ELSE kill' = kill /\ pc' = IF received' = Parts THEN "collect" ELSE pc
  /\ UNCHANGED <<args, workers, timedOut, verdict>>

Timeout ==
  /\ pc = "loop" /\ timeout
  /\ timedOut' = TRUE /\ kill' = TRUE /\ pc' = "collect"
  /\ UNCHANGED <<args, workers, results, ok, received, verdict>>

\* Mutant: what a killed search returns is taken for a result.
CollectAndCount(p) ==
  /\ pc = "collect" /\ computeInfo /\ Receive(p)
  /\ ok' = (ok /\ found[p])
  /\ UNCHANGED <<args, workers, kill, pc, timedOut, verdict>>

\* The results that come after kill are received and ignored.
Collect(p) ==
  /\ pc = "collect" /\ computeInfo /\ Receive(p)
  /\ UNCHANGED <<args, workers, kill, pc, ok, timedOut, verdict>>

\* Mutant: the slots of longest are read without waiting.
ReturnEarly ==
  /\ pc = "collect"
  /\ pc' = "returned"
  /\ verdict' = IF ~ok THEN "Illegal" ELSE IF timedOut THEN "Unknown" ELSE "Ok"
  /\ UNCHANGED <<args, workers, kill, results, ok, timedOut, received>>

\* Reads longest into info, if asked to, and returns.
Return ==
  /\ pc = "collect" /\ (computeInfo => received = Parts)
  /\ pc' = "returned"
  /\ verdict' = IF ~ok THEN "Illegal" ELSE IF timedOut THEN "Unknown" ELSE "Ok"
  /\ UNCHANGED <<args, workers, kill, results, ok, timedOut, received>>

Caller == Timeout \/ Return \/ \E p \in Parts : ReceiveResult(p) \/ Collect(p)

Next == Caller \/ \E p \in Parts : CheckSingle(p) \/ StoreLongest(p) \/ Send(p)

Spec == Init /\ [][Next]_vars

\* Every goroutine keeps running, and the search of checkSingle ends; a
\* timeout is one of the things the caller may take.
Fairness ==
  /\ WF_vars(Caller)
  /\ \A p \in Parts : WF_vars(CheckSingle(p) \/ StoreLongest(p) \/ Send(p))

FairSpec == Spec /\ Fairness

-----------------------------------------------------------------------------
(* The verdict is the truth about the whole history, whatever the order of *)
(* results, the timeout and the searches that were killed: Illegal only if *)
(* some partition is not linearizable ("if we time out, we might get a     *)
(* false positive": a killed search returns false), Ok only if all are,    *)
(* and Unknown only after a timeout.                                       *)
SoundVerdict ==
  /\ verdict = "Illegal" => linearizable # Parts
  /\ verdict = "Ok" => linearizable = Parts
  /\ verdict = "Unknown" => timeout

(* "make sure we've waited for all goroutines to finish, otherwise we might*)
(* race on access to longest[]".                                           *)
NoRaceOnLongest == pc = "returned" /\ computeInfo => longest = Parts

(* A goroutine is never left blocked, also when the caller returned early. *)
WorkersExit == \A p \in Parts : <>(worker[p] = "exit")

(* The check of a history always comes back.                               *)
Returns == <>(pc = "returned")

(* "a history is linearizable if and only if each partition is             *)
(* linearizable" (Model.Partition): the check of a history whose           *)
(* partitions are all linearizable, with no timeout, comes back with Ok.   *)
LinearizableGivesOk == linearizable = Parts /\ ~timeout => <>(verdict = "Ok")
=============================================================================
