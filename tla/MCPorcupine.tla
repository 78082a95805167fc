---------------------------- MODULE MCPorcupine ----------------------------
(***************************************************************************)
(* The parts of the linearizability checker side by side for TLC.  part    *)
(* says which function a behaviour is about; its variables take their      *)
(* course and all others are off, which is a state without steps.  Local   *)
(* variables that have the same name in two functions are shared.          *)
(***************************************************************************)
EXTENDS CheckSingle, TLC

CONSTANTS Parts, W, Size, MaxCached, MaxPartials, ShownKinds, EventIds

ASSUME SizeAssumption == W \in Nat \ {0} /\ Size \in Nat /\ MaxPartials \in Nat

VARIABLES part,
          linearizable, computeInfo, timeout,                 \* checkParallel
          worker, found, killAll, results, slots,
          pc, ok, timedOut, received, verdict,
          heap, explored,                                     \* the bitsets
          answer,                                             \* checkOperations, checkEvents
          events, k, m, id, renumbered, place,
          partials, i, j, largestIndex, largestSize           \* the visualization

parallelVars == <<linearizable, computeInfo, timeout, worker, found, killAll, results,
                  slots, pc, ok, timedOut, received, verdict>>
singleVars == <<entries, list, entry, longest, kill, result>>
eventVars  == <<events, k, m, id, renumbered>>
shownVars  == <<partials, i, j, largestIndex, largestSize>>
setVars    == <<linearized, cache, calls>>
all == <<part, parallelVars, history, state, singleVars, setVars, heap, explored, answer,
         eventVars, place, shownVars>>

Get(v)  == [input |-> [op |-> "get"], output |-> v]
Put(v)  == [input |-> [op |-> "put", value |-> v], output |-> <<>>]
Apnd(v) == [input |-> [op |-> "append", value |-> v], output |-> <<>>]

\* A put, and reads that see it or not; the same with an append and reads that
\* see neither, one or both of them.
PutAndGets == {Put(<<"a">>), Get(<<>>), Get(<<"a">>)}
AllKinds   == PutAndGets \cup {Apnd(<<"b">>), Get(<<"a", "b">>)}

\* Writes to two keys, and reads that miss them.
AtKey(x, v) == [v EXCEPT !.input = [key |-> x] @@ @]
TwoKeys == {AtKey(x, v) : x \in {"x", "y"}, v \in {Put(<<"a">>), Get(<<>>)}}

Parallel   == INSTANCE CheckParallel WITH kill <- killAll, longest <- slots
Bits       == INSTANCE Bitset
Operations == INSTANCE CheckOperations WITH
                verdict <- answer, MaxOps <- 4, Invocations <- TwoKeys
Events     == INSTANCE CheckEvents WITH
                pc <- place, verdict <- answer, MaxOps <- 3, Invocations <- PutAndGets
Shown      == INSTANCE Visualize WITH
                pc <- place, Invocations <- ShownKinds

-----------------------------------------------------------------------------
SingleOff == /\ entries = "off" /\ list = "off" /\ entry = "off"
             /\ longest = "off" /\ kill = "off" /\ result = "off"
SetsOff   == linearized = "off" /\ cache = "off" /\ calls = "off"
HeapOff   == heap = "off" /\ explored = "off"
EventsOff == events = "off" /\ k = "off" /\ m = "off" /\ id = "off" /\ renumbered = "off"
ShownOff  == /\ partials = "off" /\ i = "off" /\ j = "off"
             /\ largestIndex = "off" /\ largestSize = "off"

\* checkParallel has returned.
ParallelOff ==
  /\ linearizable = {} /\ computeInfo = FALSE /\ timeout = FALSE
  /\ worker = [p \in Parts |-> "exit"] /\ found = [p \in Parts |-> FALSE]
  /\ killAll = FALSE /\ results = {} /\ slots = {}
  /\ pc = "returned" /\ ok = TRUE /\ timedOut = FALSE /\ received = {}
  /\ verdict = "none"

AnyInit ==
  \/ /\ part = "checkParallel" /\ Parallel!Init
     /\ history = "off" /\ state = "off" /\ answer = "off" /\ place = "off"
     /\ SingleOff /\ SetsOff /\ HeapOff /\ EventsOff /\ ShownOff
  \/ /\ part = "checkSingle" /\ Init
     /\ answer = "off" /\ place = "off"
     /\ ParallelOff /\ HeapOff /\ EventsOff /\ ShownOff
  \/ /\ part = "bitset" /\ Bits!Init
     /\ history = "off" /\ state = "off" /\ answer = "off" /\ place = "off"
     /\ ParallelOff /\ SingleOff /\ EventsOff /\ ShownOff
  \/ /\ part = "checkOperations" /\ Operations!Init
     /\ state = "off" /\ place = "off"
     /\ ParallelOff /\ SingleOff /\ SetsOff /\ HeapOff /\ EventsOff /\ ShownOff
  \/ /\ part = "checkEvents" /\ Events!Init
     /\ history = "off" /\ state = "off"
     /\ ParallelOff /\ SingleOff /\ SetsOff /\ HeapOff /\ ShownOff
  \/ /\ part = "visualize" /\ Shown!Init
     /\ answer = "off"
     /\ ParallelOff /\ SingleOff /\ SetsOff /\ HeapOff /\ EventsOff

AnyNext ==
  /\ UNCHANGED part
  /\ \/ /\ part = "checkParallel" /\ Parallel!Next
        /\ UNCHANGED <<history, state, singleVars, setVars, heap, explored, answer,
                       eventVars, place, shownVars>>
     \/ /\ part = "checkSingle" /\ Next
        /\ UNCHANGED <<parallelVars, heap, explored, answer, eventVars, place, shownVars>>
     \/ /\ part = "bitset" /\ Bits!Next
        /\ UNCHANGED <<parallelVars, history, state, singleVars, answer, eventVars, place, shownVars>>
     \/ /\ part = "checkOperations" /\ Operations!Next
        /\ UNCHANGED <<parallelVars, state, singleVars, setVars, heap, explored, eventVars, place,
                       shownVars>>
     \/ /\ part = "checkEvents" /\ Events!Next
        /\ UNCHANGED <<parallelVars, history, state, singleVars, setVars, heap, explored, shownVars>>
     \/ /\ part = "visualize" /\ Shown!Next
        /\ UNCHANGED <<parallelVars, singleVars, setVars, heap, explored, answer, eventVars>>

AnySpec == AnyInit /\ [][AnyNext]_all /\ Parallel!Fairness /\ Fairness

-----------------------------------------------------------------------------
(* SoundVerdict of CheckParallel: the verdict is the truth about the whole *)
(* history, whatever the order of results, the timeout and the kills.      *)
SoundVerdict == part = "checkParallel" => Parallel!SoundVerdict

(* NoRaceOnLongest of CheckParallel: the slots of longest are read when    *)
(* every goroutine has written its own.                                    *)
NoRaceOnLongest == part = "checkParallel" => Parallel!NoRaceOnLongest

(* ResultCorrect of CheckSingle: true only for a linearizable history,     *)
(* and false, unless killed, only for one that is not.                     *)
CorrectVerdict == part = "checkSingle" => ResultCorrect

(* EntriesIntact of CheckSingle: however often lift and unlift were        *)
(* applied, the list holds the entries that are not linearized, in order   *)
(* and linked both ways.                                                   *)
ListIntact == part = "checkSingle" => EntriesIntact

(* PartialsReplay and LongestIsLongest of CheckSingle: every partial       *)
(* linearization handed out is legal and respects real time, after a kill  *)
(* too, and no linearizable prefix with the operation is longer.           *)
PartialsRight == part = "checkSingle" => PartialsReplay /\ LongestIsLongest

(* HoldsMembers and CacheExact of Bitset: the bitset has exactly the       *)
(* operations on the stack, across word boundaries, and a lookup through   *)
(* the colliding hash tells exactly whether a configuration was explored.  *)
BitsetExact == part = "bitset" => Bits!HoldsMembers /\ Bits!CacheExact

(* PartitionIsSound of CheckOperations and EventsSound of CheckEvents:     *)
(* checking key by key accepts exactly the histories of a linearizable     *)
(* store, and renumbering and converting events leads to the verdict that  *)
(* linearizability of the events asks for.                                 *)
HistorySound ==
  /\ part = "checkOperations" => Operations!PartitionIsSound
  /\ part = "checkEvents" => Events!EventsSound

(* Terminates of CheckSingle, Returns and WorkersExit of CheckParallel:    *)
(* the search ends, checkParallel returns, and none of its goroutines is   *)
(* left behind, also when a timeout or a first false cut the check short.  *)
CheckEnds == Terminates /\ Parallel!Returns /\ Parallel!WorkersExit

(* LargestShown of Visualize: the replay never panics, and each operation  *)
(* is shown in one of the longest partial linearizations that contain it.  *)
LargestShown == part = "visualize" => Shown!LargestShown
=============================================================================
