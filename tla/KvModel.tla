------------------------------ MODULE KvModel ------------------------------
(***************************************************************************)
(* models/kv.go: the sequential key/value store that histories are checked *)
(* against, one key at a time.  A string is the sequence of the pieces it  *)
(* was put together from.                                                  *)
(***************************************************************************)
EXTENDS Naturals, Sequences

\* The value of a key that was never written.
InitState == <<>>

\* May an operation with this input return this output, and what does it leave?
StepOK(state, input, output) == input.op = "get" => output = state

StepState(state, input) ==
  CASE input.op = "get"    -> state
    [] input.op = "put"    -> input.value
    [] input.op = "append" -> state \o input.value

\* The operations of a history on one key, in the order of the history.
OnKey(history, key) == SelectSeq(history, LAMBDA o : o.input.key = key)

\* Mutant: the whole history is one partition.
NoPartition(history) == {history}

\* One partition per key that occurs.
Partition(history) ==
  {OnKey(history, key) : key \in {history[k].input.key : k \in DOMAIN history}}
=============================================================================
