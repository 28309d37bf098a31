------------------------------- MODULE Recorder -------------------------------
(***************************************************************************)
(* What hub.Recorder promises (internal/hub/hub.go), as MemoryRecorder     *)
(* (internal/store/store.go) keeps it: a call takes effect at once, or it  *)
(* was not worth keeping and never takes effect.  PostgresRecorder is      *)
(* shown to keep the same promise on one node while the database answers.  *)
(***************************************************************************)
EXTENDS Naturals, Sequences

CONSTANT Boards

VARIABLES
  ops,      \* ops[b]: what b's next late joiner replays; an op is named by its Record call
  calls     \* Record calls so far

Init == ops = [b \in Boards |-> <<>>] /\ calls = 0

\* Record of an "add", "erase" or "draw".
RecordOp(b) ==
  /\ calls' = calls + 1
  /\ ops' = [ops EXCEPT ![b] = Append(@, calls')]

\* Record of a "clear".
RecordClear(b) ==
  /\ calls' = calls + 1
  /\ ops' = [ops EXCEPT ![b] = <<>>]

\* Record of anything else, or of what is not worth keeping.
RecordNothing == calls' = calls + 1 /\ UNCHANGED ops

Next == RecordNothing \/ \E b \in Boards : RecordOp(b) \/ RecordClear(b)

Spec == Init /\ [][Next]_<<ops, calls>>
=============================================================================
