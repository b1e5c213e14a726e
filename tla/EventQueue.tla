------------------------------ MODULE EventQueue ------------------------------
(***************************************************************************)
(* What the local event log promises: it keeps the events in the order     *)
(* they came, the oldest or the newest of them as its mode says, and keeps *)
(* them over a processor reset.  Only a reset in the middle of an addition *)
(* or of a clear may spoil it, until it is cleared.                        *)
(***************************************************************************)
EXTENDS Sequences, Naturals

CONSTANTS Capacity, Events, Modes, Spoilt

VARIABLES queue, mode

vars == <<queue, mode>>

Init == queue = <<>> /\ mode \in Modes

\* The queue with one event more: all there is room for, or the newest, or the oldest.
Added(event) ==
  IF Len(queue) < Capacity THEN Append(queue, event)
  ELSE IF mode = "OVERWRITE" THEN Append(Tail(queue), event)
  ELSE queue

Add(event) == queue # Spoilt /\ queue' = Added(event) /\ mode' = mode

Clear == queue' = <<>> /\ mode' \in Modes

SetMode == queue' = queue /\ mode' \in Modes

Spoil == queue' = Spoilt /\ mode' = mode

Next == (\E event \in Events : Add(event)) \/ Clear \/ SetMode \/ Spoil

Spec == Init /\ [][Next]_vars
=============================================================================
