--------------------------- MODULE RuntimeContract ---------------------------
(***************************************************************************)
(* What store, registry and adapter of Jarvis say to each other            *)
(* (jarvis/runtime/contract.py): turns and the events of a turn.           *)
(***************************************************************************)
EXTENDS Naturals, Sequences

CONSTANT Turns

\* The events that end a turn. Of the others only a delta carries text; phase and
\* tool events are "activity".
Outcomes == {"completed", "failed", "cancelled"}

EventTypes == Outcomes \cup {"started", "activity", "delta"}

RuntimeEvent(seq, type, text) == [seq |-> seq, type |-> type, text |-> text]
=============================================================================
