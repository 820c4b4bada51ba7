------------------------------ MODULE RunLive -------------------------------
(***************************************************************************)
(* The model of the durable events of a Run that its pages show (reduceLive*)
(* of run-live.ts), as the set of their sequence numbers: an event that is *)
(* there already is ignored, a new one takes its place in the order, and   *)
(* no more than the newest MAX_EVENTS stay.                                *)
(***************************************************************************)
EXTENDS Naturals, FiniteSets

CONSTANT MaxShown   \* MAX_EVENTS = 1000

Newest(events) == {n \in events : Cardinality({m \in events : n < m}) < MaxShown}

Cursor(events) == IF events = {} THEN 0 ELSE CHOOSE n \in events : \A m \in events : m <= n
=============================================================================
