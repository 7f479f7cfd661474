------------------------- MODULE MC_FulfillmentAudits -------------------------
(* Small instances of FulfillmentAudits.tla. *)
EXTENDS FulfillmentAudits

CONSTANTS a1, r1, c1, w1, n1

(* The record quotes no order: it is found by the number of the label alone. *)
NoRefers == [r \in Records |-> {}]
SameNumber == [r \in Records |-> n1]
================================================================================
