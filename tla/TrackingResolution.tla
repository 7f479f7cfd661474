--------------------------- MODULE TrackingResolution ---------------------------
(***************************************************************************)
(* What the auditor makes of the tracking of an archived order: the answer *)
(* of the platform, or its absence, is classified by the worker in Go; the *)
(* statement that ends every Check classifies all rows again in SQL as     *)
(* time goes by.  Times are hours since the order left the warehouse.      *)
(***************************************************************************)
EXTENDS Naturals, Sequences, FiniteSetsExt

CONSTANTS
  NoStart,  \* neither oms_outbound_at nor platform_shipping_at is known
  NoReply   \* the query failed

(* normalizeTrackingStatus, as far as its readers tell statuses apart. *)
Event == {"picked_up", "moving", "pickup_failed", "other"}

(* The columns UpdateFulfillmentTrackingResolution writes that decide on a category. *)
Tracked == [packages : Nat, picked : Nat, reason : {"", "pickup_failed", "pickup_overdue"},
            error : BOOLEAN, category : {"awaiting_pickup", "picked_up", "pickup_exception",
                                         "tracking_error"}]

Untracked == [packages |-> 0, picked |-> 0, reason |-> "", error |-> FALSE,
              category |-> "awaiting_pickup"]

--------------------------------------------------------------------------------
(* pickupFailureGraceElapsed and trackingOverdue *)
GraceElapsed(age) == age = NoStart \/ age >= 12
Overdue(age) == age # NoStart /\ age >= 24

AllPicked(row) == row.packages > 0 /\ row.picked >= row.packages

(* classifyTracking *)
Classified(row, failed, age) ==
  CASE AllPicked(row) -> [row EXCEPT !.category = "picked_up", !.reason = ""]
    [] ~AllPicked(row) /\ failed /\ GraceElapsed(age) ->
         [row EXCEPT !.category = "pickup_exception", !.reason = "pickup_failed"]
    [] ~AllPicked(row) /\ ~(failed /\ GraceElapsed(age)) /\ Overdue(age) ->
         [row EXCEPT !.category = "pickup_exception", !.reason = "pickup_overdue"]
    [] OTHER ->
         [row EXCEPT !.category = IF row.error THEN "tracking_error" ELSE "awaiting_pickup",
                     !.reason = IF failed THEN "pickup_failed" ELSE ""]

(* A package counts as picked up when an event says so or one that can only follow. *)
PickedUp(package) == package \cap {"picked_up", "moving"} # {}

(* Mutant: a query that fails forgets what the last answer said. *)
ResolvedForgetting(row, reply, age) ==
  IF reply = NoReply THEN Classified([row EXCEPT !.error = TRUE], FALSE, age)
  ELSE Classified([row EXCEPT !.error = FALSE, !.packages = Len(reply),
                              !.picked = Quantify(DOMAIN reply, LAMBDA n : PickedUp(reply[n]))],
                  \E n \in DOMAIN reply : "pickup_failed" \in reply[n], age)

(* trackingResolution; an answer lists packages, each with the events it has had. *)
Resolved(row, reply, age) ==
  IF reply = NoReply
  THEN Classified([row EXCEPT !.error = TRUE], row.reason = "pickup_failed", age)
  ELSE Classified([row EXCEPT !.error = FALSE, !.packages = Len(reply),
                              !.picked = Quantify(DOMAIN reply, LAMBDA n : PickedUp(reply[n]))],
                  \E n \in DOMAIN reply : "pickup_failed" \in reply[n], age)

--------------------------------------------------------------------------------
(* RefreshFulfillmentTrackingCategories: two CASEs, one for each column *)

RefreshedReason(row, age) ==
  CASE AllPicked(row) -> ""
    [] ~AllPicked(row) /\ row.reason = "pickup_failed" -> "pickup_failed"
    [] ~AllPicked(row) /\ row.reason # "pickup_failed" /\ Overdue(age) -> "pickup_overdue"
    [] OTHER -> ""

RefreshedCategory(row, age) ==
  CASE AllPicked(row) -> "picked_up"
    [] ~AllPicked(row) /\ (Overdue(age) \/ (row.reason = "pickup_failed" /\ GraceElapsed(age)))
         -> "pickup_exception"
    [] OTHER -> IF row.error THEN "tracking_error" ELSE "awaiting_pickup"

Refreshed(row, age) ==
  [row EXCEPT !.reason = RefreshedReason(row, age), !.category = RefreshedCategory(row, age)]
================================================================================
