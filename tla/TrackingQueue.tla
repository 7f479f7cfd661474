------------------------------ MODULE TrackingQueue ------------------------------
(***************************************************************************)
(* The rotation of the archived orders through the tracking queues.  Every *)
(* Check lists one batch of each queue, the ids behind the watermark of    *)
(* the queue first and the rest from the start, asks the platform about    *)
(* the orders of the batch with a few workers, stores each result on its   *)
(* own, and moves the watermark to the end of the batch if every result    *)
(* was stored.  The orders that wait for manual work have a list without a *)
(* watermark; it is in FulfillmentAudits.tla.                              *)
(***************************************************************************)
EXTENDS Integers, FiniteSets

CONSTANTS
  Ids,        \* ids of the audits of the Temu shops
  Limit,      \* trackingLimit: the length of a batch
  Workers,    \* trackingWorkers
  MaxFaults   \* bound of the model: statements that fail, starts of the program, stale writes,
              \* pages of the archive that are asked for

ASSUME IdsAssumption == Ids \subseteq Nat \ {0} /\ IsFiniteSet(Ids)

ASSUME LimitsAssumption ==
  Limit \in Nat \ {0} /\ Workers \in Nat \ {0} /\ MaxFaults \in Nat

Queues == {"pickup_exception", "regular"}

VARIABLES
  queueOf,  \* [Ids -> Queues \cup {"none"}]: "none" of an order not shipped or picked up
  due,      \* the orders never asked about or not within the last hour
  mark,     \* [Queues -> Ids \cup {0}]: cursor_audit_id
  turn,     \* of Check: a queue, "refresh" or "none"
  listed,   \* the candidates the queue whose turn it is had when it was listed
  stored, unsaved,  \* orders of the batch the workers are through with
  faults

trackVars == <<queueOf, due, mark, turn, listed, stored, unsaved, faults>>

TrackInit ==
  /\ queueOf = [i \in Ids |-> "none"]
  /\ due = Ids
  /\ mark = [q \in Queues |-> 0]
  /\ turn = "none"
  /\ listed = {} /\ stored = {} /\ unsaved = {}
  /\ faults = 0

Fault == faults < MaxFaults /\ faults' = faults + 1

--------------------------------------------------------------------------------
(* Mutant: every batch begins with the smallest id. *)
BeforeFromStart(c, j, i) == j < i

(* ORDER BY CASE WHEN id>$1 THEN 0 ELSE 1 END,id *)
Before(c, j, i) ==
  \/ j > c /\ i <= c
  \/ (j > c) = (i > c) /\ j < i

(* FulfillmentTrackingCandidates without its limit *)
Candidates(q) == {i \in due : queueOf[i] = q}

(* The first n of S as the watermark of the queue orders them. *)
First(n, S) ==
  IF Cardinality(S) <= n THEN S
  ELSE {i \in S : Cardinality({j \in S : Before(mark[turn], j, i)}) < n}

Batch == First(Limit, listed)

Unfinished == Batch \ (stored \cup unsaved)

(* The workers take the orders from a channel that is in the order of the batch. *)
InWork == First(Workers, Unfinished)

(* checkFulfillmentTracking, then RefreshFulfillmentTrackingCategories *)
After(q) == IF q = "pickup_exception" THEN "regular" ELSE "refresh"

StartTracking ==
  /\ turn = "none"
  /\ turn' = "pickup_exception"
  /\ \E late \in SUBSET (Ids \ due) : due' = due \cup late
  /\ UNCHANGED <<queueOf, mark, listed, stored, unsaved, faults>>

ListQueue ==
  /\ turn \in Queues /\ listed = {}
  /\ listed' = Candidates(turn)
  /\ turn' = IF Candidates(turn) = {} THEN After(turn) ELSE turn
  /\ UNCHANGED <<queueOf, due, mark, stored, unsaved, faults>>

(* The watermark or the rows cannot be read: the other queue has its turn all the same. *)
ListFails ==
  /\ turn \in Queues /\ listed = {}
  /\ Fault
  /\ turn' = After(turn)
  /\ UNCHANGED <<queueOf, due, mark, listed, stored, unsaved>>

(* UpdateFulfillmentTrackingResolution, of an answer or of a query that failed: the row has  *)
(* been asked about and moves to the queue of its category.  Of a row that has left the      *)
(* archive since only an open one is written, which is no error.                             *)
Store(i) ==
  /\ i \in InWork
  /\ stored' = stored \cup {i}
  /\ \/ due' = due \ {i}
     \/ queueOf[i] = "none" /\ UNCHANGED due
  /\ IF queueOf[i] = "none" THEN UNCHANGED queueOf
     ELSE \E q \in Queues \cup {"none"} : queueOf' = [queueOf EXCEPT ![i] = q]
  /\ UNCHANGED <<mark, turn, listed, unsaved, faults>>

StoreFails(i) ==
  /\ i \in InWork
  /\ Fault
  /\ unsaved' = unsaved \cup {i}
  /\ UNCHANGED <<queueOf, due, mark, turn, listed, stored>>

NextQueue ==
  /\ turn' = After(turn)
  /\ listed' = {} /\ stored' = {} /\ unsaved' = {}
  /\ UNCHANGED <<queueOf, due>>

BatchDone == turn \in Queues /\ listed # {} /\ Unfinished = {}

(* Mutant: the watermark moves on whatever became of the results. *)
MarkMayMoveAlways == BatchDone

MarkMayMove == BatchDone /\ unsaved = {}

(* completeFulfillmentTrackingBatch and AdvanceFulfillmentTrackingWatermark *)
AdvanceMark ==
  /\ MarkMayMove
  /\ \E last \in Batch :
       /\ \A j \in Batch : j = last \/ Before(mark[turn], j, last)
       /\ mark' = [mark EXCEPT ![turn] = last]
  /\ UNCHANGED faults
  /\ NextQueue

MarkStays ==
  /\ BatchDone
  /\ \/ unsaved # {} /\ UNCHANGED faults
     \/ unsaved = {} /\ Fault
  /\ UNCHANGED mark
  /\ NextQueue

(* RefreshFulfillmentTrackingCategories: orders that are not picked up in time become exceptions. *)
Refreshed ==
  \E late \in SUBSET {i \in Ids : queueOf[i] = "regular"} :
    queueOf' = [i \in Ids |-> IF i \in late THEN "pickup_exception" ELSE queueOf[i]]

RefreshTracking ==
  /\ turn = "refresh"
  /\ turn' = "none"
  /\ Refreshed
  /\ UNCHANGED <<due, mark, listed, stored, unsaved, faults>>

(* Every request for a page of the archive refreshes it first, whatever Check is doing. *)
ListArchive ==
  /\ Fault
  /\ Refreshed
  /\ UNCHANGED <<due, mark, turn, listed, stored, unsaved>>

(* The statement joins the rows with what it computed of them: one whose result a worker stores *)
(* meanwhile gets the category of before, until the next refresh.                               *)
RefreshStale(i) ==
  /\ i \notin due
  /\ Fault
  /\ \E q \in Queues : queueOf' = [queueOf EXCEPT ![i] = q]
  /\ UNCHANGED <<due, mark, turn, listed, stored, unsaved>>

(* The program stops within a batch and starts again. *)
TrackingRestart ==
  /\ turn # "none"
  /\ Fault
  /\ turn' = "none" /\ listed' = {} /\ stored' = {} /\ unsaved' = {}
  /\ UNCHANGED <<queueOf, due, mark>>

(* An order is shipped: its audit is archived.  A request with stale copies may take it from *)
(* the archive (ShippedStaysTracked of FulfillmentAudits.tla).                             *)
Enter(i) ==
  /\ queueOf[i] = "none"
  /\ queueOf' = [queueOf EXCEPT ![i] = "regular"]
  /\ UNCHANGED <<due, mark, turn, listed, stored, unsaved, faults>>

Leave(i) ==
  /\ queueOf[i] # "none"
  /\ Fault
  /\ queueOf' = [queueOf EXCEPT ![i] = "none"]
  /\ UNCHANGED <<due, mark, turn, listed, stored, unsaved>>

TrackProceeds ==
  \/ StartTracking \/ ListQueue \/ AdvanceMark \/ MarkStays \/ RefreshTracking
  \/ \E i \in Ids : Store(i)

TrackNext ==
  \/ TrackProceeds
  \/ ListArchive \/ ListFails \/ TrackingRestart
  \/ \E i \in Ids : StoreFails(i) \/ RefreshStale(i) \/ Enter(i) \/ Leave(i)

(* The timer starts Check again and again; the statements that fail are followed by others. *)
TrackSpec == TrackInit /\ [][TrackNext]_trackVars /\ WF_trackVars(TrackProceeds)
--------------------------------------------------------------------------------
(* Properties *)

TrackTypeOK ==
  /\ queueOf \in [Ids -> Queues \cup {"none"}]
  /\ due \subseteq Ids
  /\ mark \in [Queues -> Ids \cup {0}]
  /\ turn \in Queues \cup {"refresh", "none"}
  /\ listed \subseteq Ids /\ stored \subseteq Ids /\ unsaved \subseteq Ids
  /\ faults \in 0 .. MaxFaults

(* An order that waits to be asked about is asked about, picked up or gone in the end: one   *)
(* result that is not stored holds a watermark back, but the rotation never starves a row.   *)
EveryCandidateIsTried ==
  \A i \in Ids : (queueOf[i] # "none" /\ i \in due) ~> ~(queueOf[i] # "none" /\ i \in due)

(* A watermark passes a candidate of its queue only when the result of that one was stored. *)
WatermarkIsEarned ==
  [][\A q \in Queues : mark'[q] # mark[q] =>
       \A i \in listed : (i = mark'[q] \/ Before(mark[q], i, mark'[q])) => i \in stored]_trackVars
================================================================================
