--------------------------- MODULE FulfillmentAudits ---------------------------
(***************************************************************************)
(* The life of a fulfillment audit: one row per platform order waiting for *)
(* pickup, from the snapshot that lists it to the archive (shipped by the  *)
(* warehouse), a pickup the platform confirms, or a manual resolution.     *)
(*                                                                         *)
(* The rows are changed by one statement each, but by many hands: the      *)
(* auditor's hourly Check, the snapshots the shops send (each followed by  *)
(* ReconcileReferences in its own request), the list requests that         *)
(* refresh the categories, the tracking workers, the operator.  Check and  *)
(* ReconcileReferences copy rows and outbound records first and write what *)
(* they conclude from the copies one row at a time.                        *)
(***************************************************************************)
EXTENDS Naturals, FiniteSets

CONSTANTS
  Audits,       \* platform orders of one Temu shop, one audit each
  Records,      \* outbound orders of XLWMS, by outbound_order_no
  Warehouses,   \* wh_code
  Numbers,      \* tracking numbers
  Refers,       \* the audits whose order number a record quotes
  NumberOf,     \* the tracking number of a record
  Clients,      \* slots for concurrent HTTP requests
  Auditor,      \* the goroutine that runs Check
  MaxSnapshots, \* bound of the model: snapshots a run receives
  MaxFailures,  \* bound of the model: sessions that fail on the way
  NoRecord, NoWarehouse, NoNumber

ASSUME RefersAssumption ==
  Refers \in [Records -> SUBSET Audits] /\ NumberOf \in [Records -> Numbers]

ASSUME NamesAssumption ==
  /\ NoRecord \notin Records /\ NoWarehouse \notin Warehouses /\ NoNumber \notin Numbers
  /\ Auditor \notin Clients /\ MaxSnapshots \in Nat /\ MaxFailures \in Nat

Sessions == Clients \cup {Auditor}

VARIABLES
  rows,         \* [Audits -> Row]: xlwms_fulfillment_audits
  index,        \* [Records -> Entry]: xlwms_outbound_order_index
  pc,           \* [Sessions -> Step]
  todo,         \* [Sessions -> SUBSET Audits]: the audits a session still has to write
  items,        \* [Sessions -> [Audits -> Item]]: what a session has copied of the rows
  plan,         \* [Sessions -> [Audits -> Resolution]]: what it concluded from the copies
  classes,      \* [Sessions -> [Audits -> Category \cup {"keep"}]]: what its refresh computed
  syncErr,      \* Check: part of the index could not be brought up to date
  snapshots,    \* the number of snapshots received
  failures,     \* the number of sessions that failed
  settled       \* history: the audits that were once shipped or picked up

sessionVars == <<pc, todo, items, plan, classes, syncErr>>
stateVars == <<rows, index, sessionVars, snapshots, failures>>
vars == <<stateVars, settled>>

--------------------------------------------------------------------------------
OMSStatus == {"pending_query", "query_error", "not_found", "pending", "processing",
              "outbound", "exception", "unknown"}

Category == {"pending_query", "sync_error", "manual_required", "warehouse_overdue",
             "monitoring", "archived", "platform_picked_up"}

(* normalizeOMSStatus of the codes 0..7 and the others; "none" is a record not indexed. *)
IndexStatus == {"none", "pending", "processing", "outbound", "exception", "unknown"}

Step == {"idle", "sync", "status", "renew", "candidates", "reconcile", "lookup", "update",
         "refresh", "apply", "manual", "manualWork", "queue", "queueWork"}

Row == [known : BOOLEAN, active : BOOLEAN, resolved : BOOLEAN, terminal : BOOLEAN,
        picked : BOOLEAN, oms : OMSStatus, category : Category,
        order : Records \cup {NoRecord}, wh : Warehouses \cup {NoWarehouse},
        number : Numbers \cup {NoNumber}, checked : {"never", "recent", "old"}]

Entry == [status : IndexStatus, wh : Warehouses]

(* What Check and ReconcileReferences use of a row they have read. *)
Item == [oms : OMSStatus, order : Records \cup {NoRecord},
         wh : Warehouses \cup {NoWarehouse}, number : Numbers \cup {NoNumber}]

(* model.FulfillmentAuditResolution *)
Resolution == [oms : OMSStatus, order : Records \cup {NoRecord},
               wh : Warehouses \cup {NoWarehouse}]

NoItem == [oms |-> "pending_query", order |-> NoRecord, wh |-> NoWarehouse, number |-> NoNumber]

Unmatched(status) == [oms |-> status, order |-> NoRecord, wh |-> NoWarehouse]

NoPlan == Unmatched("pending_query")

UnknownRow == [known |-> FALSE, active |-> FALSE, resolved |-> FALSE, terminal |-> FALSE,
               picked |-> FALSE, oms |-> "pending_query", category |-> "pending_query",
               order |-> NoRecord, wh |-> NoWarehouse, number |-> NoNumber, checked |-> "never"]

Init ==
  /\ rows = [a \in Audits |-> UnknownRow]
  /\ index \in [Records -> [status : {"none"}, wh : Warehouses]]
  /\ pc = [s \in Sessions |-> "idle"]
  /\ todo = [s \in Sessions |-> {}]
  /\ items = [s \in Sessions |-> [a \in Audits |-> NoItem]]
  /\ plan = [s \in Sessions |-> [a \in Audits |-> NoPlan]]
  /\ classes = [s \in Sessions |-> [a \in Audits |-> "keep"]]
  /\ syncErr = FALSE
  /\ snapshots = 0
  /\ failures = 0
  /\ settled = {}

Goto(s, step) == pc' = [pc EXCEPT ![s] = step]

(* The session returns: nothing it copied is used again. *)
Return(s) ==
  /\ Goto(s, "idle")
  /\ todo' = [todo EXCEPT ![s] = {}]
  /\ items' = [items EXCEPT ![s] = [a \in Audits |-> NoItem]]
  /\ plan' = [plan EXCEPT ![s] = [a \in Audits |-> NoPlan]]
  /\ classes' = [classes EXCEPT ![s] = [a \in Audits |-> "keep"]]
  /\ syncErr' = (syncErr /\ s # Auditor)

--------------------------------------------------------------------------------
(* The statements that write a row *)

(* Mutant: a listed order is reopened unless the operator has resolved it. *)
UpsertedReopening(row, wh, number) ==
  IF ~row.known
  THEN [UnknownRow EXCEPT !.known = TRUE, !.active = TRUE, !.wh = wh, !.number = number]
  ELSE [row EXCEPT !.wh = IF wh # NoWarehouse THEN wh ELSE row.wh,
                   !.number = IF number # NoNumber THEN number ELSE row.number,
                   !.active = ~row.terminal, !.resolved = row.terminal]

(* INSERT ... ON CONFLICT of a snapshot, with the warehouse and the number it brings. *)
Upserted(row, wh, number) ==
  LET done == row.terminal \/ row.oms = "outbound" \/ row.picked
      moved == ~done /\ wh # NoWarehouse /\ wh # row.wh
  IN IF ~row.known
     THEN [UnknownRow EXCEPT !.known = TRUE, !.active = TRUE, !.wh = wh, !.number = number]
     ELSE [row EXCEPT
            !.wh = IF wh # NoWarehouse THEN wh ELSE row.wh,
            !.number = IF number # NoNumber THEN number ELSE row.number,
            !.oms = IF moved THEN "pending_query" ELSE row.oms,
            !.checked = IF moved THEN "never" ELSE row.checked,
            !.category = IF row.terminal THEN row.category
                         ELSE IF row.oms = "outbound" THEN "archived"
                         ELSE IF row.picked THEN "platform_picked_up"
                         ELSE IF moved THEN "pending_query" ELSE row.category,
            !.active = ~done,
            !.resolved = done]

Delisted(row) ==
  IF row.active THEN [row EXCEPT !.active = FALSE, !.resolved = TRUE] ELSE row

(* Mutant: the statement asks for the id alone. *)
UpdatedAlways(row, res) ==
  [row EXCEPT !.wh = IF res.wh # NoWarehouse THEN res.wh ELSE row.wh,
              !.oms = res.oms, !.order = res.order,
              !.active = row.active /\ res.oms # "outbound",
              !.resolved = row.resolved \/ res.oms = "outbound", !.checked = "recent"]

(* Mutant: a cancelled outbound order counts as dealt with. *)
UpdatedClosingCancelled(row, res) ==
  IF row.terminal THEN row
  ELSE [row EXCEPT !.wh = IF res.wh # NoWarehouse THEN res.wh ELSE row.wh,
                   !.oms = res.oms, !.order = res.order,
                   !.active = row.active /\ res.oms \notin {"outbound", "exception"},
                   !.resolved = row.resolved \/ res.oms \in {"outbound", "exception"},
                   !.checked = "recent"]

(* UpdateFulfillmentAuditResolution *)
Updated(row, res) ==
  IF row.terminal THEN row
  ELSE [row EXCEPT
         !.wh = IF res.wh # NoWarehouse THEN res.wh ELSE row.wh,
         !.oms = res.oms,
         !.order = res.order,
         !.category = IF res.oms = "outbound" THEN "archived" ELSE row.category,
         !.active = row.active /\ res.oms # "outbound",
         !.resolved = row.resolved \/ res.oms = "outbound",
         !.checked = "recent"]

(* UpdateFulfillmentTrackingResolution: all packages picked up, or not. *)
Tracked(row, picked) ==
  IF row.terminal \/ ~(row.active \/ row.oms = "outbound") THEN row
  ELSE [row EXCEPT
         !.picked = picked,
         !.category = IF row.active /\ picked THEN "platform_picked_up" ELSE row.category,
         !.active = row.active /\ ~picked,
         !.resolved = row.resolved \/ (row.active /\ picked)]

(* Mutant: a failed query keeps its status for a category. *)
ClassNamedAsStatus(row) ==
  CASE row.oms = "outbound" -> {"archived"}
    [] row.picked /\ row.oms # "outbound" -> {"platform_picked_up"}
    [] ~row.picked /\ row.oms \in {"not_found", "exception", "unknown"} -> {"manual_required"}
    [] ~row.picked /\ row.oms \in {"processing", "pending"} -> {"monitoring"}
    [] OTHER -> {row.oms}

(* The categories RefreshFulfillmentAuditCategories may give a row; time decides on a *)
(* processing order.                                                                  *)
ClassOf(row) ==
  CASE row.oms = "outbound" -> {"archived"}
    [] row.picked /\ row.oms # "outbound" -> {"platform_picked_up"}
    [] ~row.picked /\ row.oms = "pending_query" -> {"pending_query"}
    [] ~row.picked /\ row.oms = "query_error" -> {"sync_error"}
    [] ~row.picked /\ row.oms \in {"not_found", "exception", "unknown"} -> {"manual_required"}
    [] ~row.picked /\ row.oms = "processing" -> {"warehouse_overdue", "monitoring"}
    [] ~row.picked /\ row.oms = "pending" -> {"monitoring"}

(* The rows it looks at. *)
Classified(row) ==
  /\ row.known /\ ~row.terminal
  /\ \/ row.active
     \/ row.oms = "outbound" /\ row.category # "archived"
     \/ row.picked /\ row.category # "platform_picked_up"

Recategorised(row, class) ==
  IF class = "keep" THEN row
  ELSE LET archive == class \in {"archived", "platform_picked_up"}
       IN [row EXCEPT !.category = class,
                      !.active = row.active /\ ~archive,
                      !.resolved = row.resolved \/ archive]

--------------------------------------------------------------------------------
(* matchIndexedOutboundRecords *)

Priority(status) ==
  CASE status = "outbound" -> 4
    [] status = "processing" -> 3
    [] status = "pending" -> 2
    [] status = "unknown" -> 1
    [] OTHER -> 0

AtWarehouse(r, wh) == IF wh # NoWarehouse /\ index[r].wh = wh THEN 1 ELSE 0

(* Records by reference are compared by warehouse first, those by number by status first. *)
WarehouseFirst(r, wh) == 10 * AtWarehouse(r, wh) + Priority(index[r].status)
StatusFirst(r, wh) == 10 * Priority(index[r].status) + AtWarehouse(r, wh)

ByReference(a) == {r \in Records : index[r].status # "none" /\ a \in Refers[r]}

ByNumber(item) ==
  {r \in Records : index[r].status # "none" /\ item.number = NumberOf[r]}

(* The records selected for one audit; several when the order they are listed in decides. *)
Selected(a, item) ==
  LET refs == ByReference(a)
      nums == ByNumber(item)
      BestRef == {r \in refs : \A q \in refs : WarehouseFirst(q, item.wh) <= WarehouseFirst(r, item.wh)}
      BestNum == {r \in nums : \A q \in nums : StatusFirst(q, item.wh) <= StatusFirst(r, item.wh)}
      Better(n, r) == StatusFirst(n, item.wh) > StatusFirst(r, item.wh)
  IN {r \in BestRef : nums = {} \/ \E n \in BestNum : ~Better(n, r)}
       \cup {n \in BestNum : refs = {} \/ \E r \in BestRef : Better(n, r)}

--------------------------------------------------------------------------------
(* Check: the auditor brings the index up to date, then resolves the candidates *)

StartCheck ==
  /\ pc[Auditor] = "idle"
  /\ Goto(Auditor, "sync")
  /\ UNCHANGED <<rows, index, todo, items, plan, classes, syncErr, snapshots, failures>>

(* What XLWMS may have made of an outbound order since it was indexed. *)
Progress ==
  {<<"none", "pending">>, <<"none", "processing">>, <<"pending", "processing">>,
   <<"processing", "outbound">>, <<"pending", "exception">>, <<"processing", "exception">>}

(* A window, a status batch or the siblings are saved; OutboundSync.tla has the windows. *)
IndexRecord(r) ==
  /\ pc[Auditor] \in {"sync", "renew"}
  /\ \E step \in Progress :
       /\ index[r].status = step[1]
       /\ index' = [index EXCEPT ![r].status = step[2]]
  /\ UNCHANGED <<rows, sessionVars, snapshots, failures>>

(* An account cannot be read or saved: the error is kept and Check goes on. *)
SyncFails ==
  /\ pc[Auditor] \in {"sync", "renew"}
  /\ syncErr' = TRUE
  /\ UNCHANGED <<rows, index, pc, todo, items, plan, classes, snapshots, failures>>

SyncEnds ==
  /\ pc[Auditor] = "sync"
  /\ Goto(Auditor, "status")
  /\ UNCHANGED <<rows, index, todo, items, plan, classes, syncErr, snapshots, failures>>

StatusCandidates ==
  {a \in Audits : rows[a].active /\ rows[a].order # NoRecord /\ rows[a].oms # "outbound"}

(* Mutant: an order that was never checked is not older than ten minutes. *)
CandidatesCheckedBefore ==
  {a \in Audits : rows[a].active /\ rows[a].oms # "outbound" /\ rows[a].checked = "old"}

(* FulfillmentAuditCandidates *)
Candidates ==
  {a \in Audits : rows[a].active /\ rows[a].oms # "outbound" /\ rows[a].checked # "recent"}

ItemOf(row) == [oms |-> row.oms, order |-> row.order, wh |-> row.wh, number |-> row.number]

Copied(s, A) ==
  [items EXCEPT ![s] = [a \in Audits |-> IF a \in A THEN ItemOf(rows[a]) ELSE items[s][a]]]

(* FulfillmentAuditStatusCandidates: the orders whose outbound order is known. *)
ReadStatusCandidates ==
  /\ pc[Auditor] = "status"
  /\ items' = Copied(Auditor, StatusCandidates)
  /\ todo' = [todo EXCEPT ![Auditor] = StatusCandidates]
  /\ Goto(Auditor, "renew")
  /\ UNCHANGED <<rows, index, plan, classes, syncErr, snapshots, failures>>

(* refreshMatchedOutboundStatuses has asked for their records, and FulfillmentAuditCandidates *)
(* lists the orders that are due; of an order on both lists the later copy counts.            *)
ReadCandidates ==
  /\ pc[Auditor] = "renew"
  /\ items' = Copied(Auditor, Candidates)
  /\ todo' = [todo EXCEPT ![Auditor] = @ \cup Candidates]
  /\ Goto(Auditor, IF todo[Auditor] \cup Candidates = {} THEN "manual" ELSE "lookup")
  /\ UNCHANGED <<rows, index, plan, classes, syncErr, snapshots, failures>>

FromRecord(r) == [oms |-> index[r].status, order |-> r, wh |-> index[r].wh]

(* What Check concludes for an audit no record matches.  An order the index does not know *)
(* is not found once the hour of its label is complete, which time decides.               *)
FromItem(item) ==
  IF syncErr THEN {Unmatched("query_error")}
  ELSE IF item.order # NoRecord /\ item.oms \notin {"not_found", "pending_query", "query_error"}
  THEN {[oms |-> item.oms, order |-> item.order, wh |-> item.wh]}
  ELSE {Unmatched("not_found"), Unmatched("pending_query")}

Conclusions(s, a) ==
  LET choices == Selected(a, items[s][a])
  IN IF choices # {} THEN {FromRecord(r) : r \in choices} ELSE FromItem(items[s][a])

(* Check and ReconcileReferences read the index once for all the rows they copied, and what *)
(* they write afterwards rests on these copies alone.  ReconcileReferences writes only the  *)
(* audits it found a record for.                                                            *)
Lookup(s) ==
  LET written == IF s = Auditor THEN todo[s] ELSE {a \in todo[s] : Selected(a, items[s][a]) # {}}
  IN /\ pc[s] = "lookup"
     /\ \E planned \in [written -> UNION {Conclusions(s, a) : a \in written}] :
          /\ \A a \in written : planned[a] \in Conclusions(s, a)
          /\ plan' = [plan EXCEPT ![s] = [a \in Audits |->
               IF a \in written THEN planned[a] ELSE NoPlan]]
     /\ todo' = [todo EXCEPT ![s] = written]
     /\ items' = [items EXCEPT ![s] = [a \in Audits |-> NoItem]]
     /\ Goto(s, "update")
     /\ syncErr' = (syncErr /\ s # Auditor)
     /\ UNCHANGED <<rows, index, classes, snapshots, failures>>

(* One row of the loop over the candidates, or over the matches of ReconcileReferences. *)
Update(s, a) ==
  /\ pc[s] = "update"
  /\ a \in todo[s]
  /\ rows' = [rows EXCEPT ![a] = Updated(@, plan[s][a])]
  /\ todo' = [todo EXCEPT ![s] = @ \ {a}]
  /\ plan' = [plan EXCEPT ![s][a] = NoPlan]
  /\ UNCHANGED <<index, pc, items, classes, syncErr, snapshots, failures>>

UpdatesDone(s) ==
  /\ pc[s] = "update" /\ todo[s] = {}
  /\ Goto(s, "refresh")
  /\ UNCHANGED <<rows, index, todo, items, plan, classes, syncErr, snapshots, failures>>

--------------------------------------------------------------------------------
(* RefreshFulfillmentAuditCategories: one UPDATE joined with what it computed of the rows it *)
(* saw.  A row that is written meanwhile is written again with the category computed before. *)

(* The classes a session may compute for a row; a row it does not look at keeps its own. *)
Classes(row) == IF Classified(row) THEN ClassOf(row) ELSE {"keep"}

Classify(s) ==
  /\ pc[s] = "refresh"
  /\ \E class \in [Audits -> UNION {Classes(rows[a]) : a \in Audits}] :
       /\ \A a \in Audits : class[a] \in Classes(rows[a])
       /\ classes' = [classes EXCEPT ![s] = class]
  /\ Goto(s, "apply")
  /\ UNCHANGED <<rows, index, todo, items, plan, syncErr, snapshots, failures>>

Recategorise(s) ==
  /\ pc[s] = "apply"
  /\ rows' = [a \in Audits |-> Recategorised(rows[a], classes[s][a])]
  /\ UNCHANGED <<index, snapshots, failures>>

(* The requests end with their refresh; Check goes on to track parcels. *)
ApplyClasses(s) ==
  /\ Recategorise(s)
  /\ IF s = Auditor
     THEN /\ Goto(s, "manual")
          /\ classes' = [classes EXCEPT ![s] = [a \in Audits |-> "keep"]]
          /\ UNCHANGED <<todo, items, plan, syncErr>>
     ELSE Return(s)

--------------------------------------------------------------------------------
(* Check, continued: finishTrackingCheck asks Temu about parcels.  Which orders were not *)
(* asked about for an hour is left to time; the queues are in TrackingQueue.tla.         *)

(* FulfillmentManualTrackingCandidates *)
ManualTracking ==
  {a \in Audits : /\ rows[a].active /\ rows[a].category = "manual_required"
                  /\ rows[a].oms \in {"not_found", "exception", "unknown"}}

(* FulfillmentTrackingCandidates, both queues *)
QueueTracking ==
  {a \in Audits : /\ rows[a].known /\ ~rows[a].active
                  /\ rows[a].oms = "outbound" /\ ~rows[a].picked}

ReadTracking(due, work) ==
  /\ \E T \in SUBSET due : todo' = [todo EXCEPT ![Auditor] = T]
  /\ Goto(Auditor, work)
  /\ UNCHANGED <<rows, index, items, plan, classes, syncErr, snapshots, failures>>

ReadManual == pc[Auditor] = "manual" /\ ReadTracking(ManualTracking, "manualWork")

ReadQueue == pc[Auditor] = "queue" /\ ReadTracking(QueueTracking, "queueWork")

(* A worker has Temu's answer: all the packages of the order are picked up, or not. *)
TrackOrder(a) ==
  /\ pc[Auditor] \in {"manualWork", "queueWork"}
  /\ a \in todo[Auditor]
  /\ \E picked \in BOOLEAN : rows' = [rows EXCEPT ![a] = Tracked(@, picked)]
  /\ todo' = [todo EXCEPT ![Auditor] = @ \ {a}]
  /\ UNCHANGED <<index, pc, items, plan, classes, syncErr, snapshots, failures>>

TrackingDone ==
  /\ todo[Auditor] = {}
  /\ \/ /\ pc[Auditor] = "manualWork"
        /\ Goto(Auditor, "queue")
        /\ UNCHANGED <<todo, items, plan, classes, syncErr>>
     \/ /\ pc[Auditor] = "queueWork"
        /\ Return(Auditor)
  /\ UNCHANGED <<rows, index, snapshots, failures>>

Track ==
  \/ ReadManual \/ ReadQueue
  \/ \E a \in Audits : TrackOrder(a)
  \/ TrackingDone

Check ==
  \/ StartCheck \/ SyncFails \/ SyncEnds
  \/ \E r \in Records : IndexRecord(r)
  \/ ReadStatusCandidates \/ ReadCandidates
  \/ Track

--------------------------------------------------------------------------------
(* The requests *)

(* ReplaceFulfillmentAuditSnapshot: the orders of the snapshot are upserted, every other *)
(* active order of the shop is closed, and the references are kept to be reconciled.     *)
SyncSnapshot(c, listed, wh, number) ==
  /\ pc[c] = "idle"
  /\ snapshots < MaxSnapshots
  /\ snapshots' = snapshots + 1
  /\ rows' = [a \in Audits |->
       IF a \in listed THEN Upserted(rows[a], wh[a], number[a]) ELSE Delisted(rows[a])]
  /\ todo' = [todo EXCEPT ![c] = listed]
  /\ Goto(c, "reconcile")
  /\ UNCHANGED <<index, items, plan, classes, syncErr, failures>>

(* FulfillmentAuditsByPlatformOrderNos: the active orders among the references. *)
ReadListed(c) ==
  /\ pc[c] = "reconcile"
  /\ LET found == {a \in todo[c] : rows[a].active}
     IN IF found = {} THEN Return(c)
        ELSE /\ items' = Copied(c, found)
             /\ todo' = [todo EXCEPT ![c] = found]
             /\ Goto(c, "lookup")
             /\ UNCHANGED <<plan, classes, syncErr>>
  /\ UNCHANGED <<rows, index, snapshots, failures>>

(* Listing or exporting the audits refreshes their categories first. *)
ListAudits(c) ==
  /\ pc[c] = "idle"
  /\ Goto(c, "refresh")
  /\ UNCHANGED <<rows, index, todo, items, plan, classes, syncErr, snapshots, failures>>

(* ResolveFulfillmentAudit: the operator closes a problem for good. *)
ResolveAudit(a) ==
  /\ rows[a].active /\ ~rows[a].terminal
  /\ rows[a].category \in {"manual_required", "warehouse_overdue", "sync_error"}
  /\ rows' = [rows EXCEPT ![a].terminal = TRUE, ![a].active = FALSE, ![a].resolved = TRUE]
  /\ UNCHANGED <<index, sessionVars, snapshots, failures>>

(* An error, a deadline or a restart: the session does nothing more. *)
Fail(s) ==
  /\ pc[s] # "idle"
  /\ failures < MaxFailures
  /\ failures' = failures + 1
  /\ Return(s)
  /\ UNCHANGED <<rows, index, snapshots>>

(* Ten minutes pass since an order was checked. *)
Age(a) ==
  /\ rows[a].checked = "recent"
  /\ rows' = [rows EXCEPT ![a].checked = "old"]
  /\ UNCHANGED <<index, sessionVars, snapshots, failures>>

Snapshot(c) ==
  \E listed \in SUBSET Audits, wh \in [Audits -> Warehouses \cup {NoWarehouse}],
     number \in [Audits -> Numbers \cup {NoNumber}] : SyncSnapshot(c, listed, wh, number)

Session(s) ==
  \/ Lookup(s) \/ UpdatesDone(s) \/ Classify(s) \/ ApplyClasses(s)
  \/ \E a \in Audits : Update(s, a)

NextStep ==
  \/ Check
  \/ \E s \in Sessions : Session(s) \/ Fail(s)
  \/ \E c \in Clients : Snapshot(c) \/ ReadListed(c) \/ ListAudits(c)
  \/ \E a \in Audits : ResolveAudit(a) \/ Age(a)

Next ==
  /\ NextStep
  /\ settled' = settled \cup {a \in Audits : rows'[a].oms = "outbound" \/ rows'[a].picked}

Spec == Init /\ [][Next]_vars

(* The steps of Check that wait for nobody. *)
AuditorProceeds ==
  \/ StartCheck \/ SyncEnds \/ ReadStatusCandidates \/ ReadCandidates
  \/ Session(Auditor) \/ Track

(* The timer starts Check again and again, it runs to its end (a run that fails is followed *)
(* by others that do not), and time passes.  No fairness for the world outside: XLWMS, the  *)
(* shops and the operator, nor for the requests, which may hang until the end.              *)
Fairness == WF_stateVars(AuditorProceeds) /\ \A a \in Audits : WF_stateVars(Age(a))

FairSpec == Spec /\ Fairness
--------------------------------------------------------------------------------
(* Properties *)

TypeOK ==
  /\ rows \in [Audits -> Row]
  /\ index \in [Records -> Entry]
  /\ pc \in [Sessions -> Step]
  /\ todo \in [Sessions -> SUBSET Audits]
  /\ items \in [Sessions -> [Audits -> Item]]
  /\ plan \in [Sessions -> [Audits -> Resolution]]
  /\ classes \in [Sessions -> [Audits -> Category \cup {"keep"}]]
  /\ syncErr \in BOOLEAN
  /\ snapshots \in 0 .. MaxSnapshots /\ failures \in 0 .. MaxFailures
  /\ settled \subseteq Audits

OpenOrClosed(row) ==
  /\ row.active => /\ row.known /\ ~row.terminal /\ ~row.resolved
                   /\ ~row.picked /\ row.oms # "outbound"
  /\ row.known /\ ~row.active => row.resolved
  /\ row.terminal => row.known

(* An audit in work is open in every respect: not shipped, not picked up, not resolved by  *)
(* hand and without a time of resolution, whichever of the statements wrote it last.       *)
ActiveIsOpen == \A a \in Audits : OpenOrClosed(rows[a])

(* README.md:495-498: what the operator has resolved is not taken up again by an automatic *)
(* check, a snapshot or a tracking answer that was under way: it stays out of work, with    *)
(* the outbound order and the pickup it had.  Its category and the texts of its tracking    *)
(* may still be written by a refresh that had computed them before.                         *)
ResolutionIsFinal ==
  [][\A a \in Audits : rows[a].terminal =>
       /\ rows'[a].terminal /\ ~rows'[a].active /\ rows'[a].resolved
       /\ rows'[a].oms = rows[a].oms /\ rows'[a].order = rows[a].order
       /\ rows'[a].picked = rows[a].picked]_vars

(* An audit goes out of work because its order has shipped or was picked up, the operator  *)
(* resolved it, or the latest snapshot does not list it: no error, no unfinished check and *)
(* no refresh that computed with old rows closes an order nobody has taken care of.        *)
ClosedForAReason ==
  [][\A a \in Audits : (rows[a].active /\ ~rows'[a].active) =>
       a \in settled' \/ rows'[a].terminal \/ snapshots' # snapshots]_vars

(* README.md:489: the task tracks the orders XLWMS has shipped.  An archived order stays  *)
(* on the tracking queue until all of its packages are picked up.                         *)
ShippedStaysTracked ==
  [][\A a \in Audits : a \in QueueTracking => (a \in QueueTracking' \/ rows'[a].picked)]_vars

(* An order whose label an outbound order has shipped with goes out of work, whatever the *)
(* copies, the requests and the failures in between.                                      *)
ShippedLeaves ==
  \A a \in Audits :
    (/\ rows[a].active
     /\ \E r \in Records : index[r].status = "outbound" /\ rows[a].number = NumberOf[r]) ~>
      ~rows[a].active
================================================================================
