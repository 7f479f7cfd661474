# XLWMS API manager: TLA+ models, model checking and proofs

This directory holds the formal model of the XLWMS API manager: TLA+ modules translated
from the Go source, TLC configurations that check them on small instances, and proofs that
TLAPS checks for every value of the constants. `PROJECT.json` lists every run, every
property with a mutation of the model that breaks it, the source lines of every definition,
the hazards the properties are for and the theorems.

To check a module: `tlc -config Sync_index.cfg MC_Auditor`; to check proofs:
`tlapm Auditor_proofs.tla`.

Paths below are relative to the repository (`src/`).

## 1. The system

One Go process (`cmd/server/main.go`) with a PostgreSQL database stands between the shops'
order tools, the XLWMS warehouse API, the OMS web application behind it, and the platform
services for Temu and SHEIN. Every HTTP request is a goroutine of its own. `main.go` starts
background goroutines next to the HTTP server: the inventory schedule, the schedule of the
API scopes, the schedule of the cost data, the import of legacy bindings (retried every
30 s until it succeeds), and the hourly fulfillment audit. At every start all migrations but
004 are replayed (`store/postgres.go:39`).

### 1.1 Components

| Component | State | Operations | Hard behaviour | What makes it correct |
|---|---|---|---|---|
| Inventory reservations (`store/inventory_reservations.go`) | table of claims (order, SKU, warehouse, quantity, observed stock, end) | reserve, release; sweep of lapsed claims | READ COMMITTED transactions with two kinds of advisory locks and row locks; the clock is read before the locks; calls die anywhere | live claims on a stock never exceed what was observed; no claim is half replaced; only lapsed claims are swept; nobody waits for ever |
| Fulfillment audits (`store/fulfillment_audits.go`, `auditor/service.go`, `httpapi/fulfillment_audits.go`) | one row per order waiting for pickup | snapshot, reconcile, hourly check, list with refresh, tracking result, resolve by hand | stale copies written back row by row by several writers; an UPDATE with a join re-evaluates one side only | a row is wholly open or wholly closed; a resolution is final; closed only for a reason; what shipped leaves |
| Outbound index (`auditor/service.go`, `store/outbound_index.go`) | watermark and coverage start per account, windows read, orders | forward advance, backfill of needed hours, replay of the migration at a start | partial failure, order of saves, restart | what counts as read is bounded by hours that were read; nothing shrinks; everything is eventually covered |
| Outbound matching (`auditor/service.go`) | none | choose the outbound order for an audit | ties and the order of the listing | the choice is the best one in the stated order of preference |
| Tracking queues (`auditor/tracking.go`) | two watermarks | rotate through candidates, worker pool | one failed write holds the watermark | no candidate is passed over for ever |
| Warehouse management (`store/` and `httpapi/warehouse_management.go`) | physical warehouses, bindings of shops with revision, verification and history | save, check, activate, pause, import of legacy bindings | check and write in different transactions; optimistic revisions; locks in different orders; two connections held at once | nothing unseen is overwritten; what ships was checked; what is off stays off |
| Cost and inventory syncer (`syncer/service.go`, `store/sync.go`, `cmd/server/*_scheduler.go`) | the map of running targets; runs; funds flow snapshots, cost details, inventory | trigger (by hand or by the schedule), run, finish | all-or-nothing reservation of targets; the end of a run may not be written; a late failure may overwrite a success | a table holds one snapshot at a time, even when two runs of one target go on; no order waits for its detail for ever |
| API scopes (`store/api_credentials.go`, `store/api_inventory_sync.go`, `syncer/api_inventory.go`) | credentials with status; stock per scope | save, delete, synchronise | ready is committed before the warehouses are registered; a failure is written without a guard | every credential comes back to a scope that is ready and whose warehouses are registered |
| OMS client (`oms/client.go`, `mfa.go`, `password.go`) | cached token, query gate | authenticated requests with one retry after a new login; MFA; change of password | a rejected token may already have been replaced | a fresh token is never thrown away; the gate is never exceeded |
| OMS accounts (`httpapi/platform_order_accounts.go`, `store/oms_accounts.go`, `store/fulfillment_accounts.go`) | accounts, cached clients | create, change credentials, upgrade the password, enrol MFA, replace the API credentials | remote change first, local save afterwards | what is saved is what the remote system accepts |
| Platform order assignment (`httpapi/platform_order_automation.go`) | none of its own; one mutex | resolve routes over the accounts, assign and approve warehouse by warehouse | an error leaves a group of unknown outcome | an order is assigned at most once, and only along a route that is ready |
| Temu warehouse decision (`temu/warehouse_decision.go`) | none | stock → regions → total → restrictions of the platform and the shop | each restriction recommends anew | a recommendation is usable; an automatic decision is safe |
| Packing planner (`packing/planner.go`) | none | place units at corners, open packages | geometry decided by six comparisons | no overlap; within limits; nothing lost |
| Live inventory (`temu/live_inventory.go`, `scoped_inventory.go`) | none | fan out queries, gather, correct | partial failure | a failed warehouse is never taken for an empty one |
| Corrections, thresholds, alerts (`store/inventory_*.go`) | rules, shops, alerts | single-statement writes, switch of a shop | — | a correction never makes a stock negative |
| Policies and account rules (`store/fulfillment_policies.go`, `account_fulfillment_rules.go`) | rules per warehouse, SKU, account | replace, resolve | the rules combine | a carrier left over is allowed by every rule |
| Product pairings (`httpapi/` and `oms/product_pairings.go`) | none (OMS) | list, create, delete under a mutex | compare recipes | equal recipes are recognised |
| SKU mappings, specifications, combinations (`store/platform_sku_mappings.go`, `warehouse_sku_specs.go`, `packing_combinations.go`) | master data | replace row by row in a transaction | — | — |
| Clients of Temu and SHEIN (`temutracking/`, `sheinfulfillment/`), XLWMS client (`xlwms/`) | none | HTTP calls | — | — |
| Server, configuration, credentials, data types (`httpapi/server.go`, `config/`, `credentials/`, `model/`) | none | routing, parsing, encryption | — | — |
| Frontend, legacy Python tool, deployment | — | — | — | — |

### 1.2 How they interact

* Reservations share the rows of warehouses, shops and bindings (`FOR SHARE`) and the
  connection pool with warehouse management; a pause waits for reservations under way.
* A snapshot request writes audits, then reconciles them with the outbound index inside the
  same request; the hourly check reads the same rows, advances the index, writes its
  conclusions and then tracks packages.
* The index reads the accounts of the API credentials; the hours it reads back are those the
  open audits need.
* The warehouse decision uses live stock, corrections, thresholds, restrictions and the
  bindings in use; its answer is what a caller then reserves.
* The assignment of platform orders uses the cached OMS clients, the decision and the
  policies.

## 2. The modules

The most important behaviour comes first: what may be promised twice, what may be lost, what
may be shipped wrongly.  The last column names the module with the proofs.

| Module | Models | Composed in / implements | Proofs |
|---|---|---|---|
| `ReservationLedger` | what reservations promise: whole operations on one table | abstract specification | the refinement, in `InventoryReservations_proofs` |
| `InventoryReservations` | the transactions, statement by statement | implements `ReservationLedger` (`Ledger`) | `InventoryReservations_proofs` |
| `FulfillmentAudits` | the audit rows and all their writers | uses the match of `OutboundMatching` as a set-based choice | `FulfillmentAudits_proofs` |
| `OutboundSync` | watermarks, windows, restart | `MC_Auditor` | `Auditor_proofs` |
| `TrackingQueue` | the two rotating queues and their watermarks | `MC_Auditor` | `Auditor_proofs` |
| `TrackingResolution` | what an answer of the platform makes of an order, in Go and in SQL | `MC_Algorithms` | `Algorithms_proofs` |
| `OutboundMatching` | the choice of the outbound order | `MC_Algorithms` | `Algorithms_proofs` |
| `LiveInventory`, `WarehouseDecision` | the stock a decision rests on, and the decision | `LiveInventory` extends `WarehouseDecision`; `MC_Algorithms` | `Algorithms_proofs` |
| `PackingPlanner` | units into packages | `MC_Algorithms` | `Algorithms_proofs` |
| `PlatformOrderAssignment` | from the evidence of labels to the approval in the OMS | `MC_Algorithms` | `Algorithms_proofs` |
| `FulfillmentPolicies` | the carriers left by four layers of rules | `MC_Algorithms` | `Algorithms_proofs` |
| `WarehouseManagement` | console, import, shops, reservations as far as they share rows and connections | `MC_Console` | `WarehouseManagement_proofs` |
| `OMSAccounts` | the clients of the OMS with their tokens, and the login of the account | `MC_Console` | `OMSAccounts_proofs` |
| `SyncRuns` | running targets, runs, snapshots, both schedulers | `MC_Services` | `SyncRuns_proofs` |
| `ApiScopes` | the scopes of the API credentials, their refresh, creation and deletion | `MC_Services` | their types, in `SyncRuns_proofs` |

Components that share no state are checked in one run: `MC_Auditor`, `MC_Console`,
`MC_Services` and `MC_Algorithms` choose at the start of a behaviour which of them it is about
(`part`, `page`, `service`, `question.about`), and the others rest.  Fairness is stated for
the part the behaviour is about.

`FiniteSetFacts` has the facts about finite sets, sums and folds the proofs share.

The abstract specification is `ReservationLedger`; `InventoryReservations` maps its state to it.
TLC checks the refinement on a small instance, and it is proved for every one.  Every invariant and
every action property a passing run checks is a theorem; liveness is TLC's alone (section 4).

### 2.1 `InventoryReservations` and `ReservationLedger`

State: `rows` is the committed table, one row per order and SKU; `clock`; per call its
program counter, request, `now`, the advisory locks held, and the writes not yet committed
(the rows it has locked). One action is one statement of `ReserveFulfillmentInventory`
(`StartReserve`, `ShareBinding`/`RefusePaused`, `LockOrder`, `ExpireOrder`, `LockResource`,
`ExpireResource`, `Extend`, `Weigh`/`RefuseCapacity`, `Replace`, `Commit`) or
`ReleaseFulfillmentInventory` (`StartRelease`, `LockOrder`, `ReleaseRows`, `Commit`).
`Abort` rolls a call back anywhere; `BreakDeadlock` is PostgreSQL's choice of a victim.
A read sees what is committed and the own writes; a write waits for rows others have
written.

Abstractions. An UPDATE of several rows takes their locks in one step. Lock keys are ordered
by `Rank`; the order of the database's collation is taken to be total, like Go's. Times are
ticks; `TTL` of them is the life of a claim. A row that is not active keeps its status only.
A request is what `normalizeInventoryReservation` returns. `weighed`, `weighedFor` and
`basket` are history variables: what the check that admitted a row had counted, and the SKUs
of the request that last made or extended the claim (an extension keeps what is left of a
claim, which may be the half a sweep has spared, and counts as the claim from then on). The HTTP wrapper, the pre-check of the shop and the wording of errors
are left out.

### 2.2 `FulfillmentAudits`

State: a row per order (`active`, `terminal`, the OMS status, category, match, tracking
facts), the outbound records as the warehouse has them and as the index has them, and per
session (the auditor, each HTTP request) a program counter and its copies. The actions are
the statements: `SyncSnapshot`, `ReadListed`, `ReadCandidates`, `Lookup`, `Update`,
`Classify`/`Recategorise` (one UPDATE whose join is evaluated before the wait for the row
ends), `TrackOrder`, `ResolveAudit`, and failures of a session. `Progress` is the warehouse
working on an outbound order; it passes through the status codes in any of the orders they
can take and never produces an unknown one.

Abstractions. One shop, one audit and one record in the runs: the statements never relate
two rows, and the choice among several records is what `OutboundMatching` checks. `Tracked`
takes `picked` for "all packages are picked up". The limit of 5000 rows is not reached; the
hour's cooldown and the 24 hours that make a row overdue are nondeterministic. Which of the
due orders the queues list is left to `TrackingQueue`: any of them may be looked at. What an
answer makes of them is in `TrackingResolution`.

### 2.3 `OutboundSync`

Time in whole hours, as the code truncates it. `tables` holds watermark, coverage start and
windows of each account and, as history, the hours that were really read; `check` the
progress of a check. `ForwardWindow`, `BackfillWindow` with their failures; `EndCheck`;
`Restart` replays the INSERT of `001_init.sql:805-814`. Accounts are constant; pages inside
a window, the record count and `last_error` are left out; a window is saved whole.

### 2.4 `TrackingQueue` and `TrackingResolution`

`turn` is the place of `Check` in its tracking: the queue of the exceptions, the regular one, the
statement that classifies all rows again. `listed` is what the queue had when it was listed;
`Batch` is its first `Limit` in the order `CASE WHEN id>$1 THEN 0 ELSE 1 END,id`, and `InWork`
what the workers may be working on, since they take the orders from a channel in that order.
`Store` and `StoreFails` end the work on one order, `AdvanceMark` or `MarkStays` the batch.
Orders enter when they ship, leave when they are picked up or when a stale copy of a row puts
them back into work, and change queue with their category. Which category an answer means does
not matter here: `Store` moves a row to either queue or out. The statement that classifies all rows
again ends every Check (`RefreshTracking`) and begins every listing of the archive
(`ListArchive`, `httpapi/fulfillment_audits.go:107`), whatever Check is doing; joined with what it
computed before, it may give a row stored meanwhile the category of before (`RefreshStale`).

`TrackingResolution` is that classification: `Resolved` the worker's (`classifyTracking` and
`trackingResolution`), `Refreshed` the two `CASE`s of
`RefreshFulfillmentTrackingCategories`. The texts, times and counts of events are left out; an
age is in hours.

### 2.5 `OutboundMatching`, `LiveInventory`, `WarehouseDecision`, `PackingPlanner`

`OutboundMatching` has the two passes (`Match`) over the lists the code appends the records to
(`Gathered`), which are folds over the listed sequence, and the
choice as a set-based definition (`Selected`), the one `FulfillmentAudits` uses; the run
shows that they agree on every list.

`LiveInventory` builds the stock of a SKU: the API scopes that hold it, the batch of SKUs asked
for together, the answers of the warehouses (complete, failed, or with a record of another
warehouse, which spoils the answer for the whole batch), the corrections kept by hand, and the
limits of the account, the SKU or the platform. `Availability` is the whole of
`temuWarehouseAvailability` for one SKU. `WarehouseDecision` decides on that stock: regions,
total, the warehouses the platform forbids and those the shop does not use. Reasons, names and
detailed region codes are left out, and so is the SKU that stands in for another by its
specification.

`PackingPlanner` places one unit per step; lengths are whole numbers, so the comparison
tolerance and the rounding have no effect.

### 2.6 `PlatformOrderAssignment` and `FulfillmentPolicies`

`PlatformOrderAssignment` follows `assignAndApprovePlatformOrdersAuto`, which
`platformOrderMu` (`holder`) admits one at a time: `ReadAudits`, one `ServiceAnswers` or
`ServiceFails` per platform, `LookUp`, `ResolveRoutes`, and one `AssignGroup` per warehouse. A
call to the OMS may approve any part of its group, also when it fails. `label`, `audited` and
`approved` are changed by others in between (`Relabel`, `Reaudit`, `ApproveByHand`). `deaf`,
`local` and `seen` are history: what the property says of the evidence is what could be known
since the request began, not what the request remembers. Routes are reduced to the second
lookup; channels and names are left out. Both label services are always there: `main.go:64-67,92`
hands over one value that is both, so the branches for a missing one
(`platform_order_automation.go:254,267`) are taken by tests only; a service without an address
answers with an error, which is `ServiceFails`.

`FulfillmentPolicies` has the rows of one SKU at one warehouse, saves (`AskToSave`,
`CheckManaged`, `CheckLimit`, `WritePolicies`), each of whose checks is a query before the
transaction, and the reader with its four queries (`ReadBase` … `ReadLimit`). Priorities,
currencies and prices are left out.

### 2.7 `WarehouseManagement`

`tables` has warehouses, shops and bindings with revisions, `verified` and `enabled`;
`console` is the one console request that `warehouseConfigMu` lets through, with the page
the operator saw; `others` the import and the reservations. Row locks are derived from the
program counters; a connection is in use while a transaction is open. The actions are the
statements of the four operations, of the import and of a reservation's share locks. A save
begins (`Begin`, which takes a connection) before it has the row of its warehouse (`LockRow`): while
it waits, reservations may share the row one after the other, since PostgreSQL grants a share lock
beside a share lock whoever else is in line.
External checks may find anything. A ship-capable legacy row is `ships` (enabled, `CanShip`,
not the Atlanta warehouse). A crash is the failure of everything under way.

### 2.8 `OMSAccounts`

`account` is the row of `xlwms_oms_accounts` of one username. A client (`client`) has its token,
whether a code is pending, and who holds `mfaMu`; `cached` is `Clients.clients`, keyed by the
password. A call is a request of any kind: the search of orders (`query`, through the gate), a
list or an assignment (`list`), the health check of the account list (`check`), the two MFA
calls, and the three that change the login. `Access`, `Login`, `Operate` and `Invalidate` are
`accessToken`, `loginWithSession`, the request and `invalidateToken`; `Probe`,
`ChangeRemotely`, `VerifyLogin`, `Validate`, `SaveLogin` and `Forget` the steps of
`CreateAccount`, `UpdateAccountCredentials` and `UpgradeAccountPassword`. The remote system
(`remote`, `valid`) is external: it compares passwords, may demand a second factor or another
password, revokes tokens at any time, and has its password changed elsewhere. `proven` is
history: the passwords it has taken for right.

Abstractions. A client nobody can reach any more is a free slot. The pacing of searches, the
content of requests and the listing's other columns are left out. A change of the remote password
whose answer is lost is one of the outcomes of `ChangeRemotely`. An operation may end with any
answer or error but a rejected token, whatever its token is worth by then (`Operate`).

### 2.9 `SyncRuns` and `ApiScopes`

`running` is the map of `syncer.Service`; `run` is what the goroutine of each run knows, with
its place (`stage`): reading pages (`fetch`), between the statements of its snapshot and their
commit (`write`), reading its targets, working on them, in the UPDATE of one (`mark`), writing
its end, releasing its key. `rows` is `xlwms_funds_flows` per warehouse and
`xlwms_inventory_records` per warehouse and credential (`Areas`), with the
`detail_sync_status` of each line. `round` is the local state of
`triggerScheduledCostSync`, with the status of the runs it waits for as
`xlwms_sync_runs` has it; `pass` that of `triggerScheduledInventorySync`. A request starts
one run (`AskFor`) or all (`AskForAll`); the steps of a run are grouped in `Proceeds` and
`Fails`. The advisory lock is taken by a run in `write`; an UPDATE of the same rows waits
for it (`MarkEnds`).

Abstractions. What is read is arbitrary, so it does not matter which credential of a warehouse
reads funds flows; only stock is kept by credential. One stock kind stands for those that are
snapshots; the kinds that only accumulate have no state to be wrong. Runs are reused once over
and not waited for. The UPDATE for an order changes all of its rows in one step. Of the guards of
`ActiveWarehouseCredentials` the switch of the warehouse is `enabled`; the other three, an active
credential, a scope that is ready and a SKU of the warehouse in it, are `listed`, the routes that
meet them, which changes at arbitrary moments (`ScopesChange`): what a refresh does to a scope is in
`ApiScopes`, and nothing in the syncer depends on when.

`ApiScopes` has the status, the warehouses of the scope and the owner of each warehouse, and
per call (the background goroutine, each request) the statement it is at. `SaveScope` is
the transaction up to its commit, `RegisterWarehouses` the statement behind it, `SaveFailure`
the unguarded update. `active` is `is_active`: a group that is new at a start is active if one of
its warehouses is enabled, a credential that is saved is, and only an active one is refreshed, saved
and registered for (`IsActive`); a failure is written whatever the flag says. Whether warehouses are
enabled at that start is arbitrary. The SKUs of a scope are left out.

## 3. The runs

| Run | Instance | Properties | Shows |
|---|---|---|---|
| `capacity` | 3 orders, 2 calls, 1 stock of 2, TTL 1, clock to 2 | `TypeOK`, `NoOversell`, `LaterWeighedEarlier`, `IInv`, `OnlyLapsedSwept` | claims that lapse, are swept, replaced, extended and released never exceed what was observed; the inductive invariant of the proofs holds |
| `locks` | 2 orders, 2 calls, 2 stocks, a warehouse that is paused, TTL 2, clock to 2 | `LiveClaimIsWhole`, `NoAdvisoryDeadlock`, `PausedTakesNoClaim` | the sorted locks form no circle; a live claim is whole; a pause is final |
| `ledger` | 2 orders that move between 2 warehouses, fair | `ImplementsLedger`, `CallsReturn` | every commit is one operation of the ledger; every call returns |
| `audits_races` | 1 audit, 1 record, 1 request, 2 snapshots, 1 failure | `TypeOK`, `ActiveIsOpen`, `ResolutionIsFinal`, `ClosedForAReason` | stale copies never reopen, close or overwrite what they must not |
| `audits_shipped` | the same with 1 snapshot, fair | `ShippedLeaves` | what has shipped leaves the list of open audits |
| `audits_tracked` | violation | `ShippedStaysTracked` | finding 1 |
| `sync_index` | index: 2 accounts, 4 hours, 1 failure, 1 restart; queues: 3 orders, batches of 2, 2 workers, 1 fault or page of the archive; fair | `AuditorTypeOK`, `CoverageIsBounded`, `CoverageNeverShrinks`, `ForwardCatchesUp`, `NeededIsCovered`, `EveryCandidateIsTried`, `WatermarkIsEarned` | watermarks bound what was read, and everything is caught up; no order that waits is passed over for ever |
| `sync_seeded` | violation | `CoveredWasFetched` | finding 2 |
| `management` | bindings: 2 warehouses, 1 shop, 2 ids, 3 connections, 3 changes, and either 2 legacy rows and 1 reservation at a time or 2 reservations; account: 2 requests at a time, 2 in all, 2 passwords, 3 client slots, gate of 1, 2 tokens, 2 changes of the remote system; fair | `ConsoleTypeOK`, `EnabledWasChecked`, `SavedWasVerified`, `SeenIsChanged`, `DisabledShopStaysOff`, `ConsoleReturns`, `FreshTokenIsKept` | nothing unseen is overwritten; what ships was checked; what is off stays off; the console comes back unless reservations of its warehouse never cease; a token that serves is kept and a saved password was tried |
| `services` | syncer: 1 warehouse, 2 credentials, 1 line, 2 runs of each kind, 2 of {request, failure or restart, switch or change of the scopes}; scopes: 2 credentials, 1 warehouse, 1 call at a time beside the refresher, 2 requests, 1 failure; fair | `ServicesTypeOK`, `SnapshotIsLatest`, `PendingIsTried`, `ScopesSettle` | tables hold one snapshot; no order waits for ever for its detail while the scheduler is given its warehouse; every active scope settles |
| `services_enabled` | violation | `DetailsOfEnabledOnly` | finding 3 |
| `algorithms` | lists of 3 records in 2 warehouses; 3 warehouses with ten cases of answer and correction each, the three layers of limits and the restrictions (`StockQuestions`); every pair of tracking answers of up to 2 packages (`Replies`) at 6 `Ages`; up to 5 units of 8 SKUs; 2 orders, 2 requests one after the other, 1 change of a label, an audit or an order; 2 carriers, 1 save, 2 changes by others | `MatchIsSelected`, `DecisionIsSafe`, `QueueFollowsTheAnswer`, `PlanIsSound`, `PlanGoesOn`, `LeftOverIsAllowed`, `AssignedByEvidence` | the algorithms give what their definitions promise, also while what they rest on changes |

`AssignTypeOK` and `PolicyTypeOK`, the types of two modules `algorithms` hosts, are proved only. `algorithms` runs with `CHECK_DEADLOCK FALSE`: a question that is
answered, or a request whose slot is used, has no next step. The other runs check deadlock.

Why the bounds are enough.

* Reservations: every race is between a call and one that holds what it waits for, so two
  calls have them all; three orders are needed for a claim that lapses while two others are
  weighed. TTL 1 and a clock to 2 let a claim be made, lapse and be replaced; the clock is a
  bound of the model, not of the code. `locks` has claims of two ticks: only then may a call
  whose `now` is older than the clock extend a claim another call has swept a half of. The
  symmetry of orders and calls is used in the two safety runs only.
* Audits: two snapshots are the least with which a row is listed, archived and listed again;
  a third adds the same steps. Statements act on one row.
* Index: with `Lookback` 1 and hours to 3 there is an hour before the coverage start, one
  inside and one ahead; with two accounts one can fail while the other advances.
* Tracking queues: three orders and batches of two make a batch wrap around the watermark and
  leave one out; one fault is a result that is not stored, a watermark that is not, a queue
  that is not listed, a restart, a stale category, or a page of the archive that is asked for. A
  second fault repeats the first in another round.
* Management: a save needs two connections at once. With three, two reservations may hold the
  others while both wait for the row or share it, and locks that overlap need two reservations;
  a third one, with more connections, does what the two do in turn. The import and two
  reservations at once are too many states, so `page` has the import next to one and two
  without the import. A reservation that ended may come in again: `MaxChanges` bounds the changes
  of rows after which no new console request and no new reservation arrives.
* OMS account: the race for a token is between two requests that hold the same one, and its
  outcome shows with the second token issued; a third would begin the same again. A gate of one
  is the least at which a request waits. Two clients with different passwords and one no longer
  cached need three slots.
* Services: one warehouse with two credentials is what makes two runs of one target go on side
  by side, and the lock, the keys and the snapshots are per warehouse. One line has every
  history a line can have (there, gone, there again, with and without its detail). Two
  disturbances are enough for a lost end behind a run that was asked for, or a restart
  between a commit and a registration, or for a warehouse that is taken off the scheduler's list
  and given back. Of the two routes of the warehouse one, both or none is listed (`MCListings`).
  The syncer reads of the scopes no more than `listed`, so `service` chooses one per behaviour.
* Algorithms: three records fill both passes with a tie; three warehouses have a preferred
  one, another of its region and one of another region; five units overflow a package in
  every direction. Two orders are one of each platform or a batch of which one is not
  settled; one change falls between any two steps of a request. A save whose checks are stale
  needs one change by another, and a reader caught between two queries a second one.

### 3.1 Fairness

* Reservations (`FairSpec`): a call whose statement can go on again and again goes on
  (strong fairness of `Proceed(t)`, the lock queues of PostgreSQL), and PostgreSQL breaks
  every deadlock (weak fairness of `BreakDeadlock`).
* Audits: weak fairness of the auditor's steps and of `Age` (time passes); failures are
  bounded. The hourly timer (`main.go:142-166`) starts a check again whatever became of the
  one before. Nothing is assumed of requests.
* Index: weak fairness of the steps of a check, started by the same timer; failures and
  restarts are bounded.
* Tracking queues: weak fairness of the steps that do not fail (`TrackProceeds`), for the same
  timer; faults are bounded, so a statement that fails is followed by one that does not.
* Services: weak fairness of the runs and of the cost scheduler (goroutines are scheduled,
  every call has a deadline, the ticker ticks) and of the scope calls; strong fairness of
  `MarksEnd`, since PostgreSQL serves those who wait for a row in turn and a snapshot does
  not overtake an UPDATE that waits. Requests, failures, switches and restarts are bounded.
  Nothing is assumed of stock.
* Management: strong fairness of the console's steps: the pool hands connections on in turn, and a
  row that is free again and again is had in the end. Nothing bounds the time a console request
  waits (its context has no deadline), so a row that is never free keeps it: `ConsoleReturns`
  excepts reservations of its warehouse that come in for ever, and nothing else. The deadline of the
  import (2 × `RequestTimeout`) and of a reservation (its request's context) end them when they wait.
  Of the account page only safety is checked; a call that could not go on would be a deadlock.

## 4. The proofs

A theorem holds for every value of the constants that meets the named `ASSUME`s of the modules;
TLC evaluates them in every run of a module that extends them. They say that names are distinct,
that counts and durations are numbers, that `Rank` tells resources apart, that TTL is positive, and
that a packing request names finitely many SKUs, as a list of items does; `MaxRecords` is any
number, and the questions of `MC_Algorithms` are what they are called: those about a SKU name known
warehouses and have answers of the right form (`StockAssumption`), ages are hours
(`AgesAssumption`). Sets of calls, orders, warehouses, SKUs, accounts and runs are arbitrary,
finite or not, unless a paragraph says otherwise.

### 4.1 Reservations

`InventoryReservations_proofs` — `TypeCorrect`, `Invariance`, `NoStaleCheck`,
`OnlyLapsedAreSwept`, `PausedStaysUnclaimed`, `LiveClaimsAreWhole`, `AdvisoryLocksNeverCircle`,
`NothingIsOversold`, `ReservationsImplementLedger`.

`LaterWeighedEarlier` is not inductive: it depends on what a call has swept and weighed while it
waited. `IInv` adds that the order lock, the resource locks and the row locks are exclusive, and
for each call (`CallInv`) what it knows at its statement: the own rows it has swept, the resources
it has locked and swept, that what it weighed still covers the committed claims of the others, and
which rows it has written. The step lemmas take the actions one by one; those of another call are
harmless because they need a lock the first call holds.

`LiveClaimsAreWhole` has an invariant of its own beside `IInv` (`WholeInv`): a call that is about
to commit a reserve has written every SKU of its request with one warehouse and one end and leaves
no other row of the order active (`ClaimWritten`), and an order with rows missing from its claim
has none left that lives (`Whole`): whoever swept a row did so at a clock past its end, and the
rows of a claim end together.

`AdvisoryLocksNeverCircle` rests on `LocksSorted`: the resources a call has locked come before
those it has still to lock, and only finitely many calls are under way. A call that waits for an
order lock holds nothing anybody waits for; of the calls that wait for a resource, the one that
waits for the highest would have to wait for a call that waits for a higher one.

`NothingIsOversold` says of the claims on a stock, added up, what `NoStaleCheck` says of two of
them. `CapacityInv` keeps the sums: what a check weighed and its own amount fit in what was observed,
from the check (`FitsWeighed`) over the written row (`Writes`) to the committed one (`RowsFit`); and
of any orders with claims on one stock one was weighed against all the others (`GroupsHaveLast`), so
their sum is part of what that one had weighed. Claims only leave such a group, or join it last.

`ReservationsImplementLedger`: a commit of a reserve is the ledger's claim or extension and a commit
of a release its release, on the table as it is at that instant; what the ledger requires of a
claim is `CapacityInv`, `WholeInv` and `IInv`. A tick is the ledger's own; every other statement,
every abort, a pause and an activation leave what it shows unchanged.

### 4.2 Audits and what the auditor keeps

`FulfillmentAudits_proofs` — `TypeCorrect`, `AuditsAreOpenOrClosed`, `ResolvedStays`,
`ClosedOnlyForAReason`. The invariant says that every row is open or closed in all its
columns, whatever the copies in the sessions hold: for this the copies need only their
types, since each statement sets the columns that belong together at once. For
`ClosedOnlyForAReason` a second invariant (`SettledInv`) adds that a session that has
concluded "shipped" or computed an archive category did so for an audit that had shipped or
been picked up, however long ago.

`Auditor_proofs` — of the index `TypeCorrect`, `CoverageStaysBounded`, `CoverageGrows`: the
invariant relates the cursor of the check under way to the watermark and the windows;
accounts, hours, failures and restarts are arbitrary.
Of the queues `TrackingTypes`, `MarksAreEarned`: for every number of orders, length of
a batch and number of workers. The watermark moves only when the batch is done and nothing of it
is unsaved, and what is at or before its new place, in the order of the rotation, is in the
batch. `AuditorTyped` is the type of the two together, the one at rest included.

### 4.3 Warehouses and accounts

`WarehouseManagement_proofs` — `ManagementTyped`, `WhatShipsWasChecked`, `OnlyTheSeenIsChanged`,
`DisabledShopsStayOff`, and `ConsoleTyped`, the type of both pages together. The check of a console
request and its transaction are far apart, and the import writes in between. `ManagementInv` says
what still holds when the transaction writes: the version of the page is that of the locked row
(`PageIsCurrent`, `WarehouseIsHeld`), the rows of an import under way are still new
(`InsertedIsNew`), the address a check has looked at is that of the binding unless the binding has a
later version (`CheckedAddress`), and the shop is on while an activation writes (`ShopIsHeld`).
The size of the pool is arbitrary.

`OMSAccounts_proofs` — `AccountsTyped`, `AcceptedTokensKept`, `SavedPasswordVerified`. `TokenInv`
says that a call which talks to the remote system for a client holds its mutex, that a client with
a pending code has no token, and that a token found rejected was issued before and, as tokens are
issued once, is not accepted again; so what `invalidateToken` and the two MFA calls give up no
longer serves. `PasswordInv` says that what a call carries to its save was taken for right. Any
number of requests, clients and passwords.

### 4.4 Services

`SyncRuns_proofs` — `TypeCorrect`, `TablesHoldOneSnapshot`, `ServicesTyped`. A commit replaces what
its run has found, so `SnapshotIsLatest` depends on what happened since: `SnapInv` adds that no two
runs of one warehouse and kind are between their statements and their commit, and that what
such a run is going to remove is what the table has and its snapshot has not. Runs of
different kinds or credentials replace different areas (`AreasDiffer`), and marking an order
changes no row's presence (`MarkStep`). The keys in memory are not needed: two runs of one
target do happen. The type of the state needs that runs have the stages of their kind and
mark orders (`StagesOK`). `ServicesTyped` adds the calls and tables of `ApiScopes`, operation by
operation; of the scopes the runs check nothing else that is safety.

### 4.5 Algorithms

`Algorithms_proofs` — of the assignment `AssignmentTyped`, `AssignedAreFounded`. The
invariant follows what a request knows from service to service (`EvidenceIsKnown`): of a platform
whose service has answered the evidence is among the labels seen since the request began, of the
others it is that of the audits; and a batch that is being assigned is settled as a whole
(`BatchIsSettled`). What changes meanwhile adds to what was seen and takes nothing away.

Of the policies `PoliciesTyped`, `NothingElseIsLeft`: rows, saves under way and what a reader has
collected name only carriers the warehouse may have (`AllowedOnly`), which is what a warehouse
without a row of capabilities relies on.

Of the planner `PlanCanBeCarriedOut`: units share no space, a package is exactly as long, wide and
high as its units reach and weighs what they weigh together, within the limits, and every unit is
planned once or reported. The weight is a sum over the units placed so far, one more with each step
(`WeightAdds`), and the reach a maximum that is attained (`MaxReached`). `PlanHasOneAnswer`: the units to place and the corners of
the packages stay finite, so there is a unit that comes first, and of the corners it fits at one that
comes first in the order of `betterCandidate`, component by component; no two corners tie in all of
them, since the last ones name the package and the corner.

Of the tracking `TrackingIsOneClassification`: both classifications are reduced to one reason and
one category of what the row then says, the one in Go by its early returns, the one in SQL by its
`CASE`s; silence in between changes neither. The answers and the ages are constants (`Replies`,
`Ages`): all that the proof asks of them is that ages are hours.

Of the decision `EveryDecisionIsSafe`, for any list of rules, any thresholds and any set of
questions: they are a constant (`StockQuestions`) of which the proof asks only the type of its
members (`StockOf`). The recommended warehouse is followed through the restrictions, each of which recommends
anew, back to an answer that was complete and to what the correction leaves of it.

Of the matching `MatchIsOneOfTheBest`, for every list of records, of any length and order. A pass is
a fold with the preference as its step; prefix by prefix its result is the best so far by
`ByPlace`, or `ByStatus` for the labels, and that is how the code's ties, which fall to the later
record or to the earlier, give a member of the set `Selected` defines.

`FiniteSetFacts` has what stands in for induction over data, which needs a parameter no installed
prover can instantiate: the subsets of a finite set have a smallest one among them (`SmallestSubset`,
from the well-foundedness of the strict subsets), so a highest element exists; a fold over a finite
set is a table of the folds over its subsets, and two tables agree (`FoldsAgree`,
`FoldTableExists`). From this come the sums of the claims, and the folds over sequences prefix by
prefix (`PrefixesFold`).

### 4.6 Only model-checked

Liveness: `CallsReturn`, `ShippedLeaves`, `ForwardCatchesUp`, `NeededIsCovered`,
`EveryCandidateIsTried`, `ConsoleReturns`, `PendingIsTried`, `ScopesSettle`. Their fairness is about
ENABLED, which is outside what the prover does. The three properties of section 5 are false of the
code and have no theorem.

## 5. Findings

1. `audits_tracked`: `store/fulfillment_audits.go:445-474` stores a stale status over a row
   a concurrent check has archived; the row then is in no list and no tracking queue.
2. `sync_seeded`: `migrations/001_init.sql:805-814`, replayed at every start, marks hours as
   read that no account was asked for once an older hour was backfilled.
3. `services_enabled`: `README.md:522` says that synchronisation reads enabled warehouses
   only; the cost scheduler (`cmd/server/cost_scheduler.go:75,109`) starts the cost details
   from the list it read before it waited for the funds flows, so a warehouse disabled
   meanwhile still gets its run.

Observations that are no findings: a claim that is extended may end a little earlier than
before (`now` is read at `inventory_reservations.go:49`, before the lock at `:69` is waited
for, and the UPDATE at `:105-109` writes the end it gives); the watermark of an account may
be carried past hours a failed forward read left out when a backfill saves a later hour
(`outbound_index.go:62`); after a restriction `WarehouseDecision` recommends a region even
when its query was incomplete, but the decision stays manual; `ForPlatform` alone may leave
an automatic decision with nothing to select; activating one shop's binding puts a paused
warehouse back in use for the other bindings of it that are still enabled; the import
decides with the switch of the shop as it was listed (`warehouse_management.go:253-280`); a
save needs a second connection while it holds one and a row
(`warehouse_management.go:55`), so it may end only by the deadlines of the reservations that hold
the others; a console request has no deadline itself, and reservations of its warehouse whose share
locks overlap without end would keep it, and every later one, waiting
(`warehouse_management.go:49`, `inventory_reservations.go:63`). Of the services: the lines of a
warehouse whose scope has failed, is pending or lists no SKU of it are not tried by the schedule
until it is ready again (`store/postgres.go:168-172`);
`all_active` starts two runs of one target for a warehouse with two credentials
(`syncer/service.go:50-56`), and whichever ends first releases the key of both; the lock of a
stock snapshot is of the warehouse (`store/inventory.go:39`), so of two credentials whose runs
meet one fails until the next pass; a stock run asked for by hand keeps its rows under an
empty credential key (`store/inventory.go:139`), beside those of the schedule; a refresh of a
scope that is answered with "the last successful data were kept"
(`httpapi/warehouse_api_credentials.go:104`, `README.md:520`) may have replaced them when only
the registration failed (`store/api_inventory_sync.go:58-61`); a credential may be deleted
between the check of its use and the deletion (`store/api_credentials.go:273-280`) although a
warehouse was registered with it meanwhile.

Of the OMS: `README.md:279` promises at most two concurrent searches per group of credentials,
but saving a login forgets the clients with their gates while their searches go on
(`httpapi/platform_order_accounts.go`, `forgetClients`), so two more may start with the new
client, as a request that read the account before the save may rebuild one for the old login; and
the new client logs in although a code is pending with the old one (compare the comment at
`oms/client.go:564`). `SetOMSAccount` enables an account that was disabled between the validation
and the save (`store/oms_accounts.go:115`). Two concurrent updates, or an update next to an
upgrade, save whichever comes last, which may be the older password; an upgrade that fails behind
the remote change leaves the old password saved, and a person has to enter the new one. Two
replacements of API credentials that take each other's may deadlock in PostgreSQL
(`store/fulfillment_accounts.go:84-127`), which ends one of them.

Of the assignment: a label bought again between the reading of the evidence and the call is
assigned to the old warehouse; the answer of a call that approved nothing but reported no error
counts as a success (`oms/client.go:522`). Of the policies: `CarrierPolicies` reads the base rules
and the carriers in separate queries, so an answer may be of two states; an override saved for an
SKU that becomes managed meanwhile stays, under the rules of the account;
`accountRulesForSKUs` does not ask whether the account or its credential is enabled; the
priorities of an account name seven of the eight carriers. Of the decision: asked without a shop
it may be `AUTO_SELECTION_READY` with no warehouse to ship from (a threshold of zero, or every
warehouse disabled by the platform; `temu/warehouse_decision.go:213`), since only
`ApplyShopWarehouseAvailability` looks; an absolute correction of a warehouse that answered
stands in for a SKU the answer does not name.

## 6. What is not modelled

In the modelled components: what the modules' own sections name as left out, above all the
normalisation of requests, listings, exports, names, texts and counts; of the OMS accounts the
binding of API credentials to an account (an event of `FulfillmentPolicies`); of the
policies priorities, prices and the warehouses disabled for an SKU (an input of
`LiveInventory`); of the corrections the alerts, which compute the figures of the decision from
the synchronised stock for a page.

As components: the outbound queries and the product pairings, which pass requests through and keep
no state; parsing, routing, encryption and data types (no control of their own); the stateless
HTTP clients, whose answers the models take from the whole set of possible ones; master data
replaced row by row in one transaction; the frontend, the legacy Python tool and the deployment,
which keep no state the service relies on.
