------------------------- MODULE InventoryReservations -------------------------
(***************************************************************************)
(* The inventory reservations of internal/store/inventory_reservations.go: *)
(* concurrent ReserveFulfillmentInventory and ReleaseFulfillmentInventory  *)
(* calls, each one a READ COMMITTED transaction of PostgreSQL.             *)
(*                                                                         *)
(* One action is one statement of the transaction.  What makes the code    *)
(* hard is between them: `now' is read before any lock is waited for, the  *)
(* order and the resources are guarded by advisory locks, an UPDATE waits  *)
(* for the rows another transaction has written, writes become visible at  *)
(* commit only, and a call can die anywhere and roll back.                 *)
(*                                                                         *)
(* A resource is a pair <<warehouse, SKU>>; a request is one that          *)
(* normalizeInventoryReservation has accepted: each SKU of it once, with a *)
(* positive quantity and the least stock observed for it.                  *)
(***************************************************************************)
EXTENDS Integers, FiniteSets, FiniteSetsExt

CONSTANTS
  Calls,        \* slots for concurrent calls, each a transaction
  Orders,       \* platform | shop_code | order_key
  Warehouses,   \* wh_code, with its warehouse_key
  Skus,         \* warehouse_sku
  Requests,     \* the normalised requests callers may send
  Rank,         \* the place of a resource in the sorted list of lock keys
  TTL,          \* fulfillmentInventoryReservationTTL, in ticks of the clock
  MaxClock,     \* bound of the model: the clock stops here
  Pausable,     \* bound of the model: the warehouses that are paused and activated
  NoOrder, NoRequest, NoWrite

Resources == Warehouses \X Skus

ASSUME RequestsAssumption ==
  \A r \in Requests :
    /\ r.wh \in Warehouses
    /\ r.skus \in SUBSET Skus /\ r.skus # {}
    /\ r.qty \in [Skus -> Nat] /\ \A s \in r.skus : r.qty[s] > 0
    /\ r.avail \in [Skus -> Nat]

ASSUME RankAssumption ==
  /\ Rank \in [Resources -> Nat]
  /\ \A x, y \in Resources : Rank[x] = Rank[y] => x = y

ASSUME TimeAssumption == TTL \in Nat \ {0} /\ MaxClock \in Nat

ASSUME NoneAssumption ==
  NoOrder \notin Orders /\ NoRequest \notin Requests /\ Warehouses # {}

VARIABLES
  rows,         \* [Orders -> [Skus -> Row]]: the committed table
  effective,    \* [Warehouses -> BOOLEAN]: the binding, shop and warehouse are all in use
  clock,        \* the wall clock every call reads
  pc,           \* [Calls -> Step]: the statement a call is about to run
  op,           \* [Calls -> {"none", "reserve", "release"}]
  order,        \* [Calls -> Orders \cup {NoOrder}]
  request,      \* [Calls -> Requests \cup {NoRequest}]
  now,          \* [Calls -> Nat]: time.Now() at the entry of the call
  todo,         \* [Calls -> SUBSET Resources]: the resources not yet locked and swept
  held,         \* [Calls -> SUBSET Resources]: the advisory resource locks
  pend,         \* [Calls -> [Orders -> [Skus -> Row \cup {NoWrite}]]]: uncommitted writes
  weighed,      \* history: what the capacity check of the call counted, per SKU
  weighedFor,   \* history: what the check that admitted a row counted
  basket        \* history: the SKUs of the request that last made or extended an order's claim

callVars == <<pc, op, order, request, now, todo, held, pend, weighed>>
vars == <<rows, effective, clock, callVars, weighedFor, basket>>

--------------------------------------------------------------------------------
(* Rows, and what a transaction sees of them *)

Statuses == {"none", "active", "released", "expired"}

Row == [status : Statuses, wh : Warehouses, qty : Nat, avail : Nat, expires : Nat]

Step == {"idle", "binding", "orderLock", "expireOrder", "resourceLock", "expireResource",
         "decide", "replace", "release", "commit", "commitClaim"}

NoRow == [status |-> "none", wh |-> CHOOSE w \in Warehouses : TRUE,
          qty |-> 0, avail |-> 0, expires |-> 0]

ASSUME NoWriteAssumption == NoWrite \notin Row

(* Every statement asks for status='active': what else a dead row holds is never read again. *)
Dead(status) == [NoRow EXCEPT !.status = status]

NoWrites == [o \in Orders |-> [s \in Skus |-> NoWrite]]

Active(row) == row.status = "active"

(* READ COMMITTED: the committed rows under the transaction's own writes. *)
View(t, o, s) == IF pend[t][o][s] # NoWrite THEN pend[t][o][s] ELSE rows[o][s]

(* A written row stays locked until its writer ends. *)
RowLocked(t, o, s) == \E u \in Calls \ {t} : pend[u][o][s] # NoWrite

(* The rows an UPDATE of call t matches, by order and SKU. *)
OwnLapsed(t) ==
  {c \in Orders \X Skus : /\ c[1] = order[t]
                          /\ Active(View(t, c[1], c[2]))
                          /\ View(t, c[1], c[2]).expires <= now[t]}

OwnActive(t) ==
  {c \in Orders \X Skus : c[1] = order[t] /\ Active(View(t, c[1], c[2]))}

(* Mutant: the sweep of a resource was dropped. *)
SweepOfNothing(t, res) == {}

(* Mutant: the sweep forgot the condition on expires_at. *)
SweepOfEverything(t, res) ==
  {c \in Orders \X Skus : /\ c[1] # order[t] /\ c[2] = res[2]
                          /\ View(t, c[1], c[2]).wh = res[1]
                          /\ Active(View(t, c[1], c[2]))}

LapsedOn(t, res) ==
  {c \in Orders \X Skus : /\ c[2] = res[2]
                          /\ View(t, c[1], c[2]).wh = res[1]
                          /\ Active(View(t, c[1], c[2]))
                          /\ View(t, c[1], c[2]).expires <= now[t]}

(* loadActiveOrderReservations *)
LoadActive(t) ==
  {s \in Skus : Active(View(t, order[t], s)) /\ View(t, order[t], s).expires > now[t]}

(* reservationResources: what the request claims and what the order holds now. *)
ReservationResources(t) ==
  {<<request[t].wh, s>> : s \in request[t].skus}
    \cup {<<View(t, order[t], s).wh, s>> : s \in LoadActive(t)}

(* sameInventoryReservation *)
SameReservation(t) ==
  /\ LoadActive(t) = request[t].skus
  /\ \A s \in request[t].skus : /\ View(t, order[t], s).wh = request[t].wh
                                /\ View(t, order[t], s).qty = request[t].qty[s]

(* The rows the capacity SELECT sums for SKU s: order and quantity. *)
ReservedByOthers(t, s) ==
  {<<o, View(t, o, s).qty>> : o \in
     {p \in Orders \ {order[t]} : /\ Active(View(t, p, s))
                                  /\ View(t, p, s).wh = request[t].wh
                                  /\ View(t, p, s).expires > now[t]}}

Quantity(pairs) == MapThenSumSet(LAMBDA p : p[2], pairs)

(* Mutant: the capacity check compares with the observation alone. *)
FitsObservation(t) == \A s \in request[t].skus : request[t].qty[s] <= request[t].avail[s]

Fits(t) ==
  \A s \in request[t].skus :
    request[t].qty[s] <= request[t].avail[s] - Quantity(ReservedByOthers(t, s))

(* An UPDATE or an upsert of the rows in C: the new value by SKU. *)
Write(t, C, new) ==
  pend' = [pend EXCEPT ![t] = [o \in Orders |-> [s \in Skus |->
             IF <<o, s>> \in C THEN new[s] ELSE pend[t][o][s]]]]

AllFree(t, C) == \A c \in C : ~RowLocked(t, c[1], c[2])

--------------------------------------------------------------------------------
(* Locks *)

(* Every statement behind the order lock runs with it, up to the end of the transaction. *)
HasOrderLock(t) == pc[t] \notin {"idle", "binding", "orderLock"}

(* Mutant: the SELECT of the binding lost its FOR SHARE. *)
SharesNothing(t, w) == FALSE

(* FOR SHARE OF the binding, the warehouse, the shop: held from the check to the end. *)
SharesBinding(t, w) ==
  op[t] = "reserve" /\ pc[t] \notin {"idle", "binding"} /\ request[t].wh = w

(* Mutant: pg_advisory_lock, which outlives the transaction, in place of the xact form. *)
EndKeepingLocks(t) ==
  /\ pc' = [pc EXCEPT ![t] = "idle"]
  /\ op' = [op EXCEPT ![t] = "none"]
  /\ order' = [order EXCEPT ![t] = NoOrder]
  /\ request' = [request EXCEPT ![t] = NoRequest]
  /\ now' = [now EXCEPT ![t] = 0]
  /\ todo' = [todo EXCEPT ![t] = {}]
  /\ held' = held
  /\ pend' = [pend EXCEPT ![t] = NoWrites]
  /\ weighed' = [weighed EXCEPT ![t] = [s \in Skus |-> {}]]

(* The end of a transaction gives every lock back and the call returns. *)
End(t) ==
  /\ pc' = [pc EXCEPT ![t] = "idle"]
  /\ op' = [op EXCEPT ![t] = "none"]
  /\ order' = [order EXCEPT ![t] = NoOrder]
  /\ request' = [request EXCEPT ![t] = NoRequest]
  /\ now' = [now EXCEPT ![t] = 0]
  /\ todo' = [todo EXCEPT ![t] = {}]
  /\ held' = [held EXCEPT ![t] = {}]
  /\ pend' = [pend EXCEPT ![t] = NoWrites]
  /\ weighed' = [weighed EXCEPT ![t] = [s \in Skus |-> {}]]

Goto(t, step) == pc' = [pc EXCEPT ![t] = step]

--------------------------------------------------------------------------------
Init ==
  /\ rows = [o \in Orders |-> [s \in Skus |-> NoRow]]
  /\ effective = [w \in Warehouses |-> TRUE]
  /\ clock = 0
  /\ pc = [t \in Calls |-> "idle"]
  /\ op = [t \in Calls |-> "none"]
  /\ order = [t \in Calls |-> NoOrder]
  /\ request = [t \in Calls |-> NoRequest]
  /\ now = [t \in Calls |-> 0]
  /\ todo = [t \in Calls |-> {}]
  /\ held = [t \in Calls |-> {}]
  /\ pend = [t \in Calls |-> NoWrites]
  /\ weighed = [t \in Calls |-> [s \in Skus |-> {}]]
  /\ weighedFor = [o \in Orders |-> [s \in Skus |-> {}]]
  /\ basket = [o \in Orders |-> {}]

--------------------------------------------------------------------------------
(* ReserveFulfillmentInventory *)

(* now := time.Now(); the request is normalised and the transaction begins. *)
StartReserve(t, o, r) ==
  /\ pc[t] = "idle"
  /\ Goto(t, "binding")
  /\ op' = [op EXCEPT ![t] = "reserve"]
  /\ order' = [order EXCEPT ![t] = o]
  /\ request' = [request EXCEPT ![t] = r]
  /\ now' = [now EXCEPT ![t] = clock]
  /\ UNCHANGED <<rows, effective, clock, todo, held, pend, weighed, weighedFor, basket>>

(* SELECT ... FOR SHARE OF b,f,s,w finds the warehouse in use for the shop. *)
ShareBinding(t) ==
  /\ pc[t] = "binding"
  /\ effective[request[t].wh]
  /\ Goto(t, "orderLock")
  /\ UNCHANGED <<rows, effective, clock, op, order, request, now, todo, held, pend,
                 weighed, weighedFor, basket>>

RefusePaused(t) ==
  /\ pc[t] = "binding"
  /\ ~effective[request[t].wh]
  /\ End(t)
  /\ UNCHANGED <<rows, effective, clock, weighedFor, basket>>

(* Mutant: the calls of one order are not serialised. *)
LockOrderUnguarded(t) ==
  /\ pc[t] = "orderLock"
  /\ Goto(t, IF op[t] = "reserve" THEN "expireOrder" ELSE "release")
  /\ UNCHANGED <<rows, effective, clock, op, order, request, now, todo, held, pend,
                 weighed, weighedFor, basket>>

(* pg_advisory_xact_lock of the order; both operations take it. *)
LockOrder(t) ==
  /\ pc[t] = "orderLock"
  /\ \A u \in Calls \ {t} : ~(HasOrderLock(u) /\ order[u] = order[t])
  /\ Goto(t, IF op[t] = "reserve" THEN "expireOrder" ELSE "release")
  /\ UNCHANGED <<rows, effective, clock, op, order, request, now, todo, held, pend,
                 weighed, weighedFor, basket>>

(* The order's own lapsed rows are expired, then its claim is loaded: its resources and *)
(* those of the request are the ones to lock.                                           *)
ExpireOrder(t) ==
  /\ pc[t] = "expireOrder"
  /\ AllFree(t, OwnLapsed(t))
  /\ Write(t, OwnLapsed(t), [s \in Skus |-> Dead("expired")])
  /\ todo' = [todo EXCEPT ![t] = ReservationResources(t)]
  /\ Goto(t, "resourceLock")
  /\ UNCHANGED <<rows, effective, clock, op, order, request, now, held,
                 weighed, weighedFor, basket>>

(* Mutant: the resources are locked in any order. *)
AnyResource(t, res) == res \in todo[t]

(* The next resource of the sorted list; nobody else may hold its advisory lock. *)
NextResource(t, res) ==
  res \in todo[t] /\ \A other \in todo[t] : Rank[res] <= Rank[other]

(* Mutant: the resource lock excludes nobody. *)
LockResourceUnguarded(t) ==
  /\ pc[t] = "resourceLock"
  /\ \E res \in todo[t] : NextResource(t, res) /\ held' = [held EXCEPT ![t] = @ \cup {res}]
  /\ Goto(t, "expireResource")
  /\ UNCHANGED <<rows, effective, clock, op, order, request, now, todo, pend,
                 weighed, weighedFor, basket>>

LockResource(t) ==
  /\ pc[t] = "resourceLock"
  /\ \E res \in todo[t] :
       /\ NextResource(t, res)
       /\ \A u \in Calls \ {t} : res \notin held[u]
       /\ held' = [held EXCEPT ![t] = @ \cup {res}]
  /\ Goto(t, "expireResource")
  /\ UNCHANGED <<rows, effective, clock, op, order, request, now, todo, pend,
                 weighed, weighedFor, basket>>

(* Every lapsed row of the resource just locked is expired, whoever's order it is. *)
ExpireResource(t) ==
  /\ pc[t] = "expireResource"
  /\ \E res \in todo[t] \cap held[t] :
       /\ AllFree(t, LapsedOn(t, res))
       /\ Write(t, LapsedOn(t, res), [s \in Skus |-> Dead("expired")])
       /\ todo' = [todo EXCEPT ![t] = @ \ {res}]
       /\ Goto(t, IF todo[t] = {res} THEN "decide" ELSE "resourceLock")
  /\ UNCHANGED <<rows, effective, clock, op, order, request, now, held,
                 weighed, weighedFor, basket>>

(* The same claim again: only its end moves, to 24 hours after `now'. *)
Extend(t) ==
  /\ pc[t] = "decide"
  /\ SameReservation(t)
  /\ AllFree(t, OwnActive(t))
  /\ Write(t, OwnActive(t), [s \in Skus |->
       [View(t, order[t], s) EXCEPT !.expires = now[t] + TTL]])
  /\ Goto(t, "commit")
  /\ UNCHANGED <<rows, effective, clock, op, order, request, now, todo, held,
                 weighed, weighedFor, basket>>

(* Every item fits in what was observed less what the other orders hold. *)
Weigh(t) ==
  /\ pc[t] = "decide"
  /\ ~SameReservation(t)
  /\ Fits(t)
  /\ weighed' = [weighed EXCEPT ![t] = [s \in Skus |->
                   IF s \in request[t].skus THEN ReservedByOthers(t, s) ELSE {}]]
  /\ Goto(t, "replace")
  /\ UNCHANGED <<rows, effective, clock, op, order, request, now, todo, held, pend,
                 weighedFor, basket>>

(* InventoryReservationCapacityError: the transaction rolls back. *)
RefuseCapacity(t) ==
  /\ pc[t] = "decide"
  /\ ~SameReservation(t)
  /\ ~Fits(t)
  /\ End(t)
  /\ UNCHANGED <<rows, effective, clock, weighedFor, basket>>

(* Mutant: the end of the claim is on the wrong side of `now'. *)
BackdatedRow(t, s) ==
  [status |-> "active", wh |-> request[t].wh, qty |-> request[t].qty[s],
   avail |-> request[t].avail[s], expires |-> now[t] - TTL]

(* The claim the call writes for SKU s of its order. *)
ClaimedRow(t, s) ==
  [status |-> "active", wh |-> request[t].wh, qty |-> request[t].qty[s],
   avail |-> request[t].avail[s], expires |-> now[t] + TTL]

RequestedRows(t) == {<<order[t], s>> : s \in request[t].skus}

(* Mutant: the upsert was thought to make the release of the old rows superfluous. *)
UpsertOnly(t) ==
  /\ pc[t] = "replace"
  /\ AllFree(t, RequestedRows(t))
  /\ Write(t, RequestedRows(t), [s \in Skus |-> ClaimedRow(t, s)])
  /\ Goto(t, "commitClaim")
  /\ UNCHANGED <<rows, effective, clock, op, order, request, now, todo, held,
                 weighed, weighedFor, basket>>

(* The old claim is released and the new one upserted over the same keys. *)
Replace(t) ==
  /\ pc[t] = "replace"
  /\ AllFree(t, OwnActive(t) \cup RequestedRows(t))
  /\ Write(t, OwnActive(t) \cup RequestedRows(t), [s \in Skus |->
       IF s \in request[t].skus THEN ClaimedRow(t, s) ELSE Dead("released")])
  /\ Goto(t, "commitClaim")
  /\ UNCHANGED <<rows, effective, clock, op, order, request, now, todo, held,
                 weighed, weighedFor, basket>>

--------------------------------------------------------------------------------
(* ReleaseFulfillmentInventory *)

StartRelease(t, o) ==
  /\ pc[t] = "idle"
  /\ Goto(t, "orderLock")
  /\ op' = [op EXCEPT ![t] = "release"]
  /\ order' = [order EXCEPT ![t] = o]
  /\ UNCHANGED <<rows, effective, clock, request, now, todo, held, pend, weighed,
                 weighedFor, basket>>

(* The UPDATE takes no resource lock and does not ask whether a row has lapsed. *)
ReleaseRows(t) ==
  /\ pc[t] = "release"
  /\ AllFree(t, OwnActive(t))
  /\ Write(t, OwnActive(t), [s \in Skus |-> Dead("released")])
  /\ Goto(t, "commit")
  /\ UNCHANGED <<rows, effective, clock, op, order, request, now, todo, held,
                 weighed, weighedFor, basket>>

--------------------------------------------------------------------------------
(* The end of a transaction *)

(* COMMIT makes the call's writes visible and frees its locks.  The history of a row, what *)
(* it was weighed against and the SKUs asked for with it, ends when its claim does.         *)
Publish(t) ==
  /\ rows' = [o \in Orders |-> [s \in Skus |-> View(t, o, s)]]
  /\ weighedFor' = [o \in Orders |-> [s \in Skus |->
       IF ~Active(View(t, o, s)) THEN {}
       ELSE IF pc[t] = "commitClaim" /\ o = order[t] THEN weighed[t][s] ELSE weighedFor[o][s]]]
  /\ basket' = [o \in Orders |->
       IF \A s \in Skus : ~Active(View(t, o, s)) THEN {}
       ELSE IF op[t] = "reserve" /\ o = order[t] THEN request[t].skus ELSE basket[o]]

Commit(t) ==
  /\ pc[t] \in {"commit", "commitClaim"}
  /\ Publish(t)
  /\ End(t)
  /\ UNCHANGED <<effective, clock>>

(* A deadline, a lost connection, a restart or a deadlock victim: everything rolls back. *)
Abort(t) ==
  /\ pc[t] # "idle"
  /\ End(t)
  /\ UNCHANGED <<rows, effective, clock, weighedFor, basket>>
--------------------------------------------------------------------------------
(* The world around the calls *)

(* Pausing the warehouse, the shop or the binding writes a row the calls share, so it waits. *)
Pause(w) ==
  /\ effective[w]
  /\ \A t \in Calls : ~SharesBinding(t, w)
  /\ effective' = [effective EXCEPT ![w] = FALSE]
  /\ UNCHANGED <<rows, clock, callVars, weighedFor, basket>>

Activate(w) ==
  /\ ~effective[w]
  /\ effective' = [effective EXCEPT ![w] = TRUE]
  /\ UNCHANGED <<rows, clock, callVars, weighedFor, basket>>

Tick ==
  /\ clock < MaxClock
  /\ clock' = clock + 1
  /\ UNCHANGED <<rows, effective, callVars, weighedFor, basket>>

--------------------------------------------------------------------------------
(* Who waits for whom *)

WaitsForAdvisory(t, u) ==
  \/ pc[t] = "orderLock" /\ HasOrderLock(u) /\ order[u] = order[t]
  \/ pc[t] = "resourceLock" /\ \E res \in todo[t] : NextResource(t, res) /\ res \in held[u]

(* The rows the next statement of call t writes. *)
Target(t) ==
  CASE pc[t] = "expireOrder" -> OwnLapsed(t)
    [] pc[t] = "expireResource" -> UNION {LapsedOn(t, res) : res \in todo[t] \cap held[t]}
    [] pc[t] = "decide" /\ SameReservation(t) -> OwnActive(t)
    [] pc[t] = "replace" -> OwnActive(t) \cup RequestedRows(t)
    [] pc[t] = "release" -> OwnActive(t)
    [] OTHER -> {}

WaitsForRow(t, u) == \E c \in Target(t) : pend[u][c[1]][c[2]] # NoWrite

WaitsFor(t, u) == t # u /\ (WaitsForAdvisory(t, u) \/ WaitsForRow(t, u))

(* A set of calls each of which waits for another of them never moves again by itself. *)
Deadlocked(C) == C # {} /\ \A t \in C : \E u \in C : WaitsFor(t, u)

(* PostgreSQL finds such a set after deadlock_timeout and makes one of them the victim. *)
BreakDeadlock == \E C \in SUBSET Calls : Deadlocked(C) /\ \E t \in C : Abort(t)

--------------------------------------------------------------------------------
Reserve(t) ==
  \/ \E o \in Orders, r \in Requests : StartReserve(t, o, r)
  \/ ShareBinding(t) \/ RefusePaused(t)
  \/ ExpireOrder(t) \/ LockResource(t) \/ ExpireResource(t)
  \/ Extend(t) \/ Weigh(t) \/ RefuseCapacity(t) \/ Replace(t)

ReleaseCall(t) == (\E o \in Orders : StartRelease(t, o)) \/ ReleaseRows(t)

Next ==
  \/ \E t \in Calls :
       Reserve(t) \/ ReleaseCall(t) \/ LockOrder(t) \/ Commit(t) \/ Abort(t)
  \/ \E w \in Pausable : Pause(w) \/ Activate(w)
  \/ Tick

Spec == Init /\ [][Next]_vars

(* A call that can run its next statement runs it: the server's goroutine is scheduled and *)
(* PostgreSQL grants a lock in the order it was asked for.                                 *)
Proceed(t) ==
  \/ ShareBinding(t) \/ RefusePaused(t) \/ LockOrder(t)
  \/ ExpireOrder(t) \/ LockResource(t) \/ ExpireResource(t)
  \/ Extend(t) \/ Weigh(t) \/ RefuseCapacity(t) \/ Replace(t)
  \/ ReleaseRows(t) \/ Commit(t)

Fairness ==
  /\ \A t \in Calls : SF_vars(Proceed(t))
  /\ WF_vars(BreakDeadlock)

FairSpec == Spec /\ Fairness
--------------------------------------------------------------------------------
(* Properties *)

TypeOK ==
  /\ rows \in [Orders -> [Skus -> Row]]
  /\ effective \in [Warehouses -> BOOLEAN]
  /\ clock \in Nat
  /\ pc \in [Calls -> Step]
  /\ op \in [Calls -> {"none", "reserve", "release"}]
  /\ order \in [Calls -> Orders \cup {NoOrder}]
  /\ request \in [Calls -> Requests \cup {NoRequest}]
  /\ now \in [Calls -> Nat]
  /\ todo \in [Calls -> SUBSET Resources]
  /\ held \in [Calls -> SUBSET Resources]
  /\ pend \in [Calls -> [Orders -> [Skus -> Row \cup {NoWrite}]]]
  /\ weighed \in [Calls -> [Skus -> SUBSET (Orders \X Nat)]]
  /\ weighedFor \in [Orders -> [Skus -> SUBSET (Orders \X Nat)]]
  /\ basket \in [Orders -> SUBSET Skus]

Holders(w, s) == {o \in Orders : Active(rows[o][s]) /\ rows[o][s].wh = w}

(* README.md:215, shops share the capacity of wh_code + warehouse_sku: whatever the orders *)
(* that hold a claim on one stock, all of it together is at most what one of them saw      *)
(* available, in spite of late `now's, claims replaced in between and lapsed rows.         *)
NoOversell ==
  \A w \in Warehouses, s \in Skus : Holders(w, s) # {} =>
    \E o \in Holders(w, s) :
      MapThenSumSet(LAMBDA p : rows[p][s].qty, Holders(w, s)) <= rows[o][s].avail

(* Of two orders with a claim on one stock, the one admitted later was weighed against the *)
(* claim the other still has, at the quantity it still has: no check used a stale table.   *)
LaterWeighedEarlier ==
  \A o, p \in Orders, s \in Skus :
    (o # p /\ Active(rows[o][s]) /\ Active(rows[p][s]) /\ rows[o][s].wh = rows[p][s].wh) =>
      \/ <<o, rows[o][s].qty>> \in weighedFor[p][s]
      \/ <<p, rows[p][s].qty>> \in weighedFor[o][s]

(* While a claim has not lapsed every SKU of the request it was made with is still claimed, *)
(* in the same warehouse and with the same end: the sweeps of other orders, a replacement   *)
(* and an extension never leave half of it.                                                 *)
LiveClaimIsWhole ==
  \A o \in Orders, s \in Skus : (Active(rows[o][s]) /\ rows[o][s].expires > clock) =>
    /\ s \in basket[o]
    /\ \A other \in basket[o] : /\ Active(rows[o][other])
                                /\ rows[o][other].wh = rows[o][s].wh
                                /\ rows[o][other].expires = rows[o][s].expires

(* docs/houston-atlanta-warehouse-design.md:179: once a pause is saved no call, not even one *)
(* that was past its check, makes or prolongs a claim in the paused warehouse.               *)
PausedTakesNoClaim ==
  [][\A o \in Orders, s \in Skus :
       (rows'[o][s] # rows[o][s] /\ Active(rows'[o][s])) => effective[rows'[o][s].wh]]_vars

(* Calls deadlock only through a row one of them swept: the advisory locks are taken in one *)
(* order, so no set of calls waits in a circle on advisory locks alone.                     *)
NoAdvisoryDeadlock ==
  \A C \in SUBSET Calls : C # {} =>
    \E t \in C : \A u \in C : ~(t # u /\ WaitsForAdvisory(t, u))

(* A claim leaves the table only through its own order or after its end has passed: no call *)
(* of another order sets aside a claim that is still running.                               *)
OnlyLapsedSwept ==
  [][\A o \in Orders, s \in Skus :
       (Active(rows[o][s]) /\ rows'[o][s].status = "expired") => rows[o][s].expires <= clock]_vars

(* The code keeps the promise of the abstract ledger: every commit is one atomic claim, *)
(* extension or release that the ledger allows at that instant.                         *)
Ledger == INSTANCE ReservationLedger
            WITH Warehouses <- Warehouses, Orders <- Orders, Skus <- Skus, Requests <- Requests,
                 TTL <- TTL, rows <- rows, clock <- clock

ImplementsLedger == Ledger!Spec

(* Every call returns, also out of a deadlock. *)
CallsReturn == \A t \in Calls : pc[t] # "idle" ~> pc[t] = "idle"
--------------------------------------------------------------------------------
(* The inductive invariant: what the locks guarantee each call, one part at a time *)

(* Past the resource locks: the claim is being decided, written or committed. *)
Swept(t) == pc[t] \in {"decide", "replace", "commitClaim"}

OrderLockExclusive ==
  \A t, u \in Calls : (t # u /\ HasOrderLock(t) /\ HasOrderLock(u)) => order[t] # order[u]

ResourceLockExclusive == \A t, u \in Calls : t # u => held[t] \cap held[u] = {}

RowLockExclusive ==
  \A t, u \in Calls, o \in Orders, s \in Skus :
    t # u => (pend[t][o][s] = NoWrite \/ pend[u][o][s] = NoWrite)

(* Each step of a call runs with the arguments and the locks its path has collected. *)
PathOf(t) ==
  /\ pc[t] # "idle" => order[t] \in Orders
  /\ ~HasOrderLock(t) => pend[t] = NoWrites /\ held[t] = {}
  /\ pc[t] \in {"expireOrder", "release"} => pend[t] = NoWrites /\ held[t] = {}
  /\ (pc[t] \notin {"idle", "orderLock", "release", "commit"}) => op[t] = "reserve"
  /\ op[t] = "reserve" => request[t] \in Requests
  /\ op[t] = "reserve" /\ pc[t] \notin {"idle", "binding"} => effective[request[t].wh]
  /\ now[t] <= clock

(* Every stock the request claims is locked before the decision. *)
RequestLocked(t) ==
  /\ pc[t] \in {"resourceLock", "expireResource"} =>
       \A s \in request[t].skus : <<request[t].wh, s>> \in todo[t] \cup held[t]
  /\ Swept(t) => /\ todo[t] = {}
                 /\ \A s \in request[t].skus : <<request[t].wh, s>> \in held[t]

(* The rows swept so far: of a locked resource no active row but the order's own has lapsed. *)
SweptClean(t) ==
  \A o \in Orders, s \in Skus :
    ( /\ pc[t] \in {"resourceLock", "expireResource", "decide", "replace", "commitClaim"}
      /\ o # order[t]
      /\ <<rows[o][s].wh, s>> \in held[t] \ todo[t]
      /\ Active(View(t, o, s)) ) => rows[o][s].expires > now[t]

(* The call's own claim, once its lapsed rows are expired, is not lapsed for the call. *)
OwnUnlapsed(t) ==
  pc[t] \in {"resourceLock", "expireResource", "decide"} =>
    \A s \in Skus : Active(View(t, order[t], s)) => View(t, order[t], s).expires > now[t]

(* What a call may have written: foreign rows are only expired, and only when lapsed; a *)
(* claim is written under its resource lock, at the end.                                *)
WritesOf(t) ==
  \A o \in Orders, s \in Skus : pend[t][o][s] # NoWrite =>
    /\ o # order[t] => pend[t][o][s].status = "expired"
    /\ (pend[t][o][s].status = "expired" /\ Active(rows[o][s])) => rows[o][s].expires <= now[t]
    /\ Active(pend[t][o][s]) =>
         /\ pc[t] \in {"commit", "commitClaim"} /\ op[t] = "reserve"
         /\ pend[t][o][s].wh = request[t].wh
         /\ <<request[t].wh, s>> \in held[t]
    /\ (Active(pend[t][o][s]) /\ pc[t] = "commit") =>
         /\ Active(rows[o][s])
         /\ rows[o][s].wh = pend[t][o][s].wh /\ rows[o][s].qty = pend[t][o][s].qty

(* Past the capacity check every other claim on the stock is among those that were weighed. *)
WeighedAll(t) ==
  pc[t] \in {"replace", "commitClaim"} =>
    \A o \in Orders, s \in request[t].skus :
      (o # order[t] /\ Active(View(t, o, s)) /\ View(t, o, s).wh = request[t].wh) =>
        <<o, View(t, o, s).qty>> \in weighed[t][s]

(* A new claim replaces the whole of the old one. *)
ReplacedAll(t) ==
  pc[t] = "commitClaim" =>
    \A s \in Skus : Active(View(t, order[t], s)) =>
      s \in request[t].skus /\ pend[t][order[t]][s] # NoWrite

CallInv(t) ==
  /\ PathOf(t)
  /\ RequestLocked(t)
  /\ SweptClean(t)
  /\ OwnUnlapsed(t)
  /\ WritesOf(t)
  /\ WeighedAll(t)
  /\ ReplacedAll(t)

IInv ==
  /\ TypeOK
  /\ OrderLockExclusive
  /\ ResourceLockExclusive
  /\ RowLockExclusive
  /\ \A t \in Calls : CallInv(t)
  /\ LaterWeighedEarlier
================================================================================
