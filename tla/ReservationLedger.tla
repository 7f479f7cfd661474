--------------------------- MODULE ReservationLedger ---------------------------
(***************************************************************************)
(* What the inventory reservations of XLWMS promise their callers, with    *)
(* no transaction and no lock: one table of claims, changed by whole       *)
(* operations.  A claim is admitted only when it fits beside every claim   *)
(* the other orders hold on the same stock, a claim that has lapsed may be *)
(* set aside, and an order holds the claim of its last request only.       *)
(*                                                                         *)
(* InventoryReservations, the model of the code, implements this module.   *)
(***************************************************************************)
EXTENDS Integers, FiniteSets, FiniteSetsExt

CONSTANTS
  Warehouses,   \* wh_code
  Orders,       \* platform | shop_code | order_key
  Skus,         \* warehouse_sku
  Requests,     \* the normalised requests callers may send
  TTL           \* fulfillmentInventoryReservationTTL, in ticks of the clock

VARIABLES
  rows,         \* the committed table, one row per order and SKU
  clock

ledgerVars == <<rows, clock>>

NoRow == [status |-> "none", wh |-> CHOOSE w \in Warehouses : TRUE,
          qty |-> 0, avail |-> 0, expires |-> 0]

(* A row that claims nothing keeps no more than the way its claim ended. *)
Dead(status) == [NoRow EXCEPT !.status = status]

Active(row) == row.status = "active"

(* A claim the stock is no longer held for, once somebody sets it aside. *)
Lapsed(row) == Active(row) /\ row.expires <= clock

(* The quantity other orders claim of SKU s in warehouse w once the rows in E are set aside. *)
ClaimedByOthers(o, w, s, E) ==
  MapThenSumSet(LAMBDA p : rows[p][s].qty,
                {p \in Orders \ {o} : /\ Active(rows[p][s])
                                      /\ rows[p][s].wh = w
                                      /\ <<p, s>> \notin E})

SetAside(E) ==
  [o \in Orders |-> [s \in Skus |->
     IF <<o, s>> \in E THEN Dead("expired") ELSE rows[o][s]]]

LapsedClaims == {c \in Orders \X Skus : Lapsed(rows[c[1]][c[2]])}

Init ==
  /\ rows = [o \in Orders |-> [s \in Skus |-> NoRow]]
  /\ clock = 0

(* The whole claim of order o becomes that of request r, counted from the instant born. *)
Claim(o, r, E, born) ==
  /\ \A s \in r.skus : r.qty[s] + ClaimedByOthers(o, r.wh, s, E) <= r.avail[s]
  /\ rows' = [SetAside(E) EXCEPT ![o] = [s \in Skus |->
       IF s \in r.skus
       THEN [status |-> "active", wh |-> r.wh, qty |-> r.qty[s],
             avail |-> r.avail[s], expires |-> born + TTL]
       ELSE IF Active(SetAside(E)[o][s])
            THEN Dead("released")
            ELSE SetAside(E)[o][s]]]
  /\ UNCHANGED clock

(* The request order o already holds is repeated: its claim only gets a new end. *)
Extend(o, E, born) ==
  /\ \E s \in Skus : Active(SetAside(E)[o][s])
  /\ rows' = [SetAside(E) EXCEPT ![o] = [s \in Skus |->
       IF Active(SetAside(E)[o][s])
       THEN [SetAside(E)[o][s] EXCEPT !.expires = born + TTL]
       ELSE SetAside(E)[o][s]]]
  /\ UNCHANGED clock

Release(o) ==
  /\ rows' = [rows EXCEPT ![o] = [s \in Skus |->
       IF Active(rows[o][s]) THEN Dead("released") ELSE rows[o][s]]]
  /\ UNCHANGED clock

Tick ==
  /\ clock' = clock + 1
  /\ UNCHANGED rows

Next ==
  \/ \E o \in Orders, E \in SUBSET LapsedClaims, born \in 0 .. clock :
       \/ \E r \in Requests : Claim(o, r, E, born)
       \/ Extend(o, E, born)
  \/ \E o \in Orders : Release(o)
  \/ Tick

Spec == Init /\ [][Next]_ledgerVars
================================================================================
