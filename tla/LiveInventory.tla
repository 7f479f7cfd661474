------------------------------ MODULE LiveInventory ------------------------------
(***************************************************************************)
(* What a decision about a SKU rests on: the API scopes that hold the SKU, *)
(* the stock the warehouses answer through them, the corrections kept by   *)
(* hand and the limits, which come in three layers.  One question is what  *)
(* the tables hold and what XLWMS answers while it is asked.               *)
(***************************************************************************)
EXTENDS WarehouseDecision

CONSTANTS
  SkusAsked,  \* the SKUs of the request
  NoRow,      \* there is no correction, no threshold of the SKU
  NoShop,     \* the request names no shop
  Refused     \* the request fails

(* A SKU in the inventory of an API scope; ready when the scope, its account and the warehouse *)
(* are active and the inventory of the scope is complete; dropped when the warehouse of the    *)
(* fulfillment is disabled.                                                                     *)
Holding == [sku : SkusAsked, wh : Places, scope : STRING, ready : BOOLEAN, enabled : BOOLEAN]

(* Records of all pages; ok is FALSE when a page failed.  A record names its warehouse, or none. *)
Reply == [ok : BOOLEAN, records : Seq([sku : SkusAsked, wh : Places \cup {""}, amount : Nat])]

Correction == [mode : {"absolute", "subtract"}, amount : Nat]

--------------------------------------------------------------------------------
(* InventoryCredentialsForSKUs *)
Held(holdings, sku) == {h \in holdings : h.sku = sku /\ h.enabled}

(* A scope that is not ready, or two scopes with the SKU in one warehouse: a person decides. *)
Unclear(held) == \E h \in held : ~h.ready \/ \E g \in held \ {h} : g.wh = h.wh

Scopes(holdings, sku) == {[wh |-> h.wh, scope |-> h.scope] : h \in Held(holdings, sku)}

(* QueryScopedInventory: the SKUs with the same scopes are asked for together. *)
Batch(holdings, sku) == {s \in SkusAsked : Scopes(holdings, s) = Scopes(holdings, sku)}

(* queryWarehouse: a record of another warehouse, of any SKU of the batch, spoils the answer. *)
Misplaced(reply, batch, wh) ==
  \E i \in DOMAIN reply.records : reply.records[i].sku \in batch /\ reply.records[i].wh \notin {wh, ""}

Amount(reply, sku) ==
  MapThenSumSet(LAMBDA i : reply.records[i].amount,
                {i \in DOMAIN reply.records : reply.records[i].sku = sku})

StockAnswered(reply, batch, sku, wh) ==
  IF ~reply.ok \/ Misplaced(reply, batch, wh) THEN [query |-> "failed", amount |-> 0]
  ELSE [query |-> "succeeded", amount |-> Amount(reply, sku)]

(* QueryLiveInventory: a warehouse no scope leads to is not active. *)
LiveStock(asked, replies, batch, sku) ==
  [wh \in Places |-> IF wh \in asked THEN StockAnswered(replies[wh], batch, sku, wh)
                    ELSE [query |-> "inactive", amount |-> 0]]

(* QueryScopedInventory: it is out of scope where the SKU has another warehouse. *)
ScopedStock(holdings, replies, sku) ==
  LET asked == {s.wh : s \in Scopes(holdings, sku)}
      stock == LiveStock(asked, replies, Batch(holdings, sku), sku)
  IN [wh \in Places |-> IF stock[wh].query = "inactive" /\ asked # {}
                       THEN [query |-> "out_of_scope", amount |-> 0] ELSE stock[wh]]

(* correctedInventoryAmount *)
Corrected(amount, correction) ==
  IF correction.mode = "absolute" THEN correction.amount
  ELSE IF amount < correction.amount THEN 0 ELSE amount - correction.amount

(* ApplyInventoryCorrections: of an answer only. *)
WithCorrections(stock, corrections) ==
  [wh \in Places |->
     IF stock[wh].query # "succeeded" \/ corrections[wh] = NoRow THEN stock[wh]
     ELSE [stock[wh] EXCEPT !.amount = Corrected(@, corrections[wh])]]

(* accountRulesForSKUs: a SKU in the scopes of two accounts with rules has none. *)
Conflicting(accountRules) == Cardinality(accountRules) > 1

(* InventoryThresholdsForPlatformSKUs: the rules of the account that holds the SKU go before  *)
(* the thresholds of the SKU, those before the defaults of the platform.                      *)
LimitsFor(defaults, own, accountRules) ==
  IF accountRules # {} THEN CHOOSE rules \in accountRules : TRUE
  ELSE IF own # NoRow THEN own ELSE defaults

(* temuWarehouseAvailability, for one SKU of the request *)
Availability(q, sku) ==
  IF (\E s \in SkusAsked : Unclear(Held(q.holdings, s))) \/ Conflicting(q.accountRules)
  THEN Refused
  ELSE LET stock == WithCorrections(ScopedStock(q.holdings, q.replies, sku), q.corrections)
           limits == LimitsFor(q.defaults, q.own, q.accountRules)
           decision == ForPlatform(Decision(stock, limits), q.disabled)
       IN IF q.shop = NoShop THEN decision ELSE ForShop(decision, q.shop)
================================================================================
