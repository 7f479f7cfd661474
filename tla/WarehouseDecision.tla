---------------------------- MODULE WarehouseDecision ----------------------------
(***************************************************************************)
(* From which warehouses an order may be shipped, and which one is         *)
(* recommended: internal/temu/warehouse_decision.go.  The decision is      *)
(* built from what LiveInventory.tla says of the                           *)
(* inventory of the SKU, then the warehouses the platform forbids for the  *)
(* SKU and those the shop does not use are taken out.                      *)
(***************************************************************************)
EXTENDS Integers, Sequences, FiniteSetsExt

CONSTANTS
  Rules,         \* warehouseRules: a sequence of [wh, region, preferred]
  NoChoice       \* no warehouse is recommended

Places == {Rules[i].wh : i \in DOMAIN Rules}
Regions == {Rules[i].region : i \in DOMAIN Rules}

ASSUME RulesAssumption ==
  /\ Rules \in Seq([wh : Places, region : Regions, preferred : BOOLEAN])
  /\ \A i, j \in DOMAIN Rules : Rules[i].wh = Rules[j].wh => i = j
  /\ \A i, j \in DOMAIN Rules :
       (Rules[i].region = Rules[j].region /\ Rules[i].preferred /\ Rules[j].preferred) => i = j
  /\ NoChoice \notin Places

(* What is known of a SKU in a warehouse; an inactive warehouse was not asked. *)
Stock == [query : {"out_of_scope", "inactive", "failed", "succeeded"}, amount : Int]

Code == {"AUTO_SELECTION_READY", "MANUAL_INVENTORY_QUERY_INCOMPLETE", "MANUAL_LOW_TOTAL_STOCK",
         "MANUAL_SHOP_WAREHOUSE_UNAVAILABLE"}

--------------------------------------------------------------------------------
(* The limits of a SKU: the warehouses that count, if named, and the stock to keep. *)

(* BuildSKUDecision: the inventory within the scope of the thresholds. *)
Scoped(stock, limits) ==
  IF limits.codes = {} THEN stock
  ELSE [wh \in Places |->
          IF wh \notin limits.codes THEN [query |-> "out_of_scope", amount |-> 0]
          ELSE IF stock[wh].query = "out_of_scope" THEN [query |-> "inactive", amount |-> 0]
          ELSE stock[wh]]

InRegion(region) == {Rules[i].wh : i \in {j \in DOMAIN Rules : Rules[j].region = region}}

(* buildRegionDecision: the cases a warehouse can be selected in, and those that leave the *)
(* stock of the region unknown.                                                            *)
Selectable(stock) == {wh \in Places : stock[wh].query = "succeeded" /\ stock[wh].amount > 0}
Unknown(stock) == {wh \in Places : stock[wh].query \in {"inactive", "failed"}}

First(indices) == IF indices = {} THEN NoChoice ELSE Rules[Min(indices)].wh

Listed(region, choice) ==
  {i \in DOMAIN Rules : Rules[i].region = region /\ Rules[i].wh \in choice}

(* Nothing is recommended in a region with a gap; else the preferred one before the others. *)
(* A region requires manual handling exactly when nothing is recommended in it.              *)
RegionChoice(region, stock) ==
  LET usable == Listed(region, Selectable(stock))
      preferred == {i \in usable : Rules[i].preferred}
  IN IF InRegion(region) \cap Unknown(stock) # {} THEN NoChoice
     ELSE First(IF preferred # {} THEN preferred ELSE usable)

Below(total, limits) == total < limits.keep \/ (limits.inclusive /\ total = limits.keep)

(* BuildSKUDecision *)
Decision(stock, limits) ==
  LET scoped == Scoped(stock, limits)
      total == MapThenSumSet(LAMBDA wh : scoped[wh].amount, Selectable(scoped))
      choice == [r \in Regions |-> RegionChoice(r, scoped)]
  IN [selectable |-> Selectable(scoped), total |-> total, choice |-> choice,
      code |-> IF Unknown(scoped) # {} THEN "MANUAL_INVENTORY_QUERY_INCOMPLETE"
               ELSE IF Below(total, limits) THEN "MANUAL_LOW_TOTAL_STOCK"
               ELSE "AUTO_SELECTION_READY",
      manual |-> Unknown(scoped) # {} \/ Below(total, limits)]

--------------------------------------------------------------------------------
(* Mutant: the old recommendation is kept. *)
WithoutKeepingChoice(decision, removed) ==
  [decision EXCEPT !.selectable = decision.selectable \ removed]

(* recommendRegionAfterRestriction in every region: the first warehouse that is left, even if *)
(* the stock of another in the region is not known; the decision as a whole keeps its code.   *)
Without(decision, removed) ==
  LET remaining == decision.selectable \ removed
  IN [decision EXCEPT !.selectable = remaining,
                      !.choice = [r \in Regions |-> First(Listed(r, remaining))]]

(* ApplyPlatformSKUWarehouseRestrictions *)
ForPlatform(decision, disabled) ==
  IF disabled = {} THEN decision ELSE Without(decision, disabled)

(* ApplyShopWarehouseAvailability *)
ForShop(decision, enabled) ==
  LET restricted == Without(decision, Places \ enabled)
  IN IF restricted.selectable # {} THEN restricted
     ELSE [restricted EXCEPT !.manual = TRUE, !.code = "MANUAL_SHOP_WAREHOUSE_UNAVAILABLE"]
================================================================================
