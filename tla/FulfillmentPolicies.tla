-------------------------- MODULE FulfillmentPolicies --------------------------
(***************************************************************************)
(* The carriers a warehouse may ship an SKU with: the defaults of the      *)
(* platform, what was saved for the SKU, what the rules of its OMS account *)
(* block and what the warehouse takes at all.  A save is checked before    *)
(* its transaction and a reader collects the four layers one query after   *)
(* the other, so each may be replaced in between.  One platform, one       *)
(* warehouse, one SKU; the order of the carriers is left out.              *)
(***************************************************************************)
EXTENDS Naturals

CONSTANTS
  Carriers,    \* SupportedAutomaticCarrierCodes
  Allowed,     \* those CarrierAllowed lets the warehouse have
  Blocked,     \* blocked_carriers of the rules of the OMS account
  Savers,      \* slots for requests that save
  MaxPolicyChanges, \* bound of the model: changes by others
  NoOverride, NoLimit

ASSUME CarriersAssumption == Allowed \subseteq Carriers /\ Blocked \subseteq Carriers /\ MaxPolicyChanges \in Nat

VARIABLES
  defaults,   \* enabled in xlwms_platform_carrier_policies
  baseRules,  \* allowed_carrier_codes of xlwms_platform_warehouse_carrier_rules
  override,   \* enabled in xlwms_platform_sku_carrier_policies, or NoOverride
  managed,    \* a binding ties the SKU to the account with rules
  limit,      \* xlwms_warehouse_carrier_capabilities, or NoLimit
  save,       \* [Savers -> Save]
  reading,    \* the reader: what it has collected
  policyChanges

policyVars == <<defaults, baseRules, override, managed, limit, save, reading, policyChanges>>

Save == [at : {"idle", "managed", "limit", "write"}, sku : BOOLEAN, carriers : SUBSET Carriers,
         withRules : BOOLEAN, rules : SUBSET Carriers]

Reading == [at : {"idle", "carriers", "account", "limit"}, base : SUBSET Carriers, carriers : SUBSET Carriers]

NoSave == [at |-> "idle", sku |-> FALSE, carriers |-> {}, withRules |-> FALSE, rules |-> {}]
NoReading == [at |-> "idle", base |-> {}, carriers |-> {}]

(* What the migrations write, within what the warehouse takes. *)
PolicyInit ==
  /\ defaults = Allowed /\ baseRules = Allowed /\ override = NoOverride
  /\ managed \in BOOLEAN /\ limit \in {NoLimit, Allowed}
  /\ save = [s \in Savers |-> NoSave] /\ reading = NoReading /\ policyChanges = 0

rowVars == <<defaults, baseRules, override>>
othersVars == <<managed, limit, policyChanges>>

--------------------------------------------------------------------------------
(* ReplaceCarrierPolicies *)

EndSave(s) == save' = [save EXCEPT ![s] = NoSave]

(* ValidateCarrierPolicies and ValidateWarehouseCarrierRules; base rules have no SKU scope. *)
AskToSave(s, sku, carriers, withRules, rules) ==
  /\ save[s].at = "idle"
  /\ carriers \subseteq Allowed
  /\ sku => ~withRules
  /\ IF withRules THEN rules \subseteq Allowed ELSE rules = {}
  /\ save' = [save EXCEPT ![s] = [at |-> IF sku THEN "managed" ELSE "limit", sku |-> sku,
                                  carriers |-> carriers,
                                  withRules |-> withRules, rules |-> rules]]
  /\ UNCHANGED <<rowVars, othersVars, reading>>

(* requireSKUManagedRules *)
CheckManaged(s) ==
  /\ save[s].at = "managed"
  /\ IF managed THEN EndSave(s) ELSE save' = [save EXCEPT ![s].at = "limit"]
  /\ UNCHANGED <<rowVars, othersVars, reading>>

CheckLimit(s) ==
  /\ save[s].at = "limit"
  /\ IF limit = NoLimit \/ save[s].carriers \cup save[s].rules \subseteq limit
     THEN save' = [save EXCEPT ![s].at = "write"] ELSE EndSave(s)
  /\ UNCHANGED <<rowVars, othersVars, reading>>

(* One transaction; two of them on the same rows end with an error for one. *)
WritePolicies(s) ==
  /\ save[s].at = "write"
  /\ IF save[s].sku THEN override' = save[s].carriers /\ UNCHANGED <<defaults, baseRules>>
     ELSE /\ defaults' = save[s].carriers
          /\ baseRules' = IF save[s].withRules THEN save[s].rules ELSE baseRules
          /\ UNCHANGED override
  /\ EndSave(s)
  /\ UNCHANGED <<othersVars, reading>>

SaveFails(s) ==
  /\ save[s].at # "idle"
  /\ EndSave(s)
  /\ UNCHANGED <<rowVars, othersVars, reading>>

ResetSKUCarrierPolicies ==
  /\ override # NoOverride
  /\ override' = NoOverride
  /\ UNCHANGED <<defaults, baseRules, othersVars, save, reading>>

--------------------------------------------------------------------------------
(* CarrierPolicies: four queries *)

ReadBase ==
  /\ reading.at = "idle"
  /\ reading' = [NoReading EXCEPT !.at = "carriers", !.base = baseRules]
  /\ UNCHANGED <<rowVars, othersVars, save>>

(* What was saved for an SKU replaces the defaults. *)
ReadCarriers ==
  /\ reading.at = "carriers"
  /\ reading' = [reading EXCEPT !.at = "account",
                                !.carriers = IF override = NoOverride THEN defaults ELSE override]
  /\ UNCHANGED <<rowVars, othersVars, save>>

(* applyAccountCarrierRules *)
Unblocked(carriers) == IF managed THEN carriers \ Blocked ELSE carriers

ReadAccountRules ==
  /\ reading.at = "account"
  /\ reading' = [at |-> "limit", base |-> Unblocked(reading.base), carriers |-> Unblocked(reading.carriers)]
  /\ UNCHANGED <<rowVars, othersVars, save>>

(* Mutant: only the base rules are cut down. *)
TakenUnlimited(carriers) == carriers

(* applyPhysicalWarehouseCapabilities *)
Taken(carriers) == IF limit = NoLimit THEN carriers ELSE carriers \cap limit \cap Allowed

ReadLimit ==
  /\ reading.at = "limit"
  /\ reading' = NoReading
  /\ UNCHANGED <<rowVars, othersVars, save>>

(* What the reader gets in this step. *)
LeftOver == Taken(reading.carriers)
LeftOverBase == Taken(reading.base)

--------------------------------------------------------------------------------
(* Others *)

PolicyChange == policyChanges < MaxPolicyChanges /\ policyChanges' = policyChanges + 1

(* A credential with the SKU is bound to the account or taken from it. *)
Rebind ==
  /\ PolicyChange
  /\ managed' = ~managed
  /\ UNCHANGED <<rowVars, limit, save, reading>>

(* Capabilities are changed in the table itself. *)
ChangeLimit(taken) ==
  /\ PolicyChange
  /\ limit' = taken
  /\ UNCHANGED <<rowVars, managed, save, reading>>

PolicyNext ==
  \/ \E s \in Savers :
       \/ \E sku, withRules \in BOOLEAN, carriers, rules \in SUBSET Carriers :
            AskToSave(s, sku, carriers, withRules, rules)
       \/ CheckManaged(s) \/ CheckLimit(s) \/ WritePolicies(s) \/ SaveFails(s)
  \/ ResetSKUCarrierPolicies
  \/ ReadBase \/ ReadCarriers \/ ReadAccountRules \/ ReadLimit
  \/ Rebind
  \/ \E taken \in (SUBSET Carriers) \cup {NoLimit} : ChangeLimit(taken)

PolicySpec == PolicyInit /\ [][PolicyNext]_policyVars
--------------------------------------------------------------------------------
(* Properties *)

PolicyTypeOK ==
  /\ defaults \subseteq Carriers /\ baseRules \subseteq Carriers
  /\ override = NoOverride \/ override \subseteq Carriers
  /\ managed \in BOOLEAN
  /\ limit = NoLimit \/ limit \subseteq Carriers
  /\ save \in [Savers -> Save]
  /\ reading \in Reading
  /\ policyChanges \in 0 .. MaxPolicyChanges

(* Whatever was saved, bound or restricted in between, in whatever order, a reader is left with *)
(* carriers only that the warehouse takes at this instant: a collection warehouse never gets    *)
(* another carrier, and what was saved before a capability was withdrawn does not outlive it.   *)
LeftOverIsAllowed ==
  reading.at = "limit" =>
    /\ LeftOver \cup LeftOverBase \subseteq Allowed
    /\ limit # NoLimit => LeftOver \cup LeftOverBase \subseteq limit
================================================================================
