------------------------------ MODULE MC_Algorithms ------------------------------
(***************************************************************************)
(* What is decided about one order or one SKU.  The pure algorithms run on *)
(* every input of the sets the constants name: the initial state is a      *)
(* question, its step the answer, and the properties relate the two; the   *)
(* package planner answers unit by unit.  The assignment of orders and the *)
(* policies of carriers are specifications of their own; a behaviour is    *)
(* about one of them, and the other rests.                                 *)
(***************************************************************************)
EXTENDS OutboundMatching, LiveInventory, PackingPlanner, TrackingResolution,
        PlatformOrderAssignment, FulfillmentPolicies, TLC

CONSTANTS
  w1, w2,
  o1, o2,
  MaxRecords,      \* records listed for one audit
  StockQuestions,  \* the questions about a SKU, and what is known when they are asked
  ThisSku,         \* the SKU they are about
  Replies, Ages,   \* what is answered about the packages of an order, and when
  None             \* not answered yet

ASSUME MaxRecordsAssumption == MaxRecords \in Nat

(* A question about a SKU: the warehouses it names are known ones, an answer lists SKUs that were *)
(* asked for, and the layers of limits name known warehouses.                                      *)
StockOf(q) ==
  /\ \A h \in q.holdings : h.wh \in Places
  /\ \A wh \in Places :
       /\ q.replies[wh] \in Reply
       /\ q.corrections[wh] = NoRow \/ q.corrections[wh] \in Correction
  /\ \A rules \in q.accountRules : rules.codes \subseteq Places
  /\ q.own = NoRow \/ q.own.codes \subseteq Places
  /\ q.defaults.codes \subseteq Places

ASSUME StockAssumption ==
  /\ Rules # <<>> /\ ThisSku \in SkusAsked
  /\ \A q \in StockQuestions : q.about = "warehouse" /\ StockOf(q)

ASSUME AgesAssumption == Ages \subseteq Nat \cup {NoStart}

VARIABLES question, answer

algorithmVars == <<question, answer, packVars, assignVars, policyVars>>

(* Two warehouses in the east, the first of them preferred, and one in the west. *)
ThreeRules ==
  <<[wh |-> "dps", region |-> "east", preferred |-> TRUE],
    [wh |-> "arp", region |-> "east", preferred |-> FALSE],
    [wh |-> "la", region |-> "west", preferred |-> FALSE]>>

Box(l, w, h, weight) == [l |-> l, w |-> w, h |-> h, weight |-> weight]

(* Three bars lying in the three directions, a plate, a cube, a heavy cube of its size, a *)
(* board too long; 8 has no size.                                                         *)
SevenSpecs ==
  1 :> Box(1, 1, 3, 1) @@ 2 :> Box(1, 3, 1, 1) @@ 3 :> Box(3, 1, 1, 1) @@ 4 :> Box(2, 2, 1, 1)
    @@ 5 :> Box(1, 1, 1, 1) @@ 6 :> Box(1, 1, 1, 3) @@ 7 :> Box(5, 1, 1, 1)

FewUnits == {quantity \in [Skus -> 0 .. 2] : MapThenSumSet(LAMBDA sku : quantity[sku], Skus) <= 5}

TwoSkus == {"asked", "beside"}

Told(sku, wh, amount) == [sku |-> sku, wh |-> wh, amount |-> amount]

Replied(records) == [ok |-> TRUE, records |-> records]
Lost == [ok |-> FALSE, records |-> <<>>]

Elsewhere(wh) == CHOOSE other \in Places : other # wh

Case(reply, correction) == [held |-> TRUE, reply |-> reply, correction |-> correction]

(* One warehouse: is the SKU held in it, what is answered, which correction is kept. *)
PlaceCases(wh) ==
  {[held |-> FALSE, reply |-> Lost, correction |-> NoRow]}
    \cup {Case(reply, correction) :
            reply \in {Lost, Replied(<<>>)}, correction \in {NoRow, [mode |-> "absolute", amount |-> 2]}}
    \cup {Case(Replied(<<Told("asked", wh, 1), Told("beside", Elsewhere(wh), 1)>>), NoRow),
          Case(Replied(<<Told("asked", "", 1)>>), [mode |-> "subtract", amount |-> 2])}
    \cup {Case(Replied(<<Told("asked", wh, 1), Told("asked", wh, 1)>>), correction) :
            correction \in {NoRow, [mode |-> "absolute", amount |-> 0], [mode |-> "subtract", amount |-> 1]}}

HeldBy(sku, wh) == [sku |-> sku, wh |-> wh, scope |-> "k1", ready |-> TRUE, enabled |-> TRUE]

Keep(amount) == [codes |-> {}, keep |-> amount, inclusive |-> FALSE]
AccountRules == [codes : {{}, {"dps", "la"}}, keep : {2}, inclusive : BOOLEAN]

(* The second SKU of the request has the same scopes, or none. *)
AboutStock(places, beside, own, accountRules, disabled, shop) ==
  [about |-> "warehouse",
   holdings |-> {HeldBy(sku, wh) : sku \in {"asked"} \cup beside, wh \in {p \in Places : places[p].held}},
   replies |-> [wh \in Places |-> places[wh].reply],
   corrections |-> [wh \in Places |-> places[wh].correction],
   defaults |-> Keep(0), own |-> own, accountRules |-> accountRules,
   disabled |-> disabled, shop |-> shop]

(* Every warehouse has a case of its own, with one layer of limits or another. *)
CaseByCase ==
  {AboutStock(places, beside, limits.own, limits.account, disabled, shop) :
     places \in {c \in [Places -> UNION {PlaceCases(wh) : wh \in Places}] :
                  \A wh \in Places : c[wh] \in PlaceCases(wh)},
     beside \in SUBSET {"beside"},
     limits \in [own : {NoRow, Keep(2)}, account : {{}}]
                 \cup [own : {NoRow}, account : {{rules} : rules \in AccountRules}],
     disabled \in {{}, {"dps"}}, shop \in {NoShop, Places, {"arp"}}}

(* Without a case of its own: a scope that is not ready, two scopes in one warehouse (or one, *)
(* if the warehouse of the second is disabled), two accounts with rules.                      *)
PlainQuestion ==
  AboutStock([wh \in Places |-> [held |-> TRUE, reply |-> Replied(<<Told("asked", wh, 1)>>), correction |-> NoRow]],
             {}, NoRow, {}, {}, NoShop)

WithHolding(h) == [PlainQuestion EXCEPT !.holdings = @ \cup {h}]

UnclearQuestions ==
  {WithHolding([HeldBy("beside", "arp") EXCEPT !.ready = r]) : r \in BOOLEAN}
    \cup {WithHolding([HeldBy("asked", "arp") EXCEPT !.scope = "k2", !.enabled = e]) : e \in BOOLEAN}
    \cup {[PlainQuestion EXCEPT !.accountRules = AccountRules]}

FewStockQuestions == CaseByCase \cup UnclearQuestions

(* Two packages at most, on the way or not and after a failed pickup or not; an age on each *)
(* side of the two limits.                                                                    *)
TwoPackages ==
  {NoReply} \cup BoundedSeq({{"other"}, {"moving"}, {"pickup_failed"}, {"pickup_failed", "picked_up"}}, 2)
AroundLimits == {NoStart, 0, 11, 12, 23, 24}

PlatformOfBoth == o1 :> "temu" @@ o2 :> "shein"

(* A warehouse that takes any carrier, also with a label that is not bought yet, and a         *)
(* collection warehouse with a carrier it takes and one it does not.                            *)
FourLabels ==
  {[wh |-> 1, carrier |-> "other", reliable |-> r] : r \in BOOLEAN}
    \cup {[wh |-> 2, carrier |-> c, reliable |-> TRUE] : c \in {"listed", "other"}}

(* The second order starts out plainer than the first. *)
PlainStart == label[o2] \in Reliable(Labels) /\ audited[o2] \subseteq {label[o2]}

Asking(about) == question.about = about

Init ==
  /\ answer = None
  /\ PackInit
  /\ \/ \E records \in BoundedSeq(Record, MaxRecords), wh \in Warehouses \cup {NoWarehouse} :
          question = [about |-> "match", records |-> records, wh |-> wh]
     \/ question \in StockQuestions
     \/ \E first, then \in Replies, age, later \in Ages :
          /\ (age = NoStart) = (later = NoStart) /\ (age # NoStart => age <= later)
          /\ question = [about |-> "tracking", first |-> first, then |-> then,
                         age |-> age, later |-> later]
     \/ \E about \in {"packing", "assignment", "policies"} : question = [about |-> about]
  /\ ~Asking("assignment") => label = [o \in PlatformOrders |-> NoLabel] /\ audited = Nothing
  /\ AssignInit
  /\ Asking("assignment") => PlainStart
  /\ ~Asking("policies") => managed = FALSE /\ limit = NoLimit
  /\ PolicyInit

Asked(about) == Asking(about) /\ answer = None
Answered(about) == Asking(about) /\ answer # None

AnswerMatch ==
  /\ Asked("match")
  /\ answer' = [record |-> Match(question.records, question.wh)]
  /\ UNCHANGED <<question, packVars, assignVars, policyVars>>

AnswerWarehouse ==
  /\ Asked("warehouse")
  /\ answer' = Availability(question, ThisSku)
  /\ UNCHANGED <<question, packVars, assignVars, policyVars>>

(* Two answers an hour or more apart, with the refreshes of the Checks between or without. *)
AnswerTracking ==
  /\ Asked("tracking")
  /\ LET row == Resolved(Untracked, question.first, question.age)
         between == Refreshed(row, question.later)
     IN answer' = [row |-> row, at_once |-> Refreshed(row, question.age), between |-> between,
                   then |-> Resolved(row, question.then, question.later),
                   refreshed_then |-> Resolved(between, question.then, question.later)]
  /\ UNCHANGED <<question, packVars, assignVars, policyVars>>

Packing == Asking("packing") /\ PackNext /\ UNCHANGED <<question, answer, assignVars, policyVars>>

Assigning == Asking("assignment") /\ AssignNext /\ UNCHANGED <<question, answer, packVars, policyVars>>

Policies == Asking("policies") /\ PolicyNext /\ UNCHANGED <<question, answer, packVars, assignVars>>

Next == AnswerMatch \/ AnswerWarehouse \/ AnswerTracking \/ Packing \/ Assigning \/ Policies

Spec == Init /\ [][Next]_algorithmVars
--------------------------------------------------------------------------------
(* Outbound matching, service.go:488 *)

Matched == answer.record

(* The passes find a record of the declarative definition FulfillmentAudits.tla uses, in *)
(* whatever order the records are listed.                                                *)
MatchIsSelected ==
  Answered("match") =>
    IF question.records = <<>> THEN Matched = NoRecord
    ELSE Matched \in Selected(question.records, question.wh)

--------------------------------------------------------------------------------
(* Warehouse decision, warehouse_decision.go:169 and live_inventory.go:43 *)

Limits == LimitsFor(question.defaults, question.own, question.accountRules)
HeldIn == {h.wh : h \in Held(question.holdings, ThisSku)}

(* Every page came, and each record is about the warehouse that was asked, or about a SKU that *)
(* was asked for apart.                                                                         *)
Trusted(wh) ==
  LET reply == question.replies[wh]
  IN /\ reply.ok
     /\ \A i \in DOMAIN reply.records :
          \/ reply.records[i].wh \in {wh, ""}
          \/ Scopes(question.holdings, reply.records[i].sku) # Scopes(question.holdings, ThisSku)

(* A person who corrected the stock left some; without a correction XLWMS says there is some. *)
InStock(wh) ==
  LET correction == question.corrections[wh]
      told == Amount(question.replies[wh], ThisSku)
  IN CASE correction = NoRow -> told > 0
       [] correction # NoRow /\ correction.mode = "absolute" -> correction.amount > 0
       [] correction # NoRow /\ correction.mode = "subtract" -> told > correction.amount

(* What is recommended in a region is there, in stock as far as a complete answer of the *)
(* warehouse and the correction say, in the scope of the SKU, allowed by the platform and *)
(* used by the shop.                                                                      *)
RecommendedIsUsable ==
  \A r \in Regions : answer.choice[r] # NoChoice =>
    LET wh == answer.choice[r]
    IN /\ wh \in InRegion(r) \cap answer.selectable \cap HeldIn
       /\ Trusted(wh) /\ InStock(wh)
       /\ wh \notin question.disabled
       /\ question.shop # NoShop => wh \in question.shop
       /\ Limits.codes # {} => wh \in Limits.codes

(* A decision that needs nobody was measured by complete answers: every warehouse that counts *)
(* holds the SKU and answered, a correction does not stand in for an answer that failed       *)
(* (houston-atlanta-warehouse-design.md:84), whatever is taken out afterwards; and for a shop *)
(* there is a warehouse to ship from.                                                         *)
AutomaticIsSafe ==
  ~answer.manual =>
    /\ HeldIn # {}
    /\ \A wh \in IF Limits.codes = {} THEN HeldIn ELSE Limits.codes : wh \in HeldIn /\ Trusted(wh)
    /\ ~Below(answer.total, Limits)
    /\ answer.code = "AUTO_SELECTION_READY"
    /\ question.shop # NoShop => \E r \in Regions : answer.choice[r] # NoChoice

(* Both for every decision: what it recommends can be used, and it goes without a person only *)
(* where nothing is missing.                                                                  *)
DecisionIsSafe ==
  Answered("warehouse") /\ answer # Refused => RecommendedIsUsable /\ AutomaticIsSafe

--------------------------------------------------------------------------------
(* Tracking, auditor/tracking.go:153 and store/fulfillment_audits.go:330 *)

(* The two classifications are one: the refresh right after a result was stored changes       *)
(* nothing, and whether Checks refreshed a row or merely failed to ask about it in the        *)
(* meantime decides neither the queue it is in nor the reason it is shown with.               *)
QueueFollowsTheAnswer ==
  Answered("tracking") =>
    /\ answer.at_once = answer.row
    /\ answer.refreshed_then = answer.then
    /\ question.then = NoReply =>
         /\ answer.then.reason = answer.between.reason
         /\ \A category \in {"pickup_exception", "picked_up"} :
              (answer.then.category = category) = (answer.between.category = category)
================================================================================
