------------------------ MODULE PlatformOrderAssignment ------------------------
(***************************************************************************)
(* Pending platform orders are assigned to the warehouse their purchased   *)
(* label names, and approved with it.  The evidence is read from the local *)
(* audits and from the label services of the platforms, then the OMS is    *)
(* asked which orders still wait, then they are assigned, one call for     *)
(* each warehouse.  Labels, audits and orders change between these steps.  *)
(***************************************************************************)
EXTENDS Naturals

CONSTANTS
  PlatformOrders,  \* platform order numbers
  PlatformOf,      \* the platform an order number belongs to
  WarehouseCodes,  \* in the order of sort.Strings
  Collection,      \* the collection warehouses among them: they take some carriers only
  Labels,          \* [wh, carrier, reliable]: what a label service may know of an order
  Assignments,     \* slots for requests, each used once
  MaxEvents,       \* bound of the model: labels, audits and orders that change meanwhile
  NoLabel, NoCode, NoAssignment

ASSUME CodesAssumption ==
  /\ Collection \subseteq WarehouseCodes /\ WarehouseCodes \subseteq Nat /\ MaxEvents \in Nat
  /\ PlatformOf \in [PlatformOrders -> {"temu", "shein"}]

ASSUME LabelsAssumption ==
  /\ Labels \subseteq [wh : WarehouseCodes, carrier : {"listed", "other"}, reliable : BOOLEAN]
  /\ NoLabel \notin Labels /\ NoCode \notin WarehouseCodes /\ NoAssignment \notin Assignments

VARIABLES
  label,     \* [PlatformOrders -> Labels \cup {NoLabel}]: the label services
  audited,   \* [PlatformOrders -> SUBSET Labels]: the audits, reliable while open or outbound
  approved,  \* [PlatformOrders -> WarehouseCodes \cup {NoCode}]: the OMS; NoCode is pending
  holder,    \* platformOrderMu
  request,   \* [Assignments -> Request]
  events     \* the number of changes from outside

assignVars == <<label, audited, approved, holder, request, events>>

Stage == {"ready", "audits", "temu", "shein", "pending", "routes", "assign", "answered"}

Request == [at : Stage, orders : SUBSET PlatformOrders, evidence : [PlatformOrders -> SUBSET Labels],
            left : SUBSET PlatformOrders, deaf : SUBSET {"temu", "shein"},
            local : [PlatformOrders -> SUBSET Labels],
            seen : [PlatformOrders -> SUBSET (Labels \cup {NoLabel})]]

Nothing == [o \in PlatformOrders |-> {}]

(* deaf, local and seen are history: the services that failed, the audits as they were read, *)
(* and the labels the services had since the request began.                                   *)
Ready == [at |-> "ready", orders |-> {}, evidence |-> Nothing, left |-> {}, deaf |-> {},
          local |-> Nothing, seen |-> Nothing]

AssignInit ==
  /\ label \in [PlatformOrders -> Labels \cup {NoLabel}]
  /\ audited \in [PlatformOrders -> {audits \in SUBSET Labels : \A a, b \in audits : a.wh = b.wh => a = b}]
  /\ approved = [o \in PlatformOrders |-> NoCode]
  /\ holder = NoAssignment /\ events = 0
  /\ request = [r \in Assignments |-> Ready]

--------------------------------------------------------------------------------
CarrierAllowed(wh, carrier) == wh \in Collection => carrier = "listed"

(* A SHEIN service only has labels that were bought. *)
Reliable(labels) == {l \in labels \ {NoLabel} : l.reliable}

(* purchasedLabelWarehouse: one warehouse, and no label its carrier rules out *)
Agreed(evidence) ==
  /\ \A l \in evidence : CarrierAllowed(l.wh, l.carrier)
  /\ \E wh \in WarehouseCodes : {l.wh : l \in evidence} = {wh}

WarehouseFor(evidence) == CHOOSE wh \in WarehouseCodes : {l.wh : l \in evidence} = {wh}

(* Mutant: the audits stay where the service has nothing to say. *)
MergedKeeping(r, p) ==
  [o \in PlatformOrders |->
     IF PlatformOf[o] = p /\ Reliable({label[o]}) # {} THEN Reliable({label[o]})
     ELSE request[r].evidence[o]]

(* mergeAuthoritativePurchasedLabelEvidence: what the service knows replaces the audits of its *)
(* platform, also where it knows of no label.                                                   *)
Merged(r, p) ==
  [o \in PlatformOrders |->
     IF PlatformOf[o] = p THEN Reliable({label[o]}) ELSE request[r].evidence[o]]

(* An error, or an order that is not resolved: nothing is assigned. *)
Answer(r) ==
  /\ request' = [request EXCEPT ![r] = [Ready EXCEPT !.at = "answered"]]
  /\ holder' = NoAssignment

Begin(r, orders) ==
  /\ request[r].at = "ready" /\ holder = NoAssignment /\ orders # {}
  /\ holder' = r
  /\ request' = [request EXCEPT ![r].at = "audits", ![r].orders = orders,
                                ![r].seen = [o \in PlatformOrders |-> IF o \in orders THEN {label[o]} ELSE {}]]
  /\ UNCHANGED <<label, audited, approved, events>>

ReadAudits(r) ==
  /\ request[r].at = "audits"
  /\ LET read == [o \in PlatformOrders |-> Reliable(audited[o])]
     IN request' = [request EXCEPT ![r].at = "temu", ![r].evidence = read, ![r].local = read]
  /\ UNCHANGED <<label, audited, approved, holder, events>>

(* The program always has both services (main.go:64-67, 92): the branch for one that is not there *)
(* (:254, 267) is only taken by tests.                                                            *)
AfterService(p) == IF p = "temu" THEN "shein" ELSE "pending"

ServiceAnswers(r, p) ==
  /\ request[r].at = p
  /\ request' = [request EXCEPT ![r].at = AfterService(p), ![r].evidence = Merged(r, p)]
  /\ UNCHANGED <<label, audited, approved, holder, events>>

(* The audits do instead only where they settle every order of the request. *)
ServiceFails(r, p) ==
  /\ request[r].at = p
  /\ IF \A o \in request[r].orders : Agreed(request[r].evidence[o])
     THEN /\ request' = [request EXCEPT ![r].at = AfterService(p), ![r].deaf = @ \cup {p}]
          /\ UNCHANGED holder
     ELSE Answer(r)
  /\ UNCHANGED <<label, audited, approved, events>>

Pending(r) == \A o \in request[r].orders : approved[o] = NoCode

(* The first lookup of the orders, all of which must still wait. *)
LookUp(r) ==
  /\ request[r].at = "pending" /\ Pending(r)
  /\ request' = [request EXCEPT ![r].at = "routes"]
  /\ UNCHANGED <<label, audited, approved, holder, events>>

(* The second lookup, in the account that may use the warehouses; every order is resolved. *)
ResolveRoutes(r) ==
  /\ request[r].at = "routes" /\ Pending(r)
  /\ \A o \in request[r].orders : Agreed(request[r].evidence[o])
  /\ request' = [request EXCEPT ![r].at = "assign", ![r].left = request[r].orders]
  /\ UNCHANGED <<label, audited, approved, holder, events>>

GiveUpAssignment(r) ==
  /\ request[r].at \in {"audits", "pending", "routes"}
  /\ Answer(r)
  /\ UNCHANGED <<label, audited, approved, events>>

Group(r, wh) == {o \in request[r].left : WarehouseFor(request[r].evidence[o]) = wh}

(* AssignAndApprove: the OMS approves those of the orders it likes, also when the call fails. *)
ApprovedBy(orders, wh) ==
  {[o \in PlatformOrders |-> IF o \in done THEN wh ELSE approved[o]] :
     done \in SUBSET {o \in orders : approved[o] = NoCode}}

(* One call for the next warehouse; the other groups go on whatever becomes of it. *)
AssignGroup(r) ==
  /\ request[r].at = "assign"
  /\ LET codes == {WarehouseFor(request[r].evidence[o]) : o \in request[r].left}
         next == CHOOSE wh \in codes : \A other \in codes : wh <= other
     IN /\ approved' \in ApprovedBy(Group(r, next), next)
        /\ IF codes = {next} THEN Answer(r)
           ELSE /\ request' = [request EXCEPT ![r].left = @ \ Group(r, next)]
                /\ UNCHANGED holder
  /\ UNCHANGED <<label, audited, events>>

--------------------------------------------------------------------------------
(* Meanwhile *)

Meanwhile == events < MaxEvents /\ events' = events + 1

(* A label is bought, cancelled or bought again. *)
Relabel(o, l) ==
  /\ Meanwhile /\ l # label[o]
  /\ label' = [label EXCEPT ![o] = l]
  /\ request' = [r \in Assignments |->
                   IF o \in request[r].orders THEN [request[r] EXCEPT !.seen[o] = @ \cup {l}]
                   ELSE request[r]]
  /\ UNCHANGED <<audited, approved, holder>>

(* The audit of an order is written anew. *)
Reaudit(o) ==
  /\ Meanwhile
  /\ audited' = [audited EXCEPT ![o] = {label[o]} \ {NoLabel}]
  /\ UNCHANGED <<label, approved, holder, request>>

(* An order is approved by hand. *)
ApproveByHand(o, wh) ==
  /\ Meanwhile /\ approved[o] = NoCode
  /\ approved' = [approved EXCEPT ![o] = wh]
  /\ UNCHANGED <<label, audited, holder, request>>

AssignNext ==
  \/ \E r \in Assignments :
       \/ \E orders \in SUBSET PlatformOrders : Begin(r, orders)
       \/ \E p \in {"temu", "shein"} : ServiceAnswers(r, p) \/ ServiceFails(r, p)
       \/ ReadAudits(r) \/ LookUp(r) \/ ResolveRoutes(r) \/ GiveUpAssignment(r) \/ AssignGroup(r)
  \/ \E o \in PlatformOrders :
       \/ \E l \in Labels \cup {NoLabel} : Relabel(o, l)
       \/ Reaudit(o)
       \/ \E wh \in WarehouseCodes : ApproveByHand(o, wh)

AssignSpec == AssignInit /\ [][AssignNext]_assignVars
--------------------------------------------------------------------------------
(* Properties *)

AssignTypeOK ==
  /\ label \in [PlatformOrders -> Labels \cup {NoLabel}]
  /\ audited \in [PlatformOrders -> SUBSET Labels]
  /\ approved \in [PlatformOrders -> WarehouseCodes \cup {NoCode}]
  /\ holder \in Assignments \cup {NoAssignment}
  /\ request \in [Assignments -> Request]
  /\ events \in 0 .. MaxEvents

Approves(r, o) ==
  /\ request[r].at = "assign" /\ request'[r] # request[r]
  /\ approved[o] = NoCode /\ approved'[o] # NoCode

(* A label for this warehouse that its service had since the request began; the audits alone *)
(* where the service failed.                                                                  *)
Founded(r, o, wh) ==
  LET labels == IF PlatformOf[o] \in request[r].deaf THEN request[r].local[o] ELSE request[r].seen[o]
  IN \E l \in Reliable(labels) : l.wh = wh /\ CarrierAllowed(wh, l.carrier)

(* A request approves an order only in the warehouse of a purchased label that is not older    *)
(* than the request, unless the service that knows could not be asked; and when it approves    *)
(* one, every order of the request had such a label: a batch with an order that is not settled *)
(* is left alone, whatever changes between the lookups and the calls.                           *)
AssignedByEvidence ==
  [][\A r \in Assignments, o \in PlatformOrders : Approves(r, o) =>
       /\ Founded(r, o, approved'[o])
       /\ \A other \in request[r].orders : \E wh \in WarehouseCodes : Founded(r, other, wh)]_assignVars
================================================================================
