-------------------------- MODULE WarehouseManagement --------------------------
(***************************************************************************)
(* Which warehouses a shop may ship from: the bindings between physical    *)
(* warehouses and shops, managed from the console                          *)
(* (internal/httpapi/warehouse_management.go and the store file of that    *)
(* name), with what runs beside it: the import of legacy bindings at the   *)
(* start, the switches of the shops, and reservations that lock the same   *)
(* rows and take connections from the same pool.                           *)
(*                                                                         *)
(* warehouseConfigMu lets one console request through at a time, so the    *)
(* console is one process; an action is a statement, or the last ones of a *)
(* transaction with its commit.  A statement that waits for a row lock is  *)
(* an action that is not enabled.                                          *)
(***************************************************************************)
EXTENDS Naturals, FiniteSets, FiniteSetsExt

CONSTANTS
  Warehouses,    \* warehouse_key
  Shops,         \* platform | shop_code
  Ids,           \* platform_warehouse_id
  Legacy,        \* the bindings the legacy services report: [wh, shop, id, ships]
  Callers,       \* slots for concurrent reservations
  MaxConns,      \* connections of the pool
  MaxChanges,    \* bound of the model: changes of rows behind which no request and no
                 \* reservation comes in
  NoId, NoRequest, NoRow, NoReservation

ASSUME ManagementAssumption ==
  /\ Legacy \subseteq [wh : Warehouses, shop : Shops, id : Ids, ships : BOOLEAN]
  /\ NoRow \notin Legacy /\ NoId \notin Ids
  /\ MaxConns \in Nat \ {0} /\ MaxChanges \in Nat

VARIABLES
  warehouse,    \* xlwms_fulfillment_warehouses: [enabled, revision]
  binding,      \* xlwms_platform_warehouse_bindings; revision 0: no row
  shop,         \* xlwms_fulfillment_shops.enabled
  imported,     \* the shops of xlwms_warehouse_binding_imports
  vouched,      \* history: the id a check or the import last vouched for
  at,           \* the statement the console request has come to
  request,      \* the console request, with what its check has found
  importing,    \* the import of the legacy bindings
  reserving     \* the reservation in each slot

tables == <<warehouse, binding, shop, imported, vouched>>
console == <<at, request>>
others == <<importing, reserving>>
vars == <<tables, console, others>>

Binding == [revision : Nat, id : Ids \cup {NoId}, enabled : BOOLEAN, verified : BOOLEAN]

NoBinding == [revision |-> 0, id |-> NoId, enabled |-> FALSE, verified |-> FALSE]

Kinds == {"save", "check", "activate", "pause"}

Request == [kind : Kinds, wh : Warehouses, shop : Shops, id : Ids \cup {NoId}, renamed : BOOLEAN,
            revision : Nat, whRevision : Nat, ready : BOOLEAN]

(* enabled: the switches of the shops when they were listed; rows: inserted and not committed; *)
(* row: inserted, with its foreign key still to be checked.                                    *)
Import == [at : {"idle", "shops", "insert", "foreignKey"}, enabled : [Shops -> BOOLEAN],
           todo : SUBSET Legacy, rows : SUBSET Legacy, row : Legacy \cup {NoRow}]

Reserving == [at : {"warehouse", "working"}, wh : Warehouses, shop : Shops]

ASSUME NothingAssumption == NoRequest \notin Request /\ NoReservation \notin Reserving

NotImporting == [at |-> "idle", enabled |-> [s \in Shops |-> FALSE], todo |-> {}, rows |-> {},
                 row |-> NoRow]

Init ==
  /\ warehouse = [w \in Warehouses |-> [enabled |-> TRUE, revision |-> 1]]
  /\ binding = [w \in Warehouses |-> [s \in Shops |-> NoBinding]]
  /\ shop = [s \in Shops |-> TRUE]
  /\ imported = {}
  /\ vouched = [w \in Warehouses |-> [s \in Shops |-> NoId]]
  /\ at = "idle" /\ request = NoRequest
  /\ importing = NotImporting
  /\ reserving = [r \in Callers |-> NoReservation]

--------------------------------------------------------------------------------
(* Connections and row locks *)

(* The request has a transaction, and with it a connection; it waits for the row of the *)
(* warehouse, or has it.                                                                 *)
HoldsRow == at \in {"read", "share", "write"}
InTransaction == at = "lock" \/ HoldsRow

Used ==
  Cardinality({r \in Callers : reserving[r] # NoReservation})
    + (IF InTransaction THEN 1 ELSE 0)
    + (IF importing.at \in {"insert", "foreignKey"} THEN 1 ELSE 0)

FreeConnection == Used < MaxConns

(* Mutant: the row is locked no harder than a foreign key does. *)
LockedWeakly(w) == FALSE

(* SELECT ... FOR UPDATE of the console request. *)
LockedForUpdate(w) == HoldsRow /\ request.wh = w

(* FOR SHARE OF b, f, s, w: a reservation locks the binding first, then the other rows. *)
BindingShared(w, s) ==
  \E r \in Callers : reserving[r] # NoReservation /\ reserving[r].wh = w /\ reserving[r].shop = s

Working(r) == reserving[r] # NoReservation /\ reserving[r].at = "working"

WarehouseShared(w) ==
  \/ \E r \in Callers : Working(r) /\ reserving[r].wh = w
  \/ \E row \in importing.rows : row.wh = w

ShopShared(s) ==
  \/ \E r \in Callers : Working(r) /\ reserving[r].shop = s
  \/ \E row \in importing.rows : row.shop = s
  \/ at = "write" /\ request.kind = "activate" /\ request.shop = s

(* A row of the import that is not committed keeps a row with one of its keys waiting. *)
AwaitsImport ==
  \E row \in importing.rows \cup ({importing.row} \ {NoRow}) :
    row.shop = request.shop /\ (row.wh = request.wh \/ row.id = request.id)

--------------------------------------------------------------------------------
(* A request of the console *)

Changes ==
  MapThenSumSet(LAMBDA w : warehouse[w].revision - 1
                             + MapThenSumSet(LAMBDA s : binding[w][s].revision, Shops), Warehouses)

(* The page of the operator shows the present versions or earlier ones.  A new name for another *)
(* id changes nothing, and a pause names no shop's version.                                      *)
Submit(kind, w, s, id, renamed, revision, whRevision) ==
  /\ at = "idle"
  /\ Changes < MaxChanges
  /\ request' = [kind |-> kind, wh |-> w, shop |-> s, id |-> id, renamed |-> renamed,
                 revision |-> revision, whRevision |-> whRevision, ready |-> FALSE]
  /\ at' = IF kind \in {"check", "activate"} THEN "setup" ELSE "begin"
  /\ UNCHANGED <<tables, others>>

Arrives ==
  \E w \in Warehouses, s \in Shops :
    \E revision \in 0 .. binding[w][s].revision, whRevision \in 1 .. warehouse[w].revision :
      \/ \E id \in Ids : Submit("save", w, s, id, FALSE, revision, whRevision)
      \/ Submit("save", w, s, binding[w][s].id, TRUE, revision, whRevision) /\ binding[w][s].id # NoId
      \/ \E kind \in {"check", "activate"} : Submit(kind, w, s, NoId, FALSE, revision, whRevision)
      \/ Submit("pause", w, s, NoId, FALSE, 0, whRevision)

(* Every return of a handler: the mutex is released and a transaction still open rolled back. *)
Return == at' = "idle" /\ request' = NoRequest

(* A cancelled request, a lost connection, a deadline, a restart of the service, or a deadlock *)
(* with the import or a reservation the database ends.                                          *)
Fail ==
  /\ at # "idle"
  /\ Return
  /\ UNCHANGED <<tables, others>>

Here == binding[request.wh][request.shop]

(* checkWarehouseSetup, and the comparison of the versions behind it.  What other systems answer *)
(* is any outcome, but a shop that is off or an id that is not set never passes.                 *)
CheckSetup ==
  /\ at = "setup" /\ FreeConnection
  /\ \E ready \in BOOLEAN :
       /\ ready => shop[request.shop] /\ Here.id # NoId
       /\ IF \/ request.revision # Here.revision
             \/ request.whRevision # warehouse[request.wh].revision
             \/ request.kind = "activate" /\ ~ready
          THEN Return
          ELSE at' = "begin" /\ request' = [request EXCEPT !.ready = ready, !.id = Here.id]
  /\ UNCHANGED <<tables, others>>

FirstStatement == CASE request.kind = "save" -> "read"
                    [] request.kind = "activate" -> "share"
                    [] OTHER -> "write"

Begin ==
  /\ at = "begin" /\ FreeConnection
  /\ at' = "lock" /\ UNCHANGED request
  /\ UNCHANGED <<tables, others>>

(* The transaction begins with the row of the warehouse, FOR UPDATE.  Whoever shares the row may *)
(* be joined by others while the request waits: a share lock is granted beside a share lock,     *)
(* whoever else is in line.                                                                      *)
LockRow ==
  /\ at = "lock"
  /\ ~WarehouseShared(request.wh)
  /\ IF request.whRevision # warehouse[request.wh].revision
     THEN Return
     ELSE at' = FirstStatement /\ UNCHANGED request
  /\ UNCHANGED <<tables, others>>

(* SaveWarehouseBinding reads the binding inside its transaction, through another connection. *)
ReadPrevious ==
  /\ at = "read" /\ FreeConnection
  /\ IF request.revision # Here.revision THEN Return ELSE at' = "write" /\ UNCHANGED request
  /\ UNCHANGED <<tables, others>>

SameAddress == request.id = Here.id /\ ~request.renamed

(* Mutant: a new address leaves the switch of the shop alone. *)
SavedStillOn(b) ==
  IF SameAddress THEN [b EXCEPT !.enabled = FALSE, !.revision = @ + 1]
  ELSE [b EXCEPT !.id = request.id, !.revision = @ + 1, !.verified = FALSE]

(* The same address pauses; a new one has to be checked. *)
Saved(b) ==
  IF SameAddress THEN [b EXCEPT !.enabled = FALSE, !.revision = @ + 1]
  ELSE [revision |-> b.revision + 1, id |-> request.id, enabled |-> FALSE, verified |-> FALSE]

(* The unique index on the ids of a shop. *)
Taken == \E w \in Warehouses \ {request.wh} : binding[w][request.shop].id = request.id

PutBinding(new) == binding' = [binding EXCEPT ![request.wh][request.shop] = new]

Vouch == vouched' = [vouched EXCEPT ![request.wh][request.shop] = request.id]

Save ==
  /\ at = "write" /\ request.kind = "save"
  /\ ~BindingShared(request.wh, request.shop) /\ ~AwaitsImport
  /\ IF Taken THEN UNCHANGED binding ELSE PutBinding(Saved(Here))
  /\ Return
  /\ UNCHANGED <<warehouse, shop, imported, vouched, others>>

(* SaveWarehouseVerification: a check that fails leaves an enabled binding verified. *)
Verify ==
  /\ at = "write" /\ request.kind = "check"
  /\ IF Here.revision # request.revision \/ Here.revision = 0
     THEN UNCHANGED <<binding, vouched>>
     ELSE /\ ~BindingShared(request.wh, request.shop)
          /\ PutBinding([Here EXCEPT !.verified = request.ready \/ (Here.enabled /\ @)])
          /\ IF request.ready THEN Vouch ELSE UNCHANGED vouched
  /\ Return
  /\ UNCHANGED <<warehouse, shop, imported, others>>

(* Mutant: the shop found by the check is taken for granted. *)
ShareShopUnread ==
  /\ at = "share"
  /\ at' = "write" /\ UNCHANGED request
  /\ UNCHANGED <<tables, others>>

(* ActivateWarehouseBinding asks again for the switch of the shop, and holds it. *)
ShareShop ==
  /\ at = "share"
  /\ IF shop[request.shop] THEN at' = "write" /\ UNCHANGED request ELSE Return
  /\ UNCHANGED <<tables, others>>

Bumped(w, enabled) == [warehouse EXCEPT ![w] = [enabled |-> enabled, revision |-> @.revision + 1]]

Activate ==
  /\ at = "write" /\ request.kind = "activate"
  /\ IF Here.revision # request.revision \/ Here.id = NoId
     THEN UNCHANGED <<binding, warehouse, vouched>>
     ELSE /\ ~BindingShared(request.wh, request.shop)
          /\ PutBinding([Here EXCEPT !.enabled = TRUE, !.verified = TRUE, !.revision = @ + 1])
          /\ warehouse' = Bumped(request.wh, TRUE)
          /\ Vouch
  /\ Return
  /\ UNCHANGED <<shop, imported, others>>

(* PauseFulfillmentWarehouse *)
Pause ==
  /\ at = "write" /\ request.kind = "pause"
  /\ warehouse' = Bumped(request.wh, FALSE)
  /\ Return
  /\ UNCHANGED <<binding, shop, imported, vouched, others>>

ConsoleStep ==
  CheckSetup \/ Begin \/ LockRow \/ ReadPrevious \/ Save \/ Verify \/ ShareShop \/ Activate \/ Pause

--------------------------------------------------------------------------------
(* The switch of a shop: FOR UPDATE, then the new value *)

SwitchShop(s) ==
  /\ FreeConnection
  /\ ~ShopShared(s)
  /\ shop' = [shop EXCEPT ![s] = ~@]
  /\ UNCHANGED <<warehouse, binding, imported, vouched, console, others>>

--------------------------------------------------------------------------------
(* The import of the legacy bindings, repeated until every shop is done *)

Importing(new) ==
  /\ importing' = new
  /\ UNCHANGED <<console, reserving>>

ListShops ==
  /\ importing.at = "idle" /\ imported # Shops
  /\ Importing([importing EXCEPT !.at = "shops", !.enabled = shop])
  /\ UNCHANGED tables

BeginImport(s) ==
  /\ importing.at = "shops" /\ s \notin imported /\ FreeConnection
  /\ Importing([importing EXCEPT !.at = "insert", !.todo = {row \in Legacy : row.shop = s}])
  /\ UNCHANGED tables

Conflicts(row) ==
  \/ binding[row.wh][row.shop].revision > 0
  \/ \E w \in Warehouses : binding[w][row.shop].id = row.id
  \/ \E other \in importing.rows : other.wh = row.wh \/ other.id = row.id

(* ON CONFLICT DO NOTHING; the foreign key is checked behind the new row. *)
InsertRow(row) ==
  /\ importing.at = "insert" /\ row \in importing.todo
  /\ Importing(IF Conflicts(row) THEN [importing EXCEPT !.todo = @ \ {row}]
               ELSE [importing EXCEPT !.todo = @ \ {row}, !.row = row, !.at = "foreignKey"])
  /\ UNCHANGED tables

(* Mutant: the row counts as held and as waiting. *)
ShareKeyTwice ==
  /\ importing.at = "foreignKey"
  /\ ~LockedForUpdate(importing.row.wh)
  /\ Importing([importing EXCEPT !.at = "insert", !.rows = @ \cup {importing.row}])
  /\ UNCHANGED tables

ShareKey ==
  /\ importing.at = "foreignKey"
  /\ ~LockedForUpdate(importing.row.wh)
  /\ Importing([importing EXCEPT !.at = "insert", !.row = NoRow, !.rows = @ \cup {importing.row}])
  /\ UNCHANGED tables

RowFor(w, s) == {row \in importing.rows : row.wh = w /\ row.shop = s}

(* The rows are there and the shop is marked. *)
CommitImport(s) ==
  /\ importing.at = "insert" /\ importing.todo = {}
  /\ s \notin imported /\ \A row \in importing.rows : row.shop = s
  /\ binding' = [w \in Warehouses |-> [z \in Shops |->
       IF RowFor(w, z) = {} THEN binding[w][z]
       ELSE LET row == CHOOSE row \in RowFor(w, z) : TRUE
            IN [revision |-> 1, id |-> row.id, enabled |-> row.ships /\ importing.enabled[z],
                verified |-> TRUE]]]
  /\ vouched' = [w \in Warehouses |-> [z \in Shops |->
       IF RowFor(w, z) = {} THEN vouched[w][z] ELSE (CHOOSE row \in RowFor(w, z) : TRUE).id]]
  /\ imported' = imported \cup {s}
  /\ Importing([importing EXCEPT !.at = "shops", !.rows = {}])
  /\ UNCHANGED <<warehouse, shop>>

EndImport ==
  /\ importing.at = "shops" /\ imported = Shops
  /\ Importing(NotImporting)
  /\ UNCHANGED tables

(* An error of the legacy service or of the database (a deadlock among them), the deadline, a *)
(* restart: it begins anew.                                                                    *)
FailImport ==
  /\ importing.at # "idle"
  /\ Importing(NotImporting)
  /\ UNCHANGED tables

ImportStep ==
  \/ ListShops \/ ShareKey \/ EndImport
  \/ \E s \in Shops : BeginImport(s) \/ CommitImport(s)
  \/ \E row \in Legacy : InsertRow(row)

--------------------------------------------------------------------------------
(* Reservations, as far as they share rows and connections with the console *)

Reserve(r, new) ==
  /\ reserving' = [reserving EXCEPT ![r] = new]
  /\ UNCHANGED <<tables, console, importing>>

(* The connection, and the row of the binding. *)
LockBinding(r, w, s) ==
  /\ reserving[r] = NoReservation /\ FreeConnection
  /\ binding[w][s].revision > 0
  /\ Changes < MaxChanges
  /\ Reserve(r, [at |-> "warehouse", wh |-> w, shop |-> s])

LockWarehouse(r) ==
  /\ reserving[r] # NoReservation /\ ~Working(r)
  /\ ~LockedForUpdate(reserving[r].wh)
  /\ Reserve(r, [reserving[r] EXCEPT !.at = "working"])

(* Mutant: a reservation without a deadline waits for its locks. *)
EndReservationUntimed(r) ==
  /\ Working(r)
  /\ Reserve(r, NoReservation)

(* It is done, refused, or out of time, whatever it is waiting for. *)
EndReservation(r) ==
  /\ reserving[r] # NoReservation
  /\ Reserve(r, NoReservation)

ReserveStep == \E r \in Callers : LockWarehouse(r) \/ EndReservation(r)

Next ==
  \/ Arrives \/ ConsoleStep \/ Fail
  \/ \E s \in Shops : SwitchShop(s)
  \/ ImportStep \/ FailImport
  \/ \E r \in Callers, w \in Warehouses, s \in Shops : LockBinding(r, w, s)
  \/ ReserveStep

(* The console goes on when it can.  It is not passed over for ever where it asks the pool, which *)
(* hands connections on in the order they were asked for, nor where the row it waits for is free  *)
(* again and again, as between two attempts of the import; but it has no deadline of its own.     *)
(* The import and the reservations have deadlines (60 s and 30 s) that end them wherever they     *)
(* are; nothing else is asked of them, and new reservations may come in at any time.              *)
Spec ==
  /\ Init /\ [][Next]_vars
  /\ SF_vars(ConsoleStep) /\ WF_vars(FailImport) /\ \A r \in Callers : WF_vars(EndReservation(r))
--------------------------------------------------------------------------------
(* Properties *)

TypeOK ==
  /\ warehouse \in [Warehouses -> [enabled : BOOLEAN, revision : Nat]]
  /\ binding \in [Warehouses -> [Shops -> Binding]]
  /\ shop \in [Shops -> BOOLEAN]
  /\ imported \subseteq Shops
  /\ vouched \in [Warehouses -> [Shops -> Ids \cup {NoId}]]
  /\ at \in {"idle", "setup", "begin", "lock", "read", "share", "write"}
  /\ request \in Request \cup {NoRequest} /\ (request = NoRequest <=> at = "idle")
  /\ importing \in Import /\ (importing.row = NoRow <=> importing.at # "foreignKey")
  /\ reserving \in [Callers -> Reserving \cup {NoReservation}]

(* Only what the operator has seen is changed: a binding changes its version under a console     *)
(* request that was made from the version before, of a warehouse nobody has switched since, or   *)
(* it is new and comes from the import.  The import and the console check and write in separate  *)
(* statements; what keeps them apart is the lock a new row takes on its warehouse.               *)
SeenIsChanged ==
  [][\A w \in Warehouses, s \in Shops :
       binding'[w][s].revision # binding[w][s].revision =>
         \/ s \in imported' \ imported /\ binding[w][s].revision = 0
         \/ /\ at # "idle" /\ request.wh = w /\ request.shop = s
            /\ request.revision = binding[w][s].revision
            /\ request.whRevision = warehouse[w].revision]_vars

(* A shop ships to the address a check, or the legacy service, has vouched for: whatever was     *)
(* saved, checked and activated in between, from whichever page, the address has not changed     *)
(* since.                                                                                        *)
EnabledWasChecked ==
  \A w \in Warehouses, s \in Shops :
    binding[w][s].enabled => binding[w][s].verified /\ vouched[w][s] = binding[w][s].id

(* A shop that is switched off does not get a warehouse back through the console, even when it   *)
(* is switched off between the check and the activation.                                         *)
DisabledShopStaysOff ==
  [][\A w \in Warehouses, s \in Shops :
       (~shop[s] /\ binding'[w][s].enabled) => binding[w][s].enabled \/ imported' # imported]_vars

(* Reservations of the warehouse a console request is about, of whichever shop, come in. *)
ReservationsComeIn == at # "idle" /\ \E r \in Callers, s \in Shops : LockBinding(r, request.wh, s)

(* Every console request returns, and with it the mutex, although a save holds a connection and   *)
(* the row of the warehouse while it asks the pool for a second connection, which reservations    *)
(* that wait for that row may all have taken; reservations of other warehouses, however many, and *)
(* the import only delay it.  One thing can keep it waiting for ever: reservations of its own     *)
(* warehouse that never cease to come in, as their share locks may overlap without end            *)
(* (warehouse_management.go:49, inventory_reservations.go:63).                                    *)
ConsoleReturns == []<>(at = "idle") \/ []<><<ReservationsComeIn>>_vars
================================================================================
