----------------------- MODULE WarehouseManagement_proofs -----------------------
(***************************************************************************)
(* Proofs about WarehouseManagement.tla.  The check of a console request   *)
(* and its transaction are far apart, and the import writes in between.    *)
(* The inductive invariant says what still holds when the transaction      *)
(* writes: the version of the page is that of the row it has locked, a row *)
(* of the import is still new, and the address a check has looked at is    *)
(* the one of the binding unless the binding has a later version.          *)
(***************************************************************************)
EXTENDS MC_Console, OMSAccounts_proofs, Integers, TLAPS

(* The rows of an import under way. *)
Inserted == importing.rows \cup ({importing.row} \ {NoRow})

InsertedIsNew == \A row \in Inserted : binding[row.wh][row.shop].revision = 0

(* FOR UPDATE of the one, the foreign keys of the other. *)
WarehouseIsHeld ==
  HoldsRow =>
    /\ request.whRevision = warehouse[request.wh].revision
    /\ \A row \in importing.rows : row.wh # request.wh

KindFits ==
  /\ at = "read" => request.kind = "save"
  /\ at = "share" => request.kind = "activate"

PageIsCurrent == (at = "write" /\ request.kind = "save") => request.revision = Here.revision

CheckedAddress ==
  (at \in {"begin", "lock", "share", "write"} /\ request.kind \in {"check", "activate"}) =>
    /\ request.revision <= Here.revision
    /\ request.revision = Here.revision => request.id = Here.id

ShopIsHeld == (at = "write" /\ request.kind = "activate") => shop[request.shop]

NewIsEmpty ==
  \A w \in Warehouses, s \in Shops : binding[w][s].revision = 0 => binding[w][s].id = NoId

ManagementInv ==
  /\ TypeOK
  /\ InsertedIsNew
  /\ WarehouseIsHeld
  /\ KindFits
  /\ PageIsCurrent
  /\ CheckedAddress
  /\ ShopIsHeld
  /\ NewIsEmpty
  /\ EnabledWasChecked

LEMMA InitManaged == Init => ManagementInv
<1> SUFFICES ASSUME Init PROVE ManagementInv
  OBVIOUS
<1>1. TypeOK
  BY ManagementAssumption DEF Init, TypeOK, Binding, NoBinding, Import, NotImporting
<1> QED
  BY <1>1 DEF Init, ManagementInv, InsertedIsNew, Inserted, WarehouseIsHeld, HoldsRow, KindFits, PageIsCurrent,
     CheckedAddress, ShopIsHeld, NewIsEmpty, EnabledWasChecked, NoBinding, NotImporting

--------------------------------------------------------------------------------
(* Steps that only move the request *)

(* What a step of the request that writes nothing has to show. *)
LEMMA Moves ==
  ASSUME ManagementInv, UNCHANGED <<tables, others>>,
         at' \in {"idle", "setup", "begin", "lock", "read", "share", "write"},
         request' \in Request \cup {NoRequest}, request' = NoRequest <=> at' = "idle",
         WarehouseIsHeld', KindFits', PageIsCurrent', CheckedAddress', ShopIsHeld'
  PROVE  ManagementInv'
<1>1. TypeOK'
  BY DEF ManagementInv, TypeOK, tables, others
<1> QED
  BY <1>1 DEF ManagementInv, InsertedIsNew, Inserted, NewIsEmpty, EnabledWasChecked, tables, others

LEMMA ReturnsManaged ==
  ASSUME ManagementInv, Return, UNCHANGED <<tables, others>>
  PROVE  ManagementInv'
BY Moves DEF Return, WarehouseIsHeld, HoldsRow, KindFits, PageIsCurrent, CheckedAddress, ShopIsHeld

LEMMA ArrivesManaged ==
  ASSUME ManagementInv, Arrives
  PROVE  ManagementInv'
<1>1. PICK w \in Warehouses, s \in Shops, kind \in Kinds, id \in Ids \cup {NoId}, renamed \in BOOLEAN,
           revision \in Nat, whRevision \in Nat :
        /\ Submit(kind, w, s, id, renamed, revision, whRevision)
        /\ kind \in {"check", "activate"} => id = NoId
  <2>1. PICK w \in Warehouses, s \in Shops :
          \E revision \in 0 .. binding[w][s].revision, whRevision \in 1 .. warehouse[w].revision :
            \/ \E id \in Ids : Submit("save", w, s, id, FALSE, revision, whRevision)
            \/ Submit("save", w, s, binding[w][s].id, TRUE, revision, whRevision) /\ binding[w][s].id # NoId
            \/ \E kind \in {"check", "activate"} : Submit(kind, w, s, NoId, FALSE, revision, whRevision)
            \/ Submit("pause", w, s, NoId, FALSE, 0, whRevision)
    BY DEF Arrives
  <2>2. binding[w][s] \in Binding /\ warehouse[w] \in [enabled : BOOLEAN, revision : Nat]
    BY DEF ManagementInv, TypeOK
  <2>3. binding[w][s].revision \in Nat /\ binding[w][s].id \in Ids \cup {NoId} /\ warehouse[w].revision \in Nat
    BY <2>2 DEF Binding
  <2>4. PICK revision \in 0 .. binding[w][s].revision, whRevision \in 1 .. warehouse[w].revision :
            \/ \E id \in Ids : Submit("save", w, s, id, FALSE, revision, whRevision)
            \/ Submit("save", w, s, binding[w][s].id, TRUE, revision, whRevision) /\ binding[w][s].id # NoId
            \/ \E kind \in {"check", "activate"} : Submit(kind, w, s, NoId, FALSE, revision, whRevision)
            \/ Submit("pause", w, s, NoId, FALSE, 0, whRevision)
    BY <2>1
  <2>5. revision \in Nat /\ whRevision \in Nat /\ 0 \in Nat
    BY <2>3, <2>4
  <2> HIDE DEF Submit
  <2> QED  BY <2>3, <2>4, <2>5 DEF Kinds
<1>2. request' \in Request
  BY <1>1 DEF Submit, Request
<1>3. at' \in {"setup", "begin"} /\ (at' = "begin" => request'.kind \notin {"check", "activate"})
  BY <1>1 DEF Submit
<1>4. request' # NoRequest
  BY <1>2, NothingAssumption
<1> QED
  BY <1>1, <1>2, <1>3, <1>4, Moves DEF Submit, WarehouseIsHeld, HoldsRow, KindFits, PageIsCurrent, CheckedAddress, ShopIsHeld

LEMMA CheckSetupManaged ==
  ASSUME ManagementInv, CheckSetup
  PROVE  ManagementInv'
<1>0. UNCHANGED <<tables, others>>
  BY DEF CheckSetup
<1>1. CASE Return
  BY <1>0, <1>1, ReturnsManaged
<1>2. ASSUME NEW ready \in BOOLEAN, at' = "begin",
             request' = [request EXCEPT !.ready = ready, !.id = Here.id],
             request.revision = Here.revision
      PROVE  ManagementInv'
  <2>1. request \in Request
    BY NothingAssumption DEF CheckSetup, ManagementInv, TypeOK
  <2>2. Here \in Binding /\ request.wh \in Warehouses /\ request.shop \in Shops /\ request.revision \in Nat
    BY <2>1 DEF Here, Request, ManagementInv, TypeOK
  <2>3. Here.id \in Ids \cup {NoId}
    BY <2>2 DEF Binding
  <2>4. request' \in Request
    BY <1>2, <2>1, <2>3 DEF Request
  <2>5. request'.wh = request.wh /\ request'.shop = request.shop /\ request'.revision = request.revision
        /\ request'.id = Here.id
    BY <1>2, <2>1 DEF Request
  <2>6. Here' = Here
    BY <1>0, <2>5 DEF Here, tables
  <2>7. CheckedAddress'
    BY <1>2, <2>2, <2>5, <2>6 DEF CheckedAddress
  <2> QED
    BY <1>0, <1>2, <2>4, <2>7, Moves, NothingAssumption DEF WarehouseIsHeld, HoldsRow, KindFits, PageIsCurrent, ShopIsHeld
<1> QED  BY <1>1, <1>2 DEF CheckSetup

LEMMA BeginManaged ==
  ASSUME ManagementInv, Begin
  PROVE  ManagementInv'
<1>1. UNCHANGED <<tables, others>> /\ at' = "lock" /\ request' = request
  BY DEF Begin
<1>2. request \in Request /\ request # NoRequest
  BY NothingAssumption DEF Begin, ManagementInv, TypeOK
<1>3. Here' = Here
  BY <1>1 DEF Here, tables
<1>4. CheckedAddress'
  BY <1>1, <1>3 DEF CheckedAddress, Begin, ManagementInv
<1>5. WarehouseIsHeld' /\ KindFits' /\ PageIsCurrent' /\ ShopIsHeld'
  BY <1>1 DEF WarehouseIsHeld, HoldsRow, KindFits, PageIsCurrent, ShopIsHeld
<1> QED  BY <1>1, <1>2, <1>4, <1>5, Moves

LEMMA LockRowManaged ==
  ASSUME ManagementInv, LockRow
  PROVE  ManagementInv'
<1>0. UNCHANGED <<tables, others>>
  BY DEF LockRow
<1>1. CASE Return
  BY <1>0, <1>1, ReturnsManaged
<1>2. CASE at' = FirstStatement /\ request' = request /\ request.whRevision = warehouse[request.wh].revision
  <2>1. request \in Request /\ request # NoRequest
    BY NothingAssumption DEF LockRow, ManagementInv, TypeOK
  <2>2. at' \in {"read", "share", "write"}
    BY <1>2 DEF FirstStatement
  <2>3. WarehouseIsHeld'
    BY <1>0, <1>2 DEF LockRow, WarehouseIsHeld, WarehouseShared, tables, others
  <2>4. KindFits' /\ PageIsCurrent' /\ ShopIsHeld'
    BY <1>2 DEF KindFits, FirstStatement, PageIsCurrent, ShopIsHeld
  <2>5. Here' = Here
    BY <1>0, <1>2 DEF Here, tables
  <2>6. CheckedAddress'
    BY <1>2, <2>5 DEF CheckedAddress, LockRow, ManagementInv
  <2> QED  BY <1>0, <1>2, <2>1, <2>2, <2>3, <2>4, <2>6, Moves
<1> QED  BY <1>1, <1>2 DEF LockRow

LEMMA ReadPreviousManaged ==
  ASSUME ManagementInv, ReadPrevious
  PROVE  ManagementInv'
<1>0. UNCHANGED <<tables, others>>
  BY DEF ReadPrevious
<1>1. CASE Return
  BY <1>0, <1>1, ReturnsManaged
<1>2. CASE at' = "write" /\ request' = request /\ request.revision = Here.revision
  <2>1. request \in Request /\ request # NoRequest
    BY NothingAssumption DEF ReadPrevious, ManagementInv, TypeOK
  <2>2. WarehouseIsHeld'
    BY <1>0, <1>2 DEF ReadPrevious, ManagementInv, WarehouseIsHeld, HoldsRow, tables, others
  <2>3. request.kind = "save"
    BY DEF ReadPrevious, ManagementInv, KindFits
  <2>4. Here' = Here
    BY <1>0, <1>2 DEF Here, tables
  <2>5. KindFits' /\ PageIsCurrent' /\ ShopIsHeld' /\ CheckedAddress'
    BY <1>2, <2>3, <2>4 DEF KindFits, PageIsCurrent, ShopIsHeld, CheckedAddress
  <2> QED  BY <1>0, <1>2, <2>1, <2>2, <2>5, Moves
<1> QED  BY <1>1, <1>2 DEF ReadPrevious

LEMMA ShareShopManaged ==
  ASSUME ManagementInv, ShareShop
  PROVE  ManagementInv'
<1>0. UNCHANGED <<tables, others>>
  BY DEF ShareShop
<1>1. CASE Return
  BY <1>0, <1>1, ReturnsManaged
<1>2. CASE at' = "write" /\ request' = request /\ shop[request.shop]
  <2>1. request \in Request /\ request # NoRequest
    BY NothingAssumption DEF ShareShop, ManagementInv, TypeOK
  <2>2. WarehouseIsHeld'
    BY <1>0, <1>2 DEF ShareShop, ManagementInv, WarehouseIsHeld, HoldsRow, tables, others
  <2>3. request.kind = "activate"
    BY DEF ShareShop, ManagementInv, KindFits
  <2>4. Here' = Here
    BY <1>0, <1>2 DEF Here, tables
  <2>5. CheckedAddress'
    BY <1>2, <2>4 DEF CheckedAddress, ShareShop, ManagementInv
  <2>6. KindFits' /\ PageIsCurrent' /\ ShopIsHeld'
    BY <1>0, <1>2, <2>3 DEF KindFits, PageIsCurrent, ShopIsHeld, tables
  <2> QED  BY <1>0, <1>2, <2>1, <2>2, <2>5, <2>6, Moves
<1> QED  BY <1>1, <1>2 DEF ShareShop

--------------------------------------------------------------------------------
(* Steps that write a binding *)

LEMMA RequestTyped ==
  ASSUME ManagementInv, at # "idle"
  PROVE  /\ request \in Request
         /\ request.wh \in Warehouses /\ request.shop \in Shops /\ request.id \in Ids \cup {NoId}
         /\ request.revision \in Nat /\ request.ready \in BOOLEAN
         /\ Here \in Binding
         /\ Here.revision \in Nat /\ Here.id \in Ids \cup {NoId} /\ Here.enabled \in BOOLEAN
         /\ Here.verified \in BOOLEAN
<1>1. request \in Request
  BY DEF ManagementInv, TypeOK
<1>2. request.wh \in Warehouses /\ request.shop \in Shops /\ request.id \in Ids \cup {NoId}
      /\ request.revision \in Nat /\ request.ready \in BOOLEAN
  BY <1>1 DEF Request
<1>3. Here \in Binding
  BY <1>2 DEF ManagementInv, TypeOK, Here
<1> QED  BY <1>1, <1>2, <1>3 DEF Binding

LEMMA Put ==
  ASSUME ManagementInv, NEW new \in Binding, PutBinding(new), at # "idle"
  PROVE  /\ binding' \in [Warehouses -> [Shops -> Binding]]
         /\ binding'[request.wh][request.shop] = new
         /\ \A w \in Warehouses, s \in Shops :
              (w # request.wh \/ s # request.shop) => binding'[w][s] = binding[w][s]
BY RequestTyped DEF PutBinding, ManagementInv, TypeOK

LEMMA VouchTyped ==
  ASSUME ManagementInv, Vouch, at # "idle"
  PROVE  /\ vouched' \in [Warehouses -> [Shops -> Ids \cup {NoId}]]
         /\ vouched'[request.wh][request.shop] = request.id
         /\ \A w \in Warehouses, s \in Shops :
              (w # request.wh \/ s # request.shop) => vouched'[w][s] = vouched[w][s]
BY RequestTyped DEF Vouch, ManagementInv, TypeOK

(* A row of the import is never the one a request writes. *)
LEMMA PutManaged ==
  ASSUME ManagementInv, at = "write", Return, UNCHANGED <<shop, imported, others>>,
         warehouse' \in [Warehouses -> [enabled : BOOLEAN, revision : Nat]],
         NEW new \in Binding, PutBinding(new), new.revision > 0,
         \A row \in Inserted : row.wh # request.wh \/ row.shop # request.shop,
         vouched' = vouched \/ Vouch,
         new.enabled => new.verified /\ vouched'[request.wh][request.shop] = new.id
  PROVE  ManagementInv'
<1>1. vouched' \in [Warehouses -> [Shops -> Ids \cup {NoId}]]
      /\ \A w \in Warehouses, s \in Shops :
           (w # request.wh \/ s # request.shop) => vouched'[w][s] = vouched[w][s]
  <2>1. CASE vouched' = vouched
    BY <2>1 DEF ManagementInv, TypeOK
  <2> QED  BY <2>1, VouchTyped
<1>2. TypeOK'
  <2>1. request' = NoRequest /\ at' = "idle"
    BY DEF Return
  <2> QED  BY <1>1, <2>1, Put DEF ManagementInv, TypeOK, others
<1>3. Inserted' = Inserted /\ Inserted \subseteq Legacy
  BY DEF Inserted, others, ManagementInv, TypeOK, Import
<1>4. \A row \in Inserted : row.wh \in Warehouses /\ row.shop \in Shops
  BY <1>3, ManagementAssumption
<1>5. InsertedIsNew'
  BY <1>3, <1>4, Put DEF InsertedIsNew, ManagementInv
<1>6. NewIsEmpty'
  <2> SUFFICES ASSUME NEW w \in Warehouses, NEW s \in Shops, binding'[w][s].revision = 0
               PROVE  binding'[w][s].id = NoId
    BY DEF NewIsEmpty
  <2>1. w # request.wh \/ s # request.shop
    BY Put
  <2> QED  BY <2>1, Put DEF NewIsEmpty, ManagementInv
<1>7. EnabledWasChecked'
  <2> SUFFICES ASSUME NEW w \in Warehouses, NEW s \in Shops, binding'[w][s].enabled
               PROVE  binding'[w][s].verified /\ vouched'[w][s] = binding'[w][s].id
    BY DEF EnabledWasChecked
  <2>1. CASE w = request.wh /\ s = request.shop
    BY <2>1, Put
  <2>2. CASE w # request.wh \/ s # request.shop
    <3>1. binding'[w][s] = binding[w][s] /\ vouched'[w][s] = vouched[w][s]
      BY <2>2, Put, <1>1
    <3>2. binding[w][s].enabled
      BY <3>1
    <3>3. binding[w][s].verified /\ vouched[w][s] = binding[w][s].id
      BY <3>2 DEF EnabledWasChecked, ManagementInv
    <3> QED  BY <3>1, <3>3
  <2> QED  BY <2>1, <2>2
<1> QED
  BY <1>2, <1>5, <1>6, <1>7 DEF ManagementInv, Return, WarehouseIsHeld, HoldsRow, KindFits, PageIsCurrent,
     CheckedAddress, ShopIsHeld

(* Where there is a binding there is no row of the import for it. *)
LEMMA NotInserted ==
  ASSUME ManagementInv, Here.revision > 0
  PROVE  \A row \in Inserted : row.wh # request.wh \/ row.shop # request.shop
BY DEF ManagementInv, InsertedIsNew, Here

LEMMA SaveManaged ==
  ASSUME ManagementInv, Save
  PROVE  ManagementInv'
<1>1. CASE Taken
  BY <1>1, ReturnsManaged DEF Save, tables
<1>2. CASE ~Taken
  <2> DEFINE new == Saved(Here)
  <2>1. new \in Binding /\ new.revision > 0 /\ ~new.enabled
    <3>1. at # "idle" /\ Here.revision + 1 \in Nat /\ Here.revision + 1 > 0
      BY RequestTyped DEF Save
    <3>2. CASE SameAddress
      <4>1. new = [Here EXCEPT !.enabled = FALSE, !.revision = Here.revision + 1]
        BY <3>2 DEF Saved
      <4> QED  BY <3>1, <4>1, RequestTyped DEF Binding
    <3>3. CASE ~SameAddress
      <4>1. new = [revision |-> Here.revision + 1, id |-> request.id, enabled |-> FALSE, verified |-> FALSE]
        BY <3>3 DEF Saved
      <4> QED  BY <3>1, <4>1, RequestTyped DEF Binding
    <3> QED  BY <3>2, <3>3
  <2>2. \A row \in Inserted : row.wh # request.wh \/ row.shop # request.shop
    BY DEF Save, AwaitsImport, Inserted
  <2>3. PutBinding(new) /\ warehouse' \in [Warehouses -> [enabled : BOOLEAN, revision : Nat]]
    BY <1>2 DEF Save, ManagementInv, TypeOK
  <2> HIDE DEF new
  <2> QED  BY <2>1, <2>2, <2>3, PutManaged DEF Save
<1> QED  BY <1>1, <1>2

LEMMA VerifyManaged ==
  ASSUME ManagementInv, Verify
  PROVE  ManagementInv'
<1>0. at = "write" /\ Return /\ UNCHANGED <<warehouse, shop, imported, others>>
  BY DEF Verify
<1>1. CASE UNCHANGED <<binding, vouched>>
  BY <1>0, <1>1, ReturnsManaged DEF tables
<1>2. CASE ~(Here.revision # request.revision \/ Here.revision = 0)
  <2> DEFINE new == [Here EXCEPT !.verified = request.ready \/ (Here.enabled /\ @)]
  <2>1. new \in Binding /\ new.revision = Here.revision /\ new.id = Here.id
        /\ new.enabled = Here.enabled
    BY <1>0, RequestTyped DEF Binding
  <2>2. new.verified = (request.ready \/ (Here.enabled /\ Here.verified))
    BY <1>0, RequestTyped DEF Binding
  <2>3. PutBinding(new) /\ (IF request.ready THEN Vouch ELSE UNCHANGED vouched)
    BY <1>2 DEF Verify
  <2>4. new.revision > 0
    BY <1>0, <1>2, <2>1, RequestTyped
  <2>5. \A row \in Inserted : row.wh # request.wh \/ row.shop # request.shop
    BY <2>1, <2>4, NotInserted
  <2>6. request.id = Here.id
    BY <1>0, <1>2 DEF Verify, ManagementInv, CheckedAddress
  <2>7. Here.enabled => Here.verified /\ vouched[request.wh][request.shop] = Here.id
    BY <1>0, RequestTyped DEF ManagementInv, EnabledWasChecked, Here
  <2>8. vouched' = vouched \/ Vouch
    BY <2>3
  <2>9. new.enabled => vouched'[request.wh][request.shop] = new.id
    <3>1. CASE request.ready
      BY <1>0, <2>1, <2>3, <2>6, <3>1, VouchTyped
    <3>2. CASE ~request.ready
      BY <2>1, <2>3, <2>7, <3>2
    <3> QED  BY <3>1, <3>2
  <2>10. new.enabled => new.verified
    BY <2>1, <2>2, <2>7
  <2>11. warehouse' \in [Warehouses -> [enabled : BOOLEAN, revision : Nat]]
    BY <1>0 DEF ManagementInv, TypeOK
  <2> HIDE DEF new
  <2> QED
    BY <1>0, <2>1, <2>3, <2>4, <2>5, <2>8, <2>9, <2>10, <2>11, PutManaged
<1> QED  BY <1>1, <1>2 DEF Verify

LEMMA BumpedTyped ==
  ASSUME TypeOK, NEW w \in Warehouses, NEW enabled \in BOOLEAN
  PROVE  Bumped(w, enabled) \in [Warehouses -> [enabled : BOOLEAN, revision : Nat]]
<1>1. warehouse[w].revision + 1 \in Nat
  BY DEF TypeOK
<1> QED  BY <1>1 DEF TypeOK, Bumped

LEMMA ActivateManaged ==
  ASSUME ManagementInv, Activate
  PROVE  ManagementInv'
<1>0. at = "write" /\ Return /\ UNCHANGED <<shop, imported, others>> /\ request.kind = "activate"
  BY DEF Activate
<1>1. CASE UNCHANGED <<binding, warehouse, vouched>>
  BY <1>0, <1>1, ReturnsManaged DEF tables
<1>2. CASE ~(Here.revision # request.revision \/ Here.id = NoId)
  <2> DEFINE new == [Here EXCEPT !.enabled = TRUE, !.verified = TRUE, !.revision = @ + 1]
  <2>1. new \in Binding /\ new.id = Here.id /\ new.revision > 0 /\ new.verified
    <3>1. Here.revision + 1 \in Nat /\ Here.revision + 1 > 0
      BY <1>0, RequestTyped
    <3> QED  BY <1>0, <3>1, RequestTyped DEF Binding
  <2>2. PutBinding(new) /\ Vouch /\ warehouse' = Bumped(request.wh, TRUE)
    BY <1>2 DEF Activate
  <2>3. Here.revision > 0
    BY <1>0, <1>2, RequestTyped DEF ManagementInv, NewIsEmpty, Here
  <2>4. \A row \in Inserted : row.wh # request.wh \/ row.shop # request.shop
    BY <2>3, NotInserted
  <2>5. request.id = Here.id
    BY <1>0, <1>2 DEF ManagementInv, CheckedAddress
  <2>6. vouched'[request.wh][request.shop] = new.id
    BY <1>0, <2>1, <2>2, <2>5, VouchTyped
  <2>7. warehouse' \in [Warehouses -> [enabled : BOOLEAN, revision : Nat]]
    BY <1>0, <2>2, RequestTyped, BumpedTyped DEF ManagementInv
  <2> HIDE DEF new
  <2> QED
    BY <1>0, <2>1, <2>2, <2>4, <2>6, <2>7, PutManaged
<1> QED  BY <1>1, <1>2 DEF Activate

LEMMA PauseManaged ==
  ASSUME ManagementInv, Pause
  PROVE  ManagementInv'
<1>1. warehouse' \in [Warehouses -> [enabled : BOOLEAN, revision : Nat]]
  BY RequestTyped, BumpedTyped DEF ManagementInv, Pause
<1>2. TypeOK'
  BY <1>1 DEF ManagementInv, TypeOK, Pause, Return, others
<1> QED
  BY <1>2 DEF Pause, ManagementInv, Return, InsertedIsNew, Inserted, NewIsEmpty, EnabledWasChecked, WarehouseIsHeld,
     HoldsRow, KindFits, PageIsCurrent, CheckedAddress, ShopIsHeld, others

--------------------------------------------------------------------------------
(* Steps beside the console *)

LEMMA SwitchManaged ==
  ASSUME ManagementInv, NEW s \in Shops, SwitchShop(s)
  PROVE  ManagementInv'
<1>1. TypeOK'
  <2>1. shop' \in [Shops -> BOOLEAN]
    BY ZenonT(60) DEF ManagementInv, TypeOK, SwitchShop
  <2> QED  BY <2>1 DEF ManagementInv, TypeOK, SwitchShop, console, others
<1>2. ShopIsHeld'
  <2> SUFFICES ASSUME at = "write", request.kind = "activate"
               PROVE  shop'[request.shop]
    BY DEF ShopIsHeld, SwitchShop, console
  <2>1. request.shop # s
    BY DEF SwitchShop, ShopShared
  <2>2. request.shop \in Shops
    BY RequestTyped
  <2>3. shop[request.shop]
    BY DEF ManagementInv, ShopIsHeld
  <2> QED  BY <2>1, <2>2, <2>3 DEF SwitchShop, ManagementInv, TypeOK
<1>3. UNCHANGED <<binding, vouched, warehouse, at, request, importing>>
  BY DEF SwitchShop, console, others
<1>4. InsertedIsNew' /\ WarehouseIsHeld'
  BY <1>3 DEF ManagementInv, InsertedIsNew, Inserted, WarehouseIsHeld, HoldsRow
<1>5. KindFits' /\ PageIsCurrent' /\ CheckedAddress' /\ NewIsEmpty' /\ EnabledWasChecked'
  BY <1>3 DEF ManagementInv, KindFits, PageIsCurrent, CheckedAddress, Here, NewIsEmpty, EnabledWasChecked
<1> QED  BY <1>1, <1>2, <1>4, <1>5 DEF ManagementInv

LEMMA ReserveManaged ==
  ASSUME ManagementInv, NEW r \in Callers, NEW new \in Reserving \cup {NoReservation}, Reserve(r, new)
  PROVE  ManagementInv'
<1>1. TypeOK'
  BY DEF ManagementInv, TypeOK, Reserve, tables, console
<1>2. UNCHANGED <<binding, vouched, warehouse, shop, at, request, importing>>
  BY DEF Reserve, tables, console
<1>3. InsertedIsNew' /\ WarehouseIsHeld' /\ ShopIsHeld'
  BY <1>2 DEF ManagementInv, InsertedIsNew, Inserted, WarehouseIsHeld, HoldsRow, ShopIsHeld
<1>4. KindFits' /\ PageIsCurrent' /\ CheckedAddress' /\ NewIsEmpty' /\ EnabledWasChecked'
  BY <1>2 DEF ManagementInv, KindFits, PageIsCurrent, CheckedAddress, Here, NewIsEmpty, EnabledWasChecked
<1> QED  BY <1>1, <1>3, <1>4 DEF ManagementInv

(* A step of the import that commits nothing. *)
LEMMA ImportingManaged ==
  ASSUME ManagementInv, NEW new \in Import, Importing(new), UNCHANGED tables,
         new.row = NoRow <=> new.at # "foreignKey",
         \A row \in new.rows \cup ({new.row} \ {NoRow}) :
           row \in Inserted \/ binding[row.wh][row.shop].revision = 0,
         HoldsRow => \A row \in new.rows : row.wh # request.wh
  PROVE  ManagementInv'
<1>1. TypeOK'
  BY DEF ManagementInv, TypeOK, Importing, tables, console
<1>2. UNCHANGED <<binding, vouched, warehouse, shop, at, request>> /\ importing' = new
  BY DEF Importing, tables, console
<1>3. InsertedIsNew'
  BY <1>2 DEF ManagementInv, InsertedIsNew, Inserted
<1>4. WarehouseIsHeld' /\ ShopIsHeld'
  BY <1>2 DEF ManagementInv, WarehouseIsHeld, HoldsRow, ShopIsHeld
<1>5. KindFits' /\ PageIsCurrent' /\ CheckedAddress' /\ NewIsEmpty' /\ EnabledWasChecked'
  BY <1>2 DEF ManagementInv, KindFits, PageIsCurrent, CheckedAddress, Here, NewIsEmpty, EnabledWasChecked
<1> QED  BY <1>1, <1>3, <1>4, <1>5 DEF ManagementInv

LEMMA ImportTyped ==
  ASSUME ManagementInv
  PROVE  /\ importing \in Import /\ (importing.row = NoRow <=> importing.at # "foreignKey")
         /\ importing.at \in {"idle", "shops", "insert", "foreignKey"}
         /\ importing.enabled \in [Shops -> BOOLEAN]
         /\ importing.todo \subseteq Legacy /\ importing.rows \subseteq Legacy
         /\ importing.row \in Legacy \cup {NoRow}
         /\ HoldsRow => \A row \in importing.rows : row.wh # request.wh
BY DEF ManagementInv, TypeOK, Import, WarehouseIsHeld

LEMMA ListShopsManaged ==
  ASSUME ManagementInv, ListShops
  PROVE  ManagementInv'
<1> DEFINE new == [importing EXCEPT !.at = "shops", !.enabled = shop]
<1>1. shop \in [Shops -> BOOLEAN] /\ importing.at = "idle"
  BY DEF ManagementInv, TypeOK, ListShops
<1>2. new \in Import /\ new.at = "shops" /\ new.row = importing.row /\ new.rows = importing.rows
  BY <1>1, ImportTyped DEF Import
<1>3. Importing(new) /\ UNCHANGED tables
  BY DEF ListShops
<1> HIDE DEF new
<1> QED  BY <1>1, <1>2, <1>3, ImportTyped, ImportingManaged DEF Inserted

LEMMA BeginImportManaged ==
  ASSUME ManagementInv, NEW s \in Shops, BeginImport(s)
  PROVE  ManagementInv'
<1> DEFINE new == [importing EXCEPT !.at = "insert", !.todo = {row \in Legacy : row.shop = s}]
<1>1. importing.at = "shops"
  BY DEF BeginImport
<1>2. new \in Import /\ new.at = "insert" /\ new.row = importing.row /\ new.rows = importing.rows
  BY <1>1, ImportTyped DEF Import
<1>3. Importing(new) /\ UNCHANGED tables
  BY DEF BeginImport
<1> HIDE DEF new
<1> QED  BY <1>1, <1>2, <1>3, ImportTyped, ImportingManaged DEF Inserted

LEMMA InsertManaged ==
  ASSUME ManagementInv, NEW row \in Legacy, InsertRow(row)
  PROVE  ManagementInv'
<1>1. importing.at = "insert" /\ UNCHANGED tables /\ importing.row = NoRow
  BY ImportTyped DEF InsertRow
<1>2. CASE Conflicts(row)
  <2> DEFINE new == [importing EXCEPT !.todo = @ \ {row}]
  <2>1. new \in Import /\ new.at = importing.at /\ new.row = importing.row /\ new.rows = importing.rows
    BY ImportTyped DEF Import
  <2>2. Importing(new)
    BY <1>2 DEF InsertRow
  <2> HIDE DEF new
  <2> QED  BY <1>1, <2>1, <2>2, ImportTyped, ImportingManaged DEF Inserted
<1>3. CASE ~Conflicts(row)
  <2> DEFINE new == [importing EXCEPT !.todo = @ \ {row}, !.row = row, !.at = "foreignKey"]
  <2>1. new \in Import /\ new.at = "foreignKey" /\ new.row = row /\ new.rows = importing.rows
    BY ImportTyped DEF Import
  <2>2. Importing(new)
    BY <1>3 DEF InsertRow
  <2>3. row.wh \in Warehouses /\ row.shop \in Shops /\ row # NoRow
    BY ManagementAssumption
  <2>4. binding[row.wh][row.shop].revision \in Nat
    BY <2>3 DEF ManagementInv, TypeOK, Binding
  <2>5. binding[row.wh][row.shop].revision = 0
    BY <1>3, <2>4 DEF Conflicts
  <2> HIDE DEF new
  <2> QED  BY <1>1, <2>1, <2>2, <2>3, <2>5, ImportTyped, ImportingManaged DEF Inserted
<1> QED  BY <1>2, <1>3

LEMMA ShareKeyManaged ==
  ASSUME ManagementInv, ShareKey
  PROVE  ManagementInv'
<1> DEFINE new == [importing EXCEPT !.at = "insert", !.row = NoRow, !.rows = @ \cup {importing.row}]
<1>1. importing.at = "foreignKey" /\ UNCHANGED tables /\ Importing(new)
  BY DEF ShareKey
<1>2. importing.row \in Legacy
  BY <1>1, ImportTyped
<1>3. new \in Import /\ new.at = "insert" /\ new.row = NoRow /\ new.rows = importing.rows \cup {importing.row}
  BY <1>2, ImportTyped DEF Import
<1>4. HoldsRow => importing.row.wh # request.wh
  BY DEF ShareKey, LockedForUpdate
<1>5. importing.row # NoRow
  BY <1>1, ImportTyped
<1> HIDE DEF new
<1> QED  BY <1>1, <1>3, <1>4, <1>5, ImportTyped, ImportingManaged DEF Inserted

LEMMA StopsManaged ==
  ASSUME ManagementInv, Importing(NotImporting), UNCHANGED tables
  PROVE  ManagementInv'
<1>1. NotImporting \in Import /\ NotImporting.at = "idle" /\ NotImporting.row = NoRow /\ NotImporting.rows = {}
  BY DEF NotImporting, Import
<1> QED  BY <1>1, ImportingManaged

(* The rows of the import that are committed were new, so every page that shows an earlier *)
(* version of them is out of date.                                                          *)
LEMMA CommitTables ==
  ASSUME ManagementInv, NEW s \in Shops, CommitImport(s), NEW w \in Warehouses, NEW z \in Shops
  PROVE  /\ binding'[w][z] \in Binding /\ vouched'[w][z] \in Ids \cup {NoId}
         /\ RowFor(w, z) = {} => binding'[w][z] = binding[w][z] /\ vouched'[w][z] = vouched[w][z]
         /\ RowFor(w, z) # {} =>
              /\ binding[w][z].revision = 0 /\ binding'[w][z].revision = 1
              /\ binding'[w][z].verified /\ vouched'[w][z] = binding'[w][z].id
              /\ z = s /\ ~(HoldsRow /\ request.wh = w)
<1>1. CASE RowFor(w, z) = {}
  <2>1. binding'[w][z] = binding[w][z] /\ vouched'[w][z] = vouched[w][z]
    BY <1>1 DEF CommitImport
  <2> QED  BY <1>1, <2>1 DEF ManagementInv, TypeOK
<1>2. CASE RowFor(w, z) # {}
  <2> DEFINE row == CHOOSE row \in RowFor(w, z) : TRUE
  <2>1. row \in RowFor(w, z)
    BY <1>2
  <2>2. binding'[w][z] = [revision |-> 1, id |-> row.id, enabled |-> row.ships /\ importing.enabled[z],
                          verified |-> TRUE]
    BY <1>2 DEF CommitImport
  <2>3. vouched'[w][z] = row.id
    BY <1>2 DEF CommitImport
  <2> HIDE DEF row
  <2>4. row \in importing.rows /\ row.wh = w /\ row.shop = z
    BY <2>1 DEF RowFor
  <2>5. row \in Legacy /\ row.id \in Ids /\ row.ships \in BOOLEAN
    BY <2>4, ImportTyped, ManagementAssumption
  <2>6. (row.ships /\ importing.enabled[z]) \in BOOLEAN
    OBVIOUS
  <2>7. binding'[w][z] \in Binding
    BY <2>2, <2>5, <2>6 DEF Binding
  <2>8. binding[w][z].revision = 0
    BY <2>4 DEF ManagementInv, InsertedIsNew, Inserted
  <2>9. z = s /\ ~(HoldsRow /\ request.wh = w)
    BY <2>4, ImportTyped DEF CommitImport
  <2> QED  BY <1>2, <2>2, <2>3, <2>5, <2>7, <2>8, <2>9
<1> QED  BY <1>1, <1>2

LEMMA CommitManaged ==
  ASSUME ManagementInv, NEW s \in Shops, CommitImport(s)
  PROVE  ManagementInv'
<1> DEFINE new == [importing EXCEPT !.at = "shops", !.rows = {}]
<1>1. importing' = new /\ importing.at = "insert" /\ UNCHANGED <<warehouse, shop, at, request, reserving>>
      /\ imported' = imported \cup {s}
  BY DEF CommitImport, Importing, console
<1>2. new \in Import /\ new.at = "shops" /\ new.row = NoRow /\ new.rows = {}
  BY <1>1, ImportTyped DEF Import
<1> HIDE DEF new
<1>3. binding' \in [Warehouses -> [Shops -> Binding]] /\ vouched' \in [Warehouses -> [Shops -> Ids \cup {NoId}]]
  <2>1. /\ binding' = [w \in Warehouses |-> [z \in Shops |-> binding'[w][z]]]
        /\ vouched' = [w \in Warehouses |-> [z \in Shops |-> vouched'[w][z]]]
    BY DEF CommitImport
  <2>2. \A w \in Warehouses, z \in Shops : binding'[w][z] \in Binding /\ vouched'[w][z] \in Ids \cup {NoId}
    BY CommitTables
  <2> QED  BY <2>1, <2>2
<1>4. TypeOK'
  BY <1>1, <1>2, <1>3 DEF ManagementInv, TypeOK
<1>5. InsertedIsNew' /\ WarehouseIsHeld'
  BY <1>1, <1>2 DEF InsertedIsNew, Inserted, WarehouseIsHeld, HoldsRow, ManagementInv
<1>6. KindFits' /\ ShopIsHeld'
  BY <1>1 DEF KindFits, ShopIsHeld, ManagementInv
<1>7. ASSUME at # "idle"
      PROVE  \/ Here' = Here
             \/ Here.revision = 0 /\ Here'.revision = 1 /\ ~HoldsRow
  BY <1>1, <1>7, CommitTables, RequestTyped DEF Here
<1>8. PageIsCurrent'
  <2> SUFFICES ASSUME at = "write", request.kind = "save" PROVE request.revision = Here'.revision
    BY <1>1 DEF PageIsCurrent
  <2> QED  BY <1>7 DEF PageIsCurrent, ManagementInv, HoldsRow
<1>9. CheckedAddress'
  <2> SUFFICES ASSUME at \in {"begin", "lock", "share", "write"}, request.kind \in {"check", "activate"}
               PROVE  /\ request.revision <= Here'.revision
                      /\ request.revision = Here'.revision => request.id = Here'.id
    BY <1>1 DEF CheckedAddress
  <2>1. /\ request.revision <= Here.revision
        /\ request.revision = Here.revision => request.id = Here.id
    BY DEF CheckedAddress, ManagementInv
  <2> QED  BY <1>7, <2>1, RequestTyped
<1>10. NewIsEmpty'
  <2> SUFFICES ASSUME NEW w \in Warehouses, NEW z \in Shops, binding'[w][z].revision = 0
               PROVE  binding'[w][z].id = NoId
    BY DEF NewIsEmpty
  <2>1. binding'[w][z] = binding[w][z]
    BY CommitTables
  <2> QED  BY <2>1 DEF NewIsEmpty, ManagementInv
<1>11. EnabledWasChecked'
  <2> SUFFICES ASSUME NEW w \in Warehouses, NEW z \in Shops, binding'[w][z].enabled
               PROVE  binding'[w][z].verified /\ vouched'[w][z] = binding'[w][z].id
    BY DEF EnabledWasChecked
  <2>1. CASE RowFor(w, z) = {}
    <3>1. binding'[w][z] = binding[w][z] /\ vouched'[w][z] = vouched[w][z]
      BY <2>1, CommitTables
    <3>2. binding[w][z].enabled
      BY <3>1
    <3>3. binding[w][z].verified /\ vouched[w][z] = binding[w][z].id
      BY <3>2 DEF EnabledWasChecked, ManagementInv
    <3> QED  BY <3>1, <3>3
  <2>2. CASE RowFor(w, z) # {}
    BY <2>2, CommitTables
  <2> QED  BY <2>1, <2>2
<1> QED  BY <1>4, <1>5, <1>6, <1>8, <1>9, <1>10, <1>11 DEF ManagementInv

--------------------------------------------------------------------------------
LEMMA StepManaged == ManagementInv /\ [Next]_vars => ManagementInv'
<1> SUFFICES ASSUME ManagementInv, [Next]_vars PROVE ManagementInv'
  OBVIOUS
<1>1. CASE Arrives \/ ConsoleStep \/ Fail
  BY <1>1, ArrivesManaged, CheckSetupManaged, BeginManaged, LockRowManaged, ReadPreviousManaged, ShareShopManaged, SaveManaged,
     VerifyManaged, ActivateManaged, PauseManaged, ReturnsManaged DEF ConsoleStep, Fail
<1>2. CASE \E s \in Shops : SwitchShop(s)
  BY <1>2, SwitchManaged
<1>3. CASE ImportStep \/ FailImport
  BY <1>3, ListShopsManaged, BeginImportManaged, InsertManaged, ShareKeyManaged, CommitManaged, StopsManaged
     DEF ImportStep, EndImport, FailImport
<1>4. ASSUME NEW r \in Callers, NEW w \in Warehouses, NEW s \in Shops, LockBinding(r, w, s)
      PROVE  ManagementInv'
  <2>1. [at |-> "warehouse", wh |-> w, shop |-> s] \in Reserving
    BY DEF Reserving
  <2> QED  BY <1>4, <2>1, ReserveManaged DEF LockBinding
<1>5. ASSUME NEW r \in Callers, LockWarehouse(r) PROVE ManagementInv'
  <2>1. reserving[r] \in Reserving
    BY <1>5 DEF LockWarehouse, ManagementInv, TypeOK
  <2>2. [reserving[r] EXCEPT !.at = "working"] \in Reserving
    BY <2>1 DEF Reserving
  <2> QED  BY <1>5, <2>2, ReserveManaged DEF LockWarehouse
<1>6. ASSUME NEW r \in Callers, EndReservation(r) PROVE ManagementInv'
  BY <1>6, ReserveManaged DEF EndReservation
<1>7. CASE UNCHANGED vars
  BY <1>7 DEF vars, tables, console, others, ManagementInv, TypeOK, InsertedIsNew, Inserted, WarehouseIsHeld,
     HoldsRow, KindFits, PageIsCurrent, CheckedAddress, Here, ShopIsHeld, NewIsEmpty, EnabledWasChecked
<1> QED  BY <1>1, <1>2, <1>3, <1>4, <1>5, <1>6, <1>7 DEF Next, ReserveStep

LEMMA AlwaysManaged == Spec => []ManagementInv
BY InitManaged, StepManaged, PTL DEF Spec

(* The tables, the request, the import and the reservations always have their types. *)
THEOREM ManagementTyped == Spec => []TypeOK
<1>1. ManagementInv => TypeOK
  BY DEF ManagementInv
<1> QED  BY <1>1, AlwaysManaged, PTL

(* A shop ships to an address that was checked, or that the legacy service vouched for, and that   *)
(* has not changed since, although the check, the activation and the import are transactions of    *)
(* their own (httpapi/warehouse_management.go:263).                                                 *)
THEOREM WhatShipsWasChecked == Spec => []EnabledWasChecked
<1>1. ManagementInv => EnabledWasChecked
  BY DEF ManagementInv
<1> QED  BY <1>1, AlwaysManaged, PTL

LEMMA WhoWrites ==
  ASSUME [Next]_vars, binding' # binding
  PROVE  Save \/ Verify \/ Activate \/ \E s \in Shops : CommitImport(s)
<1>1. CASE Arrives \/ Fail
  BY <1>1 DEF Arrives, Submit, Fail, tables
<1>2. CASE ConsoleStep
  BY <1>2 DEF ConsoleStep, CheckSetup, Begin, LockRow, ReadPrevious, ShareShop, Pause, tables
<1>3. CASE ImportStep \/ FailImport
  BY <1>3 DEF ImportStep, FailImport, ListShops, ShareKey, EndImport, BeginImport, InsertRow, tables
<1>4. CASE ReserveStep \/ \E r \in Callers, w \in Warehouses, s \in Shops : LockBinding(r, w, s)
  BY <1>4 DEF ReserveStep, LockBinding, LockWarehouse, EndReservation, Reserve, tables
<1>5. CASE (\E s \in Shops : SwitchShop(s)) \/ UNCHANGED vars
  BY <1>5 DEF SwitchShop, vars, tables
<1> QED  BY <1>1, <1>2, <1>3, <1>4, <1>5 DEF Next

LEMMA StepSeen ==
  ASSUME ManagementInv, [Next]_vars, NEW w \in Warehouses, NEW s \in Shops,
         binding'[w][s].revision # binding[w][s].revision
  PROVE  \/ s \in imported' \ imported /\ binding[w][s].revision = 0
         \/ /\ at # "idle" /\ request.wh = w /\ request.shop = s
            /\ request.revision = binding[w][s].revision
            /\ request.whRevision = warehouse[w].revision
<1>1. ASSUME NEW z \in Shops, CommitImport(z)
      PROVE  s \in imported' \ imported /\ binding[w][s].revision = 0
  <2>1. RowFor(w, s) # {}
    BY <1>1, CommitTables
  <2>2. binding[w][s].revision = 0 /\ s = z
    BY <1>1, <2>1, CommitTables
  <2> QED  BY <1>1, <2>2 DEF CommitImport
<1>2. ASSUME at = "write", Here.revision = request.revision, NEW new, PutBinding(new)
      PROVE  /\ at # "idle" /\ request.wh = w /\ request.shop = s
             /\ request.revision = binding[w][s].revision
             /\ request.whRevision = warehouse[w].revision
  <2>1. request.wh = w /\ request.shop = s
    BY <1>2, RequestTyped DEF PutBinding, ManagementInv, TypeOK
  <2>2. request.whRevision = warehouse[request.wh].revision
    BY <1>2 DEF ManagementInv, WarehouseIsHeld, HoldsRow
  <2> QED  BY <1>2, <2>1, <2>2 DEF Here
<1>3. CASE Save
  <2>1. at = "write" /\ Here.revision = request.revision
    BY <1>3 DEF Save, ManagementInv, PageIsCurrent
  <2> QED  BY <1>2, <1>3, <2>1 DEF Save
<1>4. CASE Verify
  BY <1>2, <1>4 DEF Verify
<1>5. CASE Activate
  BY <1>2, <1>5 DEF Activate
<1> QED  BY <1>1, <1>3, <1>4, <1>5, WhoWrites

(* Nothing is changed that the operator has not seen: the row and the warehouse have the versions *)
(* of the page, or the row is new and the import brings it (warehouse_management.go:280).          *)
THEOREM OnlyTheSeenIsChanged == Spec => SeenIsChanged
<1>1. ManagementInv /\ [Next]_vars =>
        [\A w \in Warehouses, s \in Shops :
           binding'[w][s].revision # binding[w][s].revision =>
             \/ s \in imported' \ imported /\ binding[w][s].revision = 0
             \/ /\ at # "idle" /\ request.wh = w /\ request.shop = s
                /\ request.revision = binding[w][s].revision
                /\ request.whRevision = warehouse[w].revision]_vars
  BY StepSeen
<1> QED  BY <1>1, AlwaysManaged, PTL DEF Spec, SeenIsChanged

LEMMA StepDisabled ==
  ASSUME ManagementInv, [Next]_vars, NEW w \in Warehouses, NEW s \in Shops, ~shop[s], binding'[w][s].enabled
  PROVE  binding[w][s].enabled \/ imported' # imported
<1>1. ASSUME NEW z \in Shops, CommitImport(z) PROVE imported' # imported
  BY <1>1 DEF CommitImport
<1>2. ASSUME at = "write", NEW new \in Binding, PutBinding(new), new.enabled => Here.enabled
      PROVE  binding[w][s].enabled
  <2>1. CASE w = request.wh /\ s = request.shop
    BY <1>2, <2>1, Put DEF Here
  <2>2. CASE w # request.wh \/ s # request.shop
    <3>1. binding'[w][s] = binding[w][s]
      BY <1>2, <2>2, Put
    <3> QED  BY <3>1
  <2> QED  BY <2>1, <2>2
<1>3. CASE binding' = binding
  BY <1>3
<1>4. CASE Save /\ binding' # binding
  <2>1. at = "write" /\ at # "idle" /\ PutBinding(Saved(Here))
    BY <1>4 DEF Save
  <2>2. Here.revision + 1 \in Nat
    BY <2>1, RequestTyped
  <2>3. Saved(Here) \in Binding /\ ~Saved(Here).enabled
    <3>1. CASE SameAddress
      <4>1. Saved(Here) = [Here EXCEPT !.enabled = FALSE, !.revision = Here.revision + 1]
        BY <3>1 DEF Saved
      <4> QED  BY <2>1, <2>2, <4>1, RequestTyped DEF Binding
    <3>2. CASE ~SameAddress
      <4>1. Saved(Here) = [revision |-> Here.revision + 1, id |-> request.id, enabled |-> FALSE, verified |-> FALSE]
        BY <3>2 DEF Saved
      <4> QED  BY <2>1, <2>2, <4>1, RequestTyped DEF Binding
    <3> QED  BY <3>1, <3>2
  <2> QED  BY <1>2, <2>1, <2>3
<1>5. CASE Verify /\ binding' # binding
  <2> DEFINE new == [Here EXCEPT !.verified = request.ready \/ (Here.enabled /\ @)]
  <2>1. at = "write" /\ at # "idle" /\ PutBinding(new)
    BY <1>5 DEF Verify
  <2>2. new \in Binding /\ new.enabled = Here.enabled
    BY <2>1, RequestTyped DEF Binding
  <2> HIDE DEF new
  <2>3. new.enabled => Here.enabled
    BY <2>2
  <2> QED  BY <1>2, <2>1, <2>2, <2>3
<1>6. CASE Activate /\ binding' # binding
  <2>1. at = "write" /\ shop[request.shop] /\ \E new : PutBinding(new)
    BY <1>6 DEF Activate, ManagementInv, ShopIsHeld
  <2>2. s # request.shop
    BY <2>1
  <2>3. binding'[w][s] = binding[w][s]
    BY <2>1, <2>2, RequestTyped DEF PutBinding, ManagementInv, TypeOK
  <2> QED  BY <2>3
<1> QED  BY <1>1, <1>3, <1>4, <1>5, <1>6, WhoWrites

(* A shop that is switched off gets no warehouse through the console: the activation asks for the *)
(* switch again in its transaction and holds the row until its end.                                 *)
THEOREM DisabledShopsStayOff == Spec => DisabledShopStaysOff
<1>1. ManagementInv /\ [Next]_vars =>
        [\A w \in Warehouses, s \in Shops :
           (~shop[s] /\ binding'[w][s].enabled) => binding[w][s].enabled \/ imported' # imported]_vars
  BY StepDisabled
<1> QED  BY <1>1, AlwaysManaged, PTL DEF Spec, DisabledShopStaysOff

--------------------------------------------------------------------------------
(* Both pages together, as the runs start them *)

(* The bindings and the accounts are well typed in every behaviour about either page *)
(* (store/warehouse_management.go, oms/client.go).                                   *)
THEOREM ConsoleTyped == MCSpec => []ConsoleTypeOK
<1> DEFINE Inv == ManagementInv /\ TokenInv
<1>1. MCInit => Inv
  BY InitManaged, InitTokens DEF MCInit
<1>2. Inv /\ [MCNext]_<<vars, omsVars, page>> => Inv'
  BY StepManaged, StepTokens DEF MCNext
<1>3. Inv => ConsoleTypeOK
  BY DEF ManagementInv, TokenInv, ConsoleTypeOK
<1> QED
  BY <1>1, <1>2, <1>3, PTL DEF MCSpec
================================================================================
