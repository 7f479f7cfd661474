---------------------- MODULE InventoryReservations_proofs ----------------------
(* Theorems about InventoryReservations.tla, for every set of calls, orders, warehouses, *)
(* SKUs and requests and every time to live.  Calls and orders need not be finite sets.   *)
EXTENDS InventoryReservations, FiniteSetFacts, FiniteSetTheorems, TLAPS

--------------------------------------------------------------------------------
(* Facts about rows and views *)

LEMMA DeadIsRow ==
  ASSUME NEW st \in Statuses
  PROVE  Dead(st) \in Row /\ Dead(st).status = st
BY NoneAssumption DEF Dead, NoRow, Row, Statuses

LEMMA ViewIsRow ==
  ASSUME TypeOK, NEW t \in Calls, NEW o \in Orders, NEW s \in Skus
  PROVE  View(t, o, s) \in Row
BY DEF TypeOK, View

LEMMA ClaimedIsRow ==
  ASSUME TypeOK, NEW t \in Calls, request[t] \in Requests, NEW s \in Skus
  PROVE  ClaimedRow(t, s) \in Row
BY RequestsAssumption, TimeAssumption DEF TypeOK, ClaimedRow, Row, Statuses

(* An UPDATE writes rows of the right shape into the private writes of its call. *)
LEMMA WriteType ==
  ASSUME TypeOK, NEW t \in Calls, NEW C, NEW new \in [Skus -> Row], Write(t, C, new)
  PROVE  pend' \in [Calls -> [Orders -> [Skus -> Row \cup {NoWrite}]]]
BY DEF TypeOK, Write

--------------------------------------------------------------------------------
(* Type correctness *)

LEMMA InitType == Init => TypeOK
BY NoneAssumption, DeadIsRow DEF Init, TypeOK, NoWrites, NoRow, Row, Statuses, Step

LEMMA EndType ==
  ASSUME TypeOK, NEW t \in Calls, End(t)
  PROVE  /\ pc' \in [Calls -> Step]
         /\ op' \in [Calls -> {"none", "reserve", "release"}]
         /\ order' \in [Calls -> Orders \cup {NoOrder}]
         /\ request' \in [Calls -> Requests \cup {NoRequest}]
         /\ now' \in [Calls -> Nat]
         /\ todo' \in [Calls -> SUBSET Resources]
         /\ held' \in [Calls -> SUBSET Resources]
         /\ pend' \in [Calls -> [Orders -> [Skus -> Row \cup {NoWrite}]]]
         /\ weighed' \in [Calls -> [Skus -> SUBSET (Orders \X Nat)]]
BY DEF TypeOK, End, NoWrites, Step

LEMMA StepType ==
  ASSUME TypeOK, NEW t \in Calls,
         Reserve(t) \/ ReleaseCall(t) \/ LockOrder(t) \/ Commit(t) \/ Abort(t),
         /\ pc[t] # "idle" => order[t] \in Orders
         /\ pc[t] \notin {"idle", "orderLock", "release", "commit"} => request[t] \in Requests
         /\ op[t] = "reserve" => request[t] \in Requests
  PROVE  TypeOK'
<1>1. ASSUME NEW o \in Orders, NEW r \in Requests, StartReserve(t, o, r)  PROVE TypeOK'
  BY <1>1 DEF StartReserve, Goto, TypeOK, Step
<1>2. CASE ShareBinding(t)
  BY <1>2 DEF ShareBinding, Goto, TypeOK, Step
<1>3. CASE RefusePaused(t)
  BY <1>3, EndType DEF RefusePaused, TypeOK
<1>4. CASE ExpireOrder(t)
  <2>1. pend' \in [Calls -> [Orders -> [Skus -> Row \cup {NoWrite}]]]
    BY <1>4, DeadIsRow, WriteType DEF ExpireOrder, Statuses
  <2>2. ReservationResources(t) \in SUBSET Resources
    BY <1>4, ViewIsRow, RequestsAssumption
    DEF ExpireOrder, ReservationResources, LoadActive, Resources, Row
  <2> QED
    BY <1>4, <2>1, <2>2 DEF ExpireOrder, Goto, TypeOK, Step
<1>5. CASE LockResource(t)
  BY <1>5 DEF LockResource, NextResource, Goto, TypeOK, Step
<1>6. CASE ExpireResource(t)
  <2>1. pend' \in [Calls -> [Orders -> [Skus -> Row \cup {NoWrite}]]]
    BY <1>6, DeadIsRow, WriteType DEF ExpireResource, Statuses
  <2>2. PICK res : /\ todo' = [todo EXCEPT ![t] = @ \ {res}]
                   /\ Goto(t, IF todo[t] = {res} THEN "decide" ELSE "resourceLock")
    BY <1>6 DEF ExpireResource
  <2>3. todo' \in [Calls -> SUBSET Resources]
    BY <2>2 DEF TypeOK
  <2>4. pc' \in [Calls -> Step]
    BY <2>2 DEF Goto, TypeOK, Step
  <2> QED
    BY <1>6, <2>1, <2>3, <2>4 DEF ExpireResource, TypeOK
<1>7. CASE Extend(t)
  <2>1. ASSUME NEW s \in Skus
        PROVE  [View(t, order[t], s) EXCEPT !.expires = now[t] + TTL] \in Row
    <3>1. View(t, order[t], s) \in Row
      BY <1>7, ViewIsRow DEF Extend
    <3>2. now[t] + TTL \in Nat
      BY TimeAssumption DEF TypeOK
    <3> QED
      BY <3>1, <3>2 DEF Row
  <2>2. pend' \in [Calls -> [Orders -> [Skus -> Row \cup {NoWrite}]]]
    BY <1>7, <2>1, WriteType DEF Extend
  <2> QED
    BY <1>7, <2>2 DEF Extend, Goto, TypeOK, Step
<1>8. CASE Weigh(t)
  <2>1. \A s \in Skus : ReservedByOthers(t, s) \in SUBSET (Orders \X Nat)
    BY ViewIsRow DEF ReservedByOthers, Row
  <2> QED
    BY <1>8, <2>1 DEF Weigh, Goto, TypeOK, Step
<1>9. CASE RefuseCapacity(t)
  BY <1>9, EndType DEF RefuseCapacity, TypeOK
<1>10. CASE Replace(t)
  <2>1. \A s \in Skus : ClaimedRow(t, s) \in Row
    BY <1>10, ClaimedIsRow DEF Replace
  <2>2. pend' \in [Calls -> [Orders -> [Skus -> Row \cup {NoWrite}]]]
    BY <1>10, <2>1, DeadIsRow, WriteType DEF Replace, Statuses
  <2> QED
    BY <1>10, <2>2 DEF Replace, Goto, TypeOK, Step
<1>11. ASSUME NEW o \in Orders, StartRelease(t, o)  PROVE TypeOK'
  BY <1>11 DEF StartRelease, Goto, TypeOK, Step
<1>12. CASE ReleaseRows(t)
  <2>1. pend' \in [Calls -> [Orders -> [Skus -> Row \cup {NoWrite}]]]
    BY <1>12, DeadIsRow, WriteType DEF ReleaseRows, Statuses
  <2> QED
    BY <1>12, <2>1 DEF ReleaseRows, Goto, TypeOK, Step
<1>13. CASE LockOrder(t)
  BY <1>13 DEF LockOrder, Goto, TypeOK, Step
<1>14. CASE Commit(t)
  <2>1. rows' \in [Orders -> [Skus -> Row]]
    BY <1>14, ViewIsRow DEF Commit, Publish
  <2>2. weighedFor' \in [Orders -> [Skus -> SUBSET (Orders \X Nat)]]
    BY <1>14 DEF Commit, Publish, TypeOK
  <2>3. basket' \in [Orders -> SUBSET Skus]
    BY <1>14, RequestsAssumption DEF Commit, Publish, TypeOK
  <2> QED
    BY <1>14, <2>1, <2>2, <2>3, EndType DEF Commit, TypeOK
<1>15. CASE Abort(t)
  BY <1>15, EndType DEF Abort, TypeOK
<1> QED
  BY <1>1, <1>2, <1>3, <1>4, <1>5, <1>6, <1>7, <1>8, <1>9, <1>10, <1>11, <1>12, <1>13, <1>14, <1>15
  DEF Reserve, ReleaseCall
--------------------------------------------------------------------------------
(* What a step of one call leaves to the others *)

OthersUntouched(t) ==
  \A u \in Calls \ {t} :
    /\ pc'[u] = pc[u] /\ op'[u] = op[u] /\ order'[u] = order[u]
    /\ request'[u] = request[u] /\ now'[u] = now[u] /\ todo'[u] = todo[u]
    /\ held'[u] = held[u] /\ pend'[u] = pend[u] /\ weighed'[u] = weighed[u]

(* A call that does not move keeps its part of the invariant while the table stands still. *)
LEMMA Unmoved ==
  ASSUME NEW t \in Calls, NEW u \in Calls \ {t}, OthersUntouched(t), CallInv(u),
         UNCHANGED <<rows, effective, clock>>
  PROVE  CallInv(u)'
<1> USE DEF OthersUntouched
<1>1. PathOf(u)'
  BY DEF CallInv, PathOf, HasOrderLock
<1>2. RequestLocked(u)'
  BY DEF CallInv, RequestLocked, Swept
<1>3. SweptClean(u)'
  BY DEF CallInv, SweptClean, View
<1>4. OwnUnlapsed(u)'
  BY DEF CallInv, OwnUnlapsed, View
<1>5. WritesOf(u)'
  BY DEF CallInv, WritesOf
<1>6. WeighedAll(u)'
  BY DEF CallInv, WeighedAll, View
<1>7. ReplacedAll(u)'
  BY DEF CallInv, ReplacedAll, View
<1> QED
  BY <1>1, <1>2, <1>3, <1>4, <1>5, <1>6, <1>7 DEF CallInv

(* A step that publishes nothing keeps the invariant when its call keeps its own part and *)
(* takes no lock another call holds.                                                      *)
LEMMA QuietStep ==
  ASSUME IInv, TypeOK', NEW t \in Calls, OthersUntouched(t),
         UNCHANGED <<rows, effective, clock, weighedFor>>,
         CallInv(t)',
         HasOrderLock(t)' => \A u \in Calls \ {t} : HasOrderLock(u) => order[u] # order'[t],
         \A u \in Calls \ {t} : held'[t] \cap held[u] = {},
         \A u \in Calls \ {t}, o \in Orders, s \in Skus :
           pend'[t][o][s] = NoWrite \/ pend[u][o][s] = NoWrite
  PROVE  IInv'
<1>1. OrderLockExclusive'
  BY DEF IInv, OrderLockExclusive, HasOrderLock, OthersUntouched
<1>2. ResourceLockExclusive'
  BY DEF IInv, ResourceLockExclusive, OthersUntouched
<1>3. RowLockExclusive'
  BY DEF IInv, RowLockExclusive, OthersUntouched
<1>4. ASSUME NEW u \in Calls  PROVE CallInv(u)'
  BY Unmoved DEF IInv
<1>5. LaterWeighedEarlier'
  BY DEF IInv, LaterWeighedEarlier
<1> QED
  BY <1>1, <1>2, <1>3, <1>4, <1>5 DEF IInv

LEMMA EndInv ==
  ASSUME TypeOK, NEW t \in Calls, End(t), clock' = clock
  PROVE  CallInv(t)' /\ OthersUntouched(t)
<1>1. /\ pc'[t] = "idle" /\ op'[t] = "none" /\ now'[t] = 0 /\ held'[t] = {}
      /\ pend'[t] = NoWrites
  BY DEF End, TypeOK
<1>2. PathOf(t)'
  BY <1>1 DEF PathOf, HasOrderLock, TypeOK, NoWrites
<1>3. RequestLocked(t)' /\ SweptClean(t)' /\ OwnUnlapsed(t)' /\ WeighedAll(t)' /\ ReplacedAll(t)'
  BY <1>1 DEF RequestLocked, Swept, SweptClean, OwnUnlapsed, WeighedAll, ReplacedAll
<1>4. WritesOf(t)'
  BY <1>1 DEF WritesOf, NoWrites
<1>5. OthersUntouched(t)
  BY DEF OthersUntouched, End, TypeOK
<1> QED
  BY <1>2, <1>3, <1>4, <1>5 DEF CallInv

(* A transaction that rolls back. *)
LEMMA RollBack ==
  ASSUME IInv, TypeOK', NEW t \in Calls, End(t), UNCHANGED <<rows, effective, clock, weighedFor>>
  PROVE  IInv'
<1>1. CallInv(t)' /\ OthersUntouched(t)
  BY EndInv DEF IInv
<1>2. /\ pc'[t] = "idle" /\ held'[t] = {} /\ pend'[t] = NoWrites
  BY DEF End, TypeOK, IInv
<1>3. /\ ~HasOrderLock(t)'
      /\ \A o \in Orders, s \in Skus : pend'[t][o][s] = NoWrite
  BY <1>2 DEF HasOrderLock, NoWrites
<1> QED
  BY <1>1, <1>2, <1>3, QuietStep
--------------------------------------------------------------------------------
(* The steps that write nothing *)

(* A step that changes neither the writes nor the resource locks of its call. *)
LEMMA LocklessStep ==
  ASSUME IInv, TypeOK', NEW t \in Calls, OthersUntouched(t),
         UNCHANGED <<rows, effective, clock, weighedFor, held, pend>>,
         CallInv(t)',
         HasOrderLock(t)' => \A u \in Calls \ {t} : HasOrderLock(u) => order[u] # order'[t]
  PROVE  IInv'
<1>1. \A u \in Calls \ {t} : held'[t] \cap held[u] = {}
  BY DEF IInv, ResourceLockExclusive
<1>2. \A u \in Calls \ {t}, o \in Orders, s \in Skus :
        pend'[t][o][s] = NoWrite \/ pend[u][o][s] = NoWrite
  BY DEF IInv, RowLockExclusive
<1> QED
  BY <1>1, <1>2, QuietStep

LEMMA StartReserveInv ==
  ASSUME IInv, TypeOK', NEW t \in Calls, NEW o \in Orders, NEW r \in Requests, StartReserve(t, o, r)
  PROVE  IInv'
<1>1. /\ pc[t] = "idle" /\ pc'[t] = "binding" /\ order'[t] = o /\ request'[t] = r
      /\ now'[t] = clock /\ op'[t] = "reserve"
      /\ pend'[t] = pend[t] /\ held'[t] = held[t]
  BY DEF StartReserve, Goto, TypeOK, IInv
<1>2. pend[t] = NoWrites /\ held[t] = {}
  BY <1>1 DEF IInv, CallInv, PathOf, HasOrderLock
<1>3. OthersUntouched(t)
  BY DEF OthersUntouched, StartReserve, Goto, TypeOK, IInv
<1>4. CallInv(t)'
  <2>1. PathOf(t)'
    BY <1>1, <1>2 DEF PathOf, HasOrderLock, NoWrites, TypeOK, StartReserve, IInv
  <2>2. WritesOf(t)'
    BY <1>1, <1>2 DEF WritesOf, NoWrites
  <2>3. RequestLocked(t)' /\ SweptClean(t)' /\ OwnUnlapsed(t)' /\ WeighedAll(t)' /\ ReplacedAll(t)'
    BY <1>1 DEF RequestLocked, Swept, SweptClean, OwnUnlapsed, WeighedAll, ReplacedAll
  <2> QED
    BY <2>1, <2>2, <2>3 DEF CallInv
<1>5. ~HasOrderLock(t)'
  BY <1>1 DEF HasOrderLock
<1> QED
  BY <1>3, <1>4, <1>5, LocklessStep DEF StartReserve

LEMMA StartReleaseInv ==
  ASSUME IInv, TypeOK', NEW t \in Calls, NEW o \in Orders, StartRelease(t, o)
  PROVE  IInv'
<1>1. /\ pc[t] = "idle" /\ pc'[t] = "orderLock" /\ order'[t] = o /\ op'[t] = "release"
      /\ pend'[t] = pend[t] /\ held'[t] = held[t] /\ now'[t] = now[t]
  BY DEF StartRelease, Goto, TypeOK, IInv
<1>2. pend[t] = NoWrites /\ held[t] = {} /\ now[t] <= clock
  BY <1>1 DEF IInv, CallInv, PathOf, HasOrderLock
<1>3. OthersUntouched(t)
  BY DEF OthersUntouched, StartRelease, Goto, TypeOK, IInv
<1>4. CallInv(t)'
  <2>1. PathOf(t)'
    BY <1>1, <1>2 DEF PathOf, HasOrderLock, NoWrites, StartRelease
  <2>2. WritesOf(t)'
    BY <1>1, <1>2 DEF WritesOf, NoWrites
  <2>3. RequestLocked(t)' /\ SweptClean(t)' /\ OwnUnlapsed(t)' /\ WeighedAll(t)' /\ ReplacedAll(t)'
    BY <1>1 DEF RequestLocked, Swept, SweptClean, OwnUnlapsed, WeighedAll, ReplacedAll
  <2> QED
    BY <2>1, <2>2, <2>3 DEF CallInv
<1>5. ~HasOrderLock(t)'
  BY <1>1 DEF HasOrderLock
<1> QED
  BY <1>3, <1>4, <1>5, LocklessStep DEF StartRelease

LEMMA ShareBindingInv ==
  ASSUME IInv, TypeOK', NEW t \in Calls, ShareBinding(t)
  PROVE  IInv'
<1>1. /\ pc[t] = "binding" /\ pc'[t] = "orderLock" /\ effective[request[t].wh]
      /\ UNCHANGED <<order, request, now, op, pend, held>>
  BY DEF ShareBinding, Goto, TypeOK, IInv
<1>2. PathOf(t) /\ pend[t] = NoWrites /\ held[t] = {}
  BY <1>1 DEF IInv, CallInv, PathOf, HasOrderLock
<1>3. OthersUntouched(t)
  BY DEF OthersUntouched, ShareBinding, Goto, TypeOK, IInv
<1>4. CallInv(t)'
  <2>1. PathOf(t)'
    BY <1>1, <1>2 DEF PathOf, HasOrderLock, NoWrites, ShareBinding
  <2>2. WritesOf(t)'
    BY <1>1, <1>2 DEF WritesOf, NoWrites
  <2>3. RequestLocked(t)' /\ SweptClean(t)' /\ OwnUnlapsed(t)' /\ WeighedAll(t)' /\ ReplacedAll(t)'
    BY <1>1 DEF RequestLocked, Swept, SweptClean, OwnUnlapsed, WeighedAll, ReplacedAll
  <2> QED
    BY <2>1, <2>2, <2>3 DEF CallInv
<1>5. ~HasOrderLock(t)'
  BY <1>1 DEF HasOrderLock
<1> QED
  BY <1>3, <1>4, <1>5, LocklessStep DEF ShareBinding

LEMMA LockOrderInv ==
  ASSUME IInv, TypeOK', NEW t \in Calls, LockOrder(t)
  PROVE  IInv'
<1>1. /\ pc[t] = "orderLock"
      /\ pc'[t] = IF op[t] = "reserve" THEN "expireOrder" ELSE "release"
      /\ UNCHANGED <<order, request, now, op, pend, held>>
  BY DEF LockOrder, Goto, TypeOK, IInv
<1>2. PathOf(t) /\ pend[t] = NoWrites /\ held[t] = {}
  BY <1>1 DEF IInv, CallInv, PathOf, HasOrderLock
<1>3. OthersUntouched(t)
  BY DEF OthersUntouched, LockOrder, Goto, TypeOK, IInv
<1>4. CallInv(t)'
  <2>1. PathOf(t)'
    BY <1>1, <1>2 DEF PathOf, HasOrderLock, NoWrites, LockOrder
  <2>2. WritesOf(t)'
    BY <1>1, <1>2 DEF WritesOf, NoWrites
  <2>3. RequestLocked(t)' /\ SweptClean(t)' /\ OwnUnlapsed(t)' /\ WeighedAll(t)' /\ ReplacedAll(t)'
    BY <1>1 DEF RequestLocked, Swept, SweptClean, OwnUnlapsed, WeighedAll, ReplacedAll
  <2> QED
    BY <2>1, <2>2, <2>3 DEF CallInv
<1>5. \A u \in Calls \ {t} : HasOrderLock(u) => order[u] # order'[t]
  BY <1>1 DEF LockOrder
<1> QED
  BY <1>3, <1>4, <1>5, LocklessStep DEF LockOrder
--------------------------------------------------------------------------------
(* The steps that lock resources and write *)

LEMMA WriteEffect ==
  ASSUME TypeOK, NEW t \in Calls, NEW C, NEW new \in [Skus -> Row], Write(t, C, new)
  PROVE  /\ \A o \in Orders, s \in Skus :
              pend'[t][o][s] = IF <<o, s>> \in C THEN new[s] ELSE pend[t][o][s]
         /\ \A u \in Calls \ {t} : pend'[u] = pend[u]
BY DEF TypeOK, Write

(* An UPDATE that waited for its rows writes no row another call has written. *)
LEMMA FreeRows ==
  ASSUME IInv, NEW t \in Calls, NEW C, NEW new \in [Skus -> Row], Write(t, C, new), AllFree(t, C)
  PROVE  \A u \in Calls \ {t}, o \in Orders, s \in Skus :
           pend'[t][o][s] = NoWrite \/ pend[u][o][s] = NoWrite
<1> SUFFICES ASSUME NEW u \in Calls \ {t}, NEW o \in Orders, NEW s \in Skus,
                    pend[u][o][s] # NoWrite
             PROVE  pend'[t][o][s] = NoWrite
  OBVIOUS
<1>1. <<o, s>> \notin C
  BY DEF AllFree, RowLocked
<1>2. pend'[t][o][s] = pend[t][o][s]
  BY <1>1, WriteEffect DEF IInv
<1> QED
  BY <1>2 DEF IInv, RowLockExclusive

LEMMA DeadRows == \A st \in Statuses : [s \in Skus |-> Dead(st)] \in [Skus -> Row]
BY DeadIsRow

LEMMA ExpireOrderInv ==
  ASSUME IInv, TypeOK', NEW t \in Calls, ExpireOrder(t)
  PROVE  IInv'
<1> DEFINE dead == [s \in Skus |-> Dead("expired")]
<1>0. TypeOK /\ dead \in [Skus -> Row]
  BY DeadRows DEF IInv, Statuses
<1>1. /\ pc[t] = "expireOrder" /\ pc'[t] = "resourceLock"
      /\ UNCHANGED <<order, request, now, op, held>>
      /\ todo'[t] = ReservationResources(t)
  BY <1>0 DEF ExpireOrder, Goto, TypeOK
<1>2. PathOf(t) /\ pend[t] = NoWrites /\ held[t] = {} /\ order[t] \in Orders
  BY <1>1 DEF IInv, CallInv, PathOf
<1>w. /\ \A o \in Orders, s \in Skus :
           pend'[t][o][s] = IF <<o, s>> \in OwnLapsed(t) THEN dead[s] ELSE pend[t][o][s]
      /\ \A u \in Calls \ {t} : pend'[u] = pend[u]
  <2>1. Write(t, OwnLapsed(t), dead)
    BY DEF ExpireOrder
  <2> HIDE DEF dead
  <2> QED
    BY <1>0, <2>1, WriteEffect
<1>3. OthersUntouched(t)
  BY <1>0, <1>w DEF OthersUntouched, ExpireOrder, Goto, TypeOK
<1>n. \A o \in Orders, s \in Skus : pend[t][o][s] = NoWrite /\ View(t, o, s) = rows[o][s]
  BY <1>2 DEF NoWrites, View
<1>4. \A o \in Orders, s \in Skus :
        /\ pend'[t][o][s] = IF <<o, s>> \in OwnLapsed(t) THEN Dead("expired") ELSE NoWrite
        /\ View(t, o, s) = rows[o][s]
  <2>1. \A s \in Skus : dead[s] = Dead("expired")
    OBVIOUS
  <2> HIDE DEF dead
  <2> QED
    BY <1>w, <1>n, <2>1
<1>5. Dead("expired") # NoWrite /\ Dead("expired").status = "expired"
  BY DeadIsRow, NoWriteAssumption DEF Statuses
<1>6. CallInv(t)'
  <2>1. PathOf(t)'
    BY <1>1, <1>2 DEF PathOf, HasOrderLock, ExpireOrder
  <2>2. RequestLocked(t)'
    BY <1>1 DEF RequestLocked, Swept, ReservationResources
  <2>3. SweptClean(t)'
    BY <1>1, <1>2 DEF SweptClean
  <2>4. OwnUnlapsed(t)'
    <3> SUFFICES ASSUME NEW s \in Skus, Active(View(t, order[t], s)')
                 PROVE  View(t, order[t], s)'.expires > now[t]
      BY <1>1 DEF OwnUnlapsed
    <3>1. <<order[t], s>> \notin OwnLapsed(t) /\ View(t, order[t], s)' = rows[order[t]][s]
      BY <1>1, <1>2, <1>4, <1>5 DEF View, Active, ExpireOrder
    <3>2. ~(rows[order[t]][s].expires <= now[t])
      BY <1>2, <1>4, <3>1 DEF OwnLapsed
    <3>3. rows[order[t]][s].expires \in Nat /\ now[t] \in Nat
      BY <1>0, <1>2 DEF TypeOK, Row
    <3> QED
      BY <3>1, <3>2, <3>3
  <2>5. WritesOf(t)'
    BY <1>1, <1>4, <1>5 DEF WritesOf, OwnLapsed, Active, ExpireOrder
  <2>6. WeighedAll(t)' /\ ReplacedAll(t)'
    BY <1>1 DEF WeighedAll, ReplacedAll
  <2> QED
    BY <2>1, <2>2, <2>3, <2>4, <2>5, <2>6 DEF CallInv
<1>7. \A u \in Calls \ {t}, o \in Orders, s \in Skus :
        pend'[t][o][s] = NoWrite \/ pend[u][o][s] = NoWrite
  BY <1>0, FreeRows DEF ExpireOrder
<1>8. \A u \in Calls \ {t} : HasOrderLock(u) => order[u] # order'[t]
  BY <1>1 DEF IInv, OrderLockExclusive, HasOrderLock
<1>9. \A u \in Calls \ {t} : held'[t] \cap held[u] = {}
  BY <1>1, <1>2
<1> QED
  BY <1>3, <1>6, <1>7, <1>8, <1>9, QuietStep DEF ExpireOrder

LEMMA LockResourceInv ==
  ASSUME IInv, TypeOK', NEW t \in Calls, LockResource(t)
  PROVE  IInv'
<1>0. TypeOK /\ CallInv(t)
  BY DEF IInv
<1>1. PICK res \in todo[t] : /\ \A u \in Calls \ {t} : res \notin held[u]
                             /\ held' = [held EXCEPT ![t] = @ \cup {res}]
  BY DEF LockResource
<1>2. /\ pc[t] = "resourceLock" /\ pc'[t] = "expireResource"
      /\ UNCHANGED <<order, request, now, op, todo, pend, rows, effective, clock>>
      /\ held'[t] = held[t] \cup {res}
  BY <1>0, <1>1 DEF LockResource, Goto, TypeOK
<1>3. OthersUntouched(t)
  BY <1>0, <1>1 DEF OthersUntouched, LockResource, Goto, TypeOK
<1>4. CallInv(t)'
  <2>1. PathOf(t)'
    BY <1>0, <1>2 DEF CallInv, PathOf, HasOrderLock
  <2>2. RequestLocked(t)'
    BY <1>0, <1>2 DEF CallInv, RequestLocked, Swept
  <2>3. SweptClean(t)'
    BY <1>0, <1>1, <1>2 DEF CallInv, SweptClean, View
  <2>4. OwnUnlapsed(t)'
    BY <1>0, <1>2 DEF CallInv, OwnUnlapsed, View
  <2>5. WritesOf(t)'
    BY <1>0, <1>2 DEF CallInv, WritesOf
  <2>6. WeighedAll(t)' /\ ReplacedAll(t)'
    BY <1>2 DEF WeighedAll, ReplacedAll
  <2> QED
    BY <2>1, <2>2, <2>3, <2>4, <2>5, <2>6 DEF CallInv
<1>5. \A u \in Calls \ {t}, o \in Orders, s \in Skus :
        pend'[t][o][s] = NoWrite \/ pend[u][o][s] = NoWrite
  BY <1>2 DEF IInv, RowLockExclusive
<1>6. \A u \in Calls \ {t} : HasOrderLock(u) => order[u] # order'[t]
  BY <1>2 DEF IInv, OrderLockExclusive, HasOrderLock
<1>7. \A u \in Calls \ {t} : held'[t] \cap held[u] = {}
  BY <1>1, <1>2 DEF IInv, ResourceLockExclusive
<1> QED
  BY <1>3, <1>4, <1>5, <1>6, <1>7, QuietStep DEF LockResource

LEMMA WeighInv ==
  ASSUME IInv, TypeOK', NEW t \in Calls, Weigh(t)
  PROVE  IInv'
<1>0. TypeOK /\ CallInv(t)
  BY DEF IInv
<1>1. /\ pc[t] = "decide" /\ pc'[t] = "replace"
      /\ UNCHANGED <<order, request, now, op, todo, held, pend, rows, effective, clock>>
      /\ \A s \in Skus : s \in request[t].skus => weighed'[t][s] = ReservedByOthers(t, s)
  BY <1>0 DEF Weigh, Goto, TypeOK
<1>2. OthersUntouched(t)
  BY <1>0 DEF OthersUntouched, Weigh, Goto, TypeOK
<1>3. request[t] \in Requests /\ request[t].skus \subseteq Skus
  BY <1>0, <1>1, RequestsAssumption DEF CallInv, PathOf
<1>4. CallInv(t)'
  <2>1. PathOf(t)'
    BY <1>0, <1>1 DEF CallInv, PathOf, HasOrderLock
  <2>2. RequestLocked(t)'
    BY <1>0, <1>1 DEF CallInv, RequestLocked, Swept
  <2>3. SweptClean(t)'
    BY <1>0, <1>1 DEF CallInv, SweptClean, View
  <2>4. OwnUnlapsed(t)' /\ ReplacedAll(t)'
    BY <1>1 DEF OwnUnlapsed, ReplacedAll
  <2>5. WritesOf(t)'
    BY <1>0, <1>1 DEF CallInv, WritesOf
  <2>6. WeighedAll(t)'
    <3> SUFFICES ASSUME NEW o \in Orders, NEW s \in request[t].skus, o # order[t],
                        Active(View(t, o, s)), View(t, o, s).wh = request[t].wh
                 PROVE  <<o, View(t, o, s).qty>> \in ReservedByOthers(t, s)
      BY <1>1, <1>3 DEF WeighedAll, View
    <3>1. pend[t][o][s] = NoWrite
      BY <1>0, <1>1, <1>3 DEF CallInv, WritesOf, View, Active
    <3>2. View(t, o, s) = rows[o][s]
      BY <3>1 DEF View
    <3>3. <<rows[o][s].wh, s>> \in held[t] \ todo[t]
      BY <1>0, <1>1, <3>2 DEF CallInv, RequestLocked, Swept
    <3>4. rows[o][s].expires > now[t]
      BY <1>0, <1>1, <1>3, <3>3 DEF CallInv, SweptClean
    <3> QED
      BY <3>2, <3>4 DEF ReservedByOthers
  <2> QED
    BY <2>1, <2>2, <2>3, <2>4, <2>5, <2>6 DEF CallInv
<1>5. \A u \in Calls \ {t} : HasOrderLock(u) => order[u] # order'[t]
  BY <1>1 DEF IInv, OrderLockExclusive, HasOrderLock
<1> QED
  BY <1>2, <1>4, <1>5, LocklessStep DEF Weigh

LEMMA ExpireResourceInv ==
  ASSUME IInv, TypeOK', NEW t \in Calls, ExpireResource(t)
  PROVE  IInv'
<1> DEFINE dead == [s \in Skus |-> Dead("expired")]
<1>0. TypeOK /\ CallInv(t) /\ dead \in [Skus -> Row]
  BY DeadRows DEF IInv, Statuses
<1>1. PICK res \in todo[t] \cap held[t] :
        /\ AllFree(t, LapsedOn(t, res))
        /\ Write(t, LapsedOn(t, res), dead)
        /\ todo' = [todo EXCEPT ![t] = @ \ {res}]
        /\ Goto(t, IF todo[t] = {res} THEN "decide" ELSE "resourceLock")
  BY DEF ExpireResource
<1>2. /\ pc[t] = "expireResource"
      /\ pc'[t] = IF todo[t] = {res} THEN "decide" ELSE "resourceLock"
      /\ UNCHANGED <<order, request, now, op, held, rows, effective, clock>>
      /\ todo'[t] = todo[t] \ {res}
  BY <1>0, <1>1 DEF ExpireResource, Goto, TypeOK
<1>p. order[t] \in Orders /\ request[t] \in Requests /\ request[t].skus \subseteq Skus
  BY <1>0, <1>2, RequestsAssumption DEF CallInv, PathOf
<1>d. Dead("expired") # NoWrite /\ Dead("expired").status = "expired" /\ ~Active(Dead("expired"))
  BY DeadIsRow, NoWriteAssumption DEF Statuses, Active
<1>e. \A s \in Skus : dead[s] = Dead("expired")
  OBVIOUS
<1>w. /\ \A o \in Orders, s \in Skus :
           pend'[t][o][s] = IF <<o, s>> \in LapsedOn(t, res) THEN dead[s] ELSE pend[t][o][s]
      /\ \A u \in Calls \ {t} : pend'[u] = pend[u]
  <2>1. Write(t, LapsedOn(t, res), dead) /\ dead \in [Skus -> Row] /\ TypeOK
    BY <1>0, <1>1
  <2> HIDE DEF dead
  <2> QED
    BY <2>1, WriteEffect
<1>3. OthersUntouched(t)
  BY <1>0, <1>1, <1>w DEF OthersUntouched, ExpireResource, Goto, TypeOK
<1>4. /\ \A o \in Orders, s \in Skus : <<o, s>> \in LapsedOn(t, res) =>
           pend'[t][o][s] = Dead("expired") /\ View(t, o, s)' = Dead("expired")
      /\ \A o \in Orders, s \in Skus : <<o, s>> \notin LapsedOn(t, res) =>
           pend'[t][o][s] = pend[t][o][s] /\ View(t, o, s)' = View(t, o, s)
  <2> HIDE DEF dead
  <2> QED
    BY <1>2, <1>d, <1>e, <1>w DEF View
<1>5. CallInv(t)'
  <2>1. PathOf(t)'
    BY <1>0, <1>2 DEF CallInv, PathOf, HasOrderLock
  <2>2. RequestLocked(t)'
    BY <1>0, <1>1, <1>2, <1>p DEF CallInv, RequestLocked, Swept
  <2>3. SweptClean(t)'
    <3> SUFFICES ASSUME NEW o \in Orders, NEW s \in Skus, o # order[t],
                        <<rows[o][s].wh, s>> \in held[t] \ (todo[t] \ {res}),
                        Active(View(t, o, s)')
                 PROVE  rows[o][s].expires > now[t]
      BY <1>2 DEF SweptClean
    <3>1. <<o, s>> \notin LapsedOn(t, res) /\ Active(View(t, o, s))
      BY <1>4, <1>d
    <3>2. CASE <<rows[o][s].wh, s>> = res
      <4>1. View(t, o, s) = rows[o][s]
        BY <1>0, <1>2, <3>1 DEF CallInv, WritesOf, View, Active
      <4>2. ~(rows[o][s].expires <= now[t])
        BY <3>1, <3>2, <4>1 DEF LapsedOn
      <4> QED
        BY <1>0, <4>2 DEF TypeOK, Row
    <3>3. CASE <<rows[o][s].wh, s>> # res
      BY <1>0, <1>2, <3>1, <3>3 DEF CallInv, SweptClean
    <3> QED
      BY <3>2, <3>3
  <2>4. OwnUnlapsed(t)'
    BY <1>0, <1>2, <1>4, <1>d, <1>p DEF CallInv, OwnUnlapsed
  <2>5. WritesOf(t)'
    <3> SUFFICES ASSUME NEW o \in Orders, NEW s \in Skus, pend'[t][o][s] # NoWrite
                 PROVE  /\ o # order[t] => pend'[t][o][s].status = "expired"
                        /\ (pend'[t][o][s].status = "expired" /\ Active(rows[o][s]))
                             => rows[o][s].expires <= now[t]
                        /\ ~Active(pend'[t][o][s])
      BY <1>2 DEF WritesOf
    <3>1. CASE <<o, s>> \in LapsedOn(t, res)
      <4>1. pend[t][o][s] = NoWrite
        BY <1>0, <1>2, <3>1 DEF CallInv, WritesOf, LapsedOn, View
      <4> QED
        BY <1>4, <1>d, <3>1, <4>1 DEF LapsedOn, View
    <3>2. CASE <<o, s>> \notin LapsedOn(t, res)
      BY <1>0, <1>2, <1>4, <3>2 DEF CallInv, WritesOf
    <3> QED
      BY <3>1, <3>2
  <2>6. WeighedAll(t)' /\ ReplacedAll(t)'
    BY <1>2 DEF WeighedAll, ReplacedAll
  <2> QED
    BY <2>1, <2>2, <2>3, <2>4, <2>5, <2>6 DEF CallInv
<1>6. \A u \in Calls \ {t}, o \in Orders, s \in Skus :
        pend'[t][o][s] = NoWrite \/ pend[u][o][s] = NoWrite
  <2> HIDE DEF dead
  <2> QED
    BY <1>0, <1>1, FreeRows
<1>7. \A u \in Calls \ {t} : HasOrderLock(u) => order[u] # order'[t]
  BY <1>2 DEF IInv, OrderLockExclusive, HasOrderLock
<1>8. \A u \in Calls \ {t} : held'[t] \cap held[u] = {}
  BY <1>2 DEF IInv, ResourceLockExclusive
<1> QED
  BY <1>3, <1>5, <1>6, <1>7, <1>8, QuietStep DEF ExpireResource

LEMMA ExtendInv ==
  ASSUME IInv, TypeOK', NEW t \in Calls, Extend(t)
  PROVE  IInv'
<1> DEFINE new == [s \in Skus |-> [View(t, order[t], s) EXCEPT !.expires = now[t] + TTL]]
<1>0. TypeOK /\ CallInv(t)
  BY DEF IInv
<1>1. /\ pc[t] = "decide" /\ pc'[t] = "commit" /\ AllFree(t, OwnActive(t))
      /\ UNCHANGED <<order, request, now, op, todo, held, rows, effective, clock>>
  BY <1>0 DEF Extend, Goto, TypeOK
<1>2. /\ order[t] \in Orders /\ request[t] \in Requests /\ op[t] = "reserve"
      /\ request[t].skus \subseteq Skus
  BY <1>0, <1>1, RequestsAssumption DEF CallInv, PathOf
<1>3. ASSUME NEW s \in Skus
      PROVE  /\ new[s] \in Row /\ new[s].status = View(t, order[t], s).status
             /\ new[s].wh = View(t, order[t], s).wh /\ new[s].qty = View(t, order[t], s).qty
  <2>1. View(t, order[t], s) \in Row
    BY <1>0, <1>2, ViewIsRow
  <2>2. now[t] + TTL \in Nat
    BY <1>0, TimeAssumption DEF TypeOK
  <2> QED
    BY <2>1, <2>2 DEF Row
<1>4. new \in [Skus -> Row]
  BY <1>3
<1>5. Write(t, OwnActive(t), new)
  BY DEF Extend
<1> HIDE DEF new
<1>6. /\ \A o \in Orders, s \in Skus :
           pend'[t][o][s] = IF <<o, s>> \in OwnActive(t) THEN new[s] ELSE pend[t][o][s]
      /\ \A u \in Calls \ {t} : pend'[u] = pend[u]
  BY <1>0, <1>4, <1>5, WriteEffect
<1>7. OthersUntouched(t)
  BY <1>0, <1>6 DEF OthersUntouched, Extend, Goto, TypeOK
<1>8. ASSUME NEW s \in Skus, <<order[t], s>> \in OwnActive(t)
      PROVE  /\ s \in request[t].skus
             /\ View(t, order[t], s).wh = request[t].wh
             /\ View(t, order[t], s) = rows[order[t]][s]
             /\ Active(rows[order[t]][s])
  <2>1. Active(View(t, order[t], s))
    BY <1>8 DEF OwnActive
  <2>2. View(t, order[t], s).expires > now[t]
    BY <1>0, <1>1, <2>1 DEF CallInv, OwnUnlapsed
  <2>3. s \in request[t].skus /\ View(t, order[t], s).wh = request[t].wh
    BY <2>1, <2>2 DEF Extend, SameReservation, LoadActive
  <2>4. View(t, order[t], s) = rows[order[t]][s]
    BY <1>0, <1>1, <1>2, <2>1 DEF CallInv, WritesOf, View
  <2> QED
    BY <2>1, <2>3, <2>4
<1>9. CallInv(t)'
  <2>1. PathOf(t)'
    BY <1>0, <1>1 DEF CallInv, PathOf, HasOrderLock
  <2>2. RequestLocked(t)' /\ SweptClean(t)' /\ OwnUnlapsed(t)' /\ WeighedAll(t)' /\ ReplacedAll(t)'
    BY <1>1 DEF RequestLocked, Swept, SweptClean, OwnUnlapsed, WeighedAll, ReplacedAll
  <2>3. WritesOf(t)'
    <3> SUFFICES ASSUME NEW o \in Orders, NEW s \in Skus, pend'[t][o][s] # NoWrite
                 PROVE  /\ o # order[t] => pend'[t][o][s].status = "expired"
                        /\ (pend'[t][o][s].status = "expired" /\ Active(rows[o][s]))
                             => rows[o][s].expires <= now[t]
                        /\ Active(pend'[t][o][s]) =>
                             /\ pend'[t][o][s].wh = request[t].wh
                             /\ <<request[t].wh, s>> \in held[t]
                             /\ Active(rows[o][s])
                             /\ rows[o][s].wh = pend'[t][o][s].wh
                             /\ rows[o][s].qty = pend'[t][o][s].qty
      BY <1>1, <1>2 DEF WritesOf
    <3>1. CASE <<o, s>> \in OwnActive(t)
      <4>1. o = order[t] /\ pend'[t][o][s] = new[s]
        BY <1>6, <3>1 DEF OwnActive
      <4>2. new[s].status = "active"
        BY <1>3, <1>8, <3>1, <4>1 DEF Active
      <4>3. <<request[t].wh, s>> \in held[t]
        BY <1>0, <1>1, <1>8, <3>1, <4>1 DEF CallInv, RequestLocked, Swept
      <4> QED
        BY <1>3, <1>8, <3>1, <4>1, <4>2, <4>3
    <3>2. CASE <<o, s>> \notin OwnActive(t)
      BY <1>0, <1>1, <1>6, <3>2 DEF CallInv, WritesOf
    <3> QED
      BY <3>1, <3>2
  <2> QED
    BY <2>1, <2>2, <2>3 DEF CallInv
<1>10. \A u \in Calls \ {t}, o \in Orders, s \in Skus :
        pend'[t][o][s] = NoWrite \/ pend[u][o][s] = NoWrite
  BY <1>1, <1>4, <1>5, FreeRows
<1>11. \A u \in Calls \ {t} : HasOrderLock(u) => order[u] # order'[t]
  BY <1>1 DEF IInv, OrderLockExclusive, HasOrderLock
<1>12. \A u \in Calls \ {t} : held'[t] \cap held[u] = {}
  BY <1>1 DEF IInv, ResourceLockExclusive
<1> QED
  BY <1>7, <1>9, <1>10, <1>11, <1>12, QuietStep DEF Extend

(* An UPDATE of the order's own rows leaves the call's view of the other orders alone. *)
LEMMA OwnWrite ==
  ASSUME TypeOK, NEW t \in Calls, order[t] \in Orders, NEW C \in SUBSET (Orders \X Skus),
         \A c \in C : c[1] = order[t],
         NEW new \in [Skus -> Row], Write(t, C, new), UNCHANGED <<rows, order>>
  PROVE  /\ \A o \in Orders, s \in Skus : o # order[t] =>
              pend'[t][o][s] = pend[t][o][s] /\ View(t, o, s)' = View(t, o, s)
         /\ \A s \in Skus : <<order[t], s>> \in C =>
              pend'[t][order[t]][s] = new[s] /\ View(t, order[t], s)' = new[s]
         /\ \A s \in Skus : <<order[t], s>> \notin C =>
              pend'[t][order[t]][s] = pend[t][order[t]][s]
              /\ View(t, order[t], s)' = View(t, order[t], s)
         /\ \A u \in Calls \ {t} : pend'[u] = pend[u]
<1>1. /\ \A o \in Orders, s \in Skus :
           pend'[t][o][s] = IF <<o, s>> \in C THEN new[s] ELSE pend[t][o][s]
      /\ \A u \in Calls \ {t} : pend'[u] = pend[u]
  BY WriteEffect
<1>2. \A o \in Orders, s \in Skus : o # order[t] => <<o, s>> \notin C
  OBVIOUS
<1>3. \A s \in Skus : new[s] # NoWrite
  BY NoWriteAssumption
<1>4. ASSUME NEW o \in Orders, NEW s \in Skus, <<o, s>> \notin C
      PROVE  pend'[t][o][s] = pend[t][o][s] /\ View(t, o, s)' = View(t, o, s)
  <2>1. pend'[t][o][s] = pend[t][o][s]
    BY <1>1, <1>4
  <2> QED
    BY <2>1 DEF View
<1>5. ASSUME NEW s \in Skus, <<order[t], s>> \in C
      PROVE  pend'[t][order[t]][s] = new[s] /\ View(t, order[t], s)' = new[s]
  <2>1. pend'[t][order[t]][s] = new[s] /\ order'[t] = order[t]
    BY <1>1, <1>5
  <2> QED
    BY <2>1, <1>3 DEF View
<1> QED
  BY <1>1, <1>2, <1>4, <1>5

LEMMA ReplaceInv ==
  ASSUME IInv, TypeOK', NEW t \in Calls, Replace(t)
  PROVE  IInv'
<1> DEFINE new == [s \in Skus |-> IF s \in request[t].skus THEN ClaimedRow(t, s)
                                                          ELSE Dead("released")]
           C == OwnActive(t) \cup RequestedRows(t)
<1>0. TypeOK /\ CallInv(t)
  BY DEF IInv
<1>1. /\ pc[t] = "replace" /\ pc'[t] = "commitClaim" /\ AllFree(t, C)
      /\ UNCHANGED <<order, request, now, op, todo, held, weighed, rows, effective, clock>>
  BY <1>0 DEF Replace, Goto, TypeOK
<1>2. /\ order[t] \in Orders /\ request[t] \in Requests /\ op[t] = "reserve"
      /\ request[t].skus \subseteq Skus
  BY <1>0, <1>1, RequestsAssumption DEF CallInv, PathOf
<1>3. /\ \A s \in Skus : ClaimedRow(t, s) \in Row
      /\ Dead("released") \in Row /\ Dead("released").status = "released"
  BY <1>0, <1>2, ClaimedIsRow, DeadIsRow DEF Statuses
<1>4. /\ new \in [Skus -> Row]
      /\ \A s \in request[t].skus : new[s] = ClaimedRow(t, s)
      /\ \A s \in Skus : s \notin request[t].skus => new[s] = Dead("released")
  BY <1>2, <1>3
<1>5. Write(t, C, new)
  BY DEF Replace
<1>c. /\ C \in SUBSET (Orders \X Skus) /\ \A c \in C : c[1] = order[t]
      /\ \A s \in Skus : Active(View(t, order[t], s)) => <<order[t], s>> \in C
      /\ \A s \in request[t].skus : <<order[t], s>> \in C
  BY <1>2 DEF OwnActive, RequestedRows
<1> HIDE DEF new, C
<1>6. /\ \A o \in Orders, s \in Skus : o # order[t] =>
           pend'[t][o][s] = pend[t][o][s] /\ View(t, o, s)' = View(t, o, s)
      /\ \A s \in Skus : <<order[t], s>> \in C =>
           pend'[t][order[t]][s] = new[s] /\ View(t, order[t], s)' = new[s]
      /\ \A s \in Skus : <<order[t], s>> \notin C =>
           pend'[t][order[t]][s] = pend[t][order[t]][s]
           /\ View(t, order[t], s)' = View(t, order[t], s)
      /\ \A u \in Calls \ {t} : pend'[u] = pend[u]
  BY <1>0, <1>1, <1>2, <1>4, <1>5, <1>c, OwnWrite
<1>7. OthersUntouched(t)
  BY <1>0, <1>6 DEF OthersUntouched, Replace, Goto, TypeOK
<1>8. \A s \in Skus : <<order[t], s>> \in C =>
        /\ new[s] # NoWrite
        /\ new[s].status # "expired"
        /\ Active(new[s]) => s \in request[t].skus /\ new[s].wh = request[t].wh
  <2> SUFFICES ASSUME NEW s \in Skus
               PROVE  /\ new[s] # NoWrite
                      /\ new[s].status # "expired"
                      /\ Active(new[s]) => s \in request[t].skus /\ new[s].wh = request[t].wh
    OBVIOUS
  <2>1. new[s] # NoWrite
    BY <1>4, NoWriteAssumption
  <2>2. CASE s \in request[t].skus
    <3>1. new[s] = ClaimedRow(t, s)
      BY <1>4, <2>2
    <3>2. ClaimedRow(t, s).status = "active" /\ ClaimedRow(t, s).wh = request[t].wh
      BY DEF ClaimedRow
    <3> QED
      BY <2>1, <2>2, <3>1, <3>2
  <2>3. CASE s \notin request[t].skus
    BY <1>3, <1>4, <2>1, <2>3 DEF Active
  <2> QED
    BY <2>2, <2>3
<1>9. CallInv(t)'
  <2>1. PathOf(t)'
    BY <1>0, <1>1 DEF CallInv, PathOf, HasOrderLock
  <2>2. RequestLocked(t)'
    BY <1>0, <1>1 DEF CallInv, RequestLocked, Swept
  <2>3. SweptClean(t)'
    BY <1>0, <1>1, <1>6 DEF CallInv, SweptClean
  <2>4. OwnUnlapsed(t)'
    BY <1>1 DEF OwnUnlapsed
  <2>5. WritesOf(t)'
    <3> SUFFICES ASSUME NEW o \in Orders, NEW s \in Skus, pend'[t][o][s] # NoWrite
                 PROVE  /\ o # order[t] => pend'[t][o][s].status = "expired"
                        /\ (pend'[t][o][s].status = "expired" /\ Active(rows[o][s]))
                             => rows[o][s].expires <= now[t]
                        /\ Active(pend'[t][o][s]) =>
                             /\ pend'[t][o][s].wh = request[t].wh
                             /\ <<request[t].wh, s>> \in held[t]
      BY <1>1, <1>2 DEF WritesOf
    <3>1. CASE o = order[t] /\ <<o, s>> \in C
      BY <1>0, <1>1, <1>6, <1>8, <3>1 DEF CallInv, RequestLocked, Swept
    <3>2. CASE ~(o = order[t] /\ <<o, s>> \in C)
      <4>1. pend'[t][o][s] = pend[t][o][s]
        BY <1>6, <3>2
      <4> QED
        BY <1>0, <1>1, <4>1 DEF CallInv, WritesOf
    <3> QED
      BY <3>1, <3>2
  <2>6. WeighedAll(t)'
    BY <1>0, <1>1, <1>2, <1>6 DEF CallInv, WeighedAll
  <2>7. ReplacedAll(t)'
    BY <1>1, <1>6, <1>8, <1>c DEF ReplacedAll
  <2> QED
    BY <2>1, <2>2, <2>3, <2>4, <2>5, <2>6, <2>7 DEF CallInv
<1>10. \A u \in Calls \ {t}, o \in Orders, s \in Skus :
        pend'[t][o][s] = NoWrite \/ pend[u][o][s] = NoWrite
  BY <1>1, <1>4, <1>5, FreeRows
<1>11. \A u \in Calls \ {t} : HasOrderLock(u) => order[u] # order'[t]
  BY <1>1 DEF IInv, OrderLockExclusive, HasOrderLock
<1>12. \A u \in Calls \ {t} : held'[t] \cap held[u] = {}
  BY <1>1 DEF IInv, ResourceLockExclusive
<1> QED
  BY <1>7, <1>9, <1>10, <1>11, <1>12, QuietStep DEF Replace

LEMMA ReleaseRowsInv ==
  ASSUME IInv, TypeOK', NEW t \in Calls, ReleaseRows(t)
  PROVE  IInv'
<1> DEFINE dead == [s \in Skus |-> Dead("released")]
<1>0. TypeOK /\ dead \in [Skus -> Row] /\ \A s \in Skus : dead[s] = Dead("released")
  BY DeadRows DEF IInv, Statuses
<1>1. /\ pc[t] = "release" /\ pc'[t] = "commit" /\ AllFree(t, OwnActive(t))
      /\ Write(t, OwnActive(t), dead)
      /\ UNCHANGED <<order, request, now, op, todo, held, rows, effective, clock>>
  BY <1>0 DEF ReleaseRows, Goto, TypeOK
<1> HIDE DEF dead
<1>2. PathOf(t) /\ pend[t] = NoWrites /\ held[t] = {} /\ order[t] \in Orders
  BY <1>1 DEF IInv, CallInv, PathOf
<1>3. Dead("released").status = "released"
  BY DeadIsRow DEF Statuses
<1>4. /\ \A o \in Orders, s \in Skus :
           pend'[t][o][s] = IF <<o, s>> \in OwnActive(t) THEN dead[s] ELSE pend[t][o][s]
      /\ \A u \in Calls \ {t} : pend'[u] = pend[u]
  BY <1>0, <1>1, WriteEffect
<1>5. OthersUntouched(t)
  BY <1>0, <1>4 DEF OthersUntouched, ReleaseRows, Goto, TypeOK
<1>6. \A o \in Orders, s \in Skus : pend'[t][o][s] # NoWrite =>
        o = order[t] /\ pend'[t][o][s].status = "released"
  <2>1. \A o \in Orders, s \in Skus : <<o, s>> \in OwnActive(t) => o = order[t]
    BY DEF OwnActive
  <2>2. \A o \in Orders, s \in Skus : pend[t][o][s] = NoWrite
    BY <1>2 DEF NoWrites
  <2> QED
    BY ZenonT(60), <1>0, <1>3, <1>4, <2>1, <2>2
<1>7. CallInv(t)'
  <2>1. PathOf(t)'
    BY <1>1, <1>2 DEF PathOf, HasOrderLock
  <2>2. RequestLocked(t)' /\ SweptClean(t)' /\ OwnUnlapsed(t)' /\ WeighedAll(t)' /\ ReplacedAll(t)'
    BY <1>1 DEF RequestLocked, Swept, SweptClean, OwnUnlapsed, WeighedAll, ReplacedAll
  <2>3. WritesOf(t)'
    BY <1>1, <1>6 DEF WritesOf, Active
  <2> QED
    BY <2>1, <2>2, <2>3 DEF CallInv
<1>8. \A u \in Calls \ {t}, o \in Orders, s \in Skus :
        pend'[t][o][s] = NoWrite \/ pend[u][o][s] = NoWrite
  BY <1>0, <1>1, FreeRows
<1>9. \A u \in Calls \ {t} : HasOrderLock(u) => order[u] # order'[t]
  BY <1>1 DEF IInv, OrderLockExclusive, HasOrderLock
<1>10. \A u \in Calls \ {t} : held'[t] \cap held[u] = {}
  BY <1>1, <1>2
<1> QED
  BY <1>5, <1>7, <1>8, <1>9, <1>10, QuietStep DEF ReleaseRows

--------------------------------------------------------------------------------
(* The commit of one call *)

(* What a commit does to a row another call looks at: only a claim of the committing order *)
(* on a stock it has locked can appear; on the other orders rows can only go.              *)
LEMMA CommittedRow ==
  ASSUME IInv, NEW t \in Calls, Commit(t), NEW o \in Orders, NEW s \in Skus
  PROVE  /\ pend[t][o][s] = NoWrite => rows'[o][s] = rows[o][s]
         /\ pend[t][o][s] # NoWrite => rows'[o][s] = pend[t][o][s]
         /\ (pend[t][o][s] # NoWrite /\ Active(rows'[o][s])) =>
              o = order[t] /\ <<rows'[o][s].wh, s>> \in held[t]
<1>1. rows'[o][s] = View(t, o, s)
  BY DEF Commit, Publish
<1>2. WritesOf(t)
  BY DEF IInv, CallInv
<1>3. /\ pend[t][o][s] = NoWrite => rows'[o][s] = rows[o][s]
      /\ pend[t][o][s] # NoWrite => rows'[o][s] = pend[t][o][s]
  BY <1>1 DEF View
<1>4. (pend[t][o][s] # NoWrite /\ Active(pend[t][o][s])) =>
        o = order[t] /\ <<pend[t][o][s].wh, s>> \in held[t]
  BY <1>2 DEF WritesOf, Active
<1> QED
  BY <1>3, <1>4

LEMMA CommitOthers ==
  ASSUME IInv, NEW t \in Calls, Commit(t), NEW u \in Calls \ {t}, OthersUntouched(t)
  PROVE  CallInv(u)'
<1> USE DEF OthersUntouched
<1>0. /\ CallInv(u) /\ UNCHANGED <<effective, clock>> /\ HasOrderLock(t)
      /\ held[t] \cap held[u] = {}
      /\ HasOrderLock(u) => order[u] # order[t]
      /\ \A o \in Orders, s \in Skus : pend[t][o][s] = NoWrite \/ pend[u][o][s] = NoWrite
  BY DEF IInv, Commit, HasOrderLock, OrderLockExclusive, ResourceLockExclusive, RowLockExclusive
<1>v. ASSUME NEW o \in Orders, NEW s \in Skus, Active(View(u, o, s)')
      PROVE  \/ View(u, o, s)' = View(u, o, s)
             \/ /\ View(u, o, s)' = rows'[o][s] /\ o = order[t]
                /\ <<rows'[o][s].wh, s>> \in held[t]
  BY <1>0, <1>v, CommittedRow DEF View
<1>1. PathOf(u)'
  BY <1>0 DEF CallInv, PathOf, HasOrderLock
<1>2. RequestLocked(u)'
  BY <1>0 DEF CallInv, RequestLocked, Swept
<1>3. SweptClean(u)'
  <2> SUFFICES ASSUME NEW o \in Orders, NEW s \in Skus,
                      pc[u] \in {"resourceLock", "expireResource", "decide", "replace", "commitClaim"},
                      o # order[u],
                      <<rows'[o][s].wh, s>> \in held[u] \ todo[u],
                      Active(View(u, o, s)')
               PROVE  rows'[o][s].expires > now[u]
    BY DEF SweptClean
  <2>1. CASE pend[t][o][s] = NoWrite
    BY <1>0, <2>1, CommittedRow DEF CallInv, SweptClean, View
  <2>2. CASE pend[t][o][s] # NoWrite
    <3>1. Active(rows'[o][s])
      BY <1>0, <2>2 DEF View
    <3> QED
      BY <1>0, <2>2, <3>1, CommittedRow
  <2> QED
    BY <2>1, <2>2
<1>4. OwnUnlapsed(u)'
  <2> SUFFICES ASSUME NEW s \in Skus, pc[u] \in {"resourceLock", "expireResource", "decide"},
                      Active(View(u, order[u], s)')
               PROVE  View(u, order[u], s)'.expires > now[u]
    BY DEF OwnUnlapsed
  <2>1. HasOrderLock(u) /\ order[u] \in Orders
    BY <1>0 DEF HasOrderLock, CallInv, PathOf
  <2>2. View(u, order[u], s)' = View(u, order[u], s)
    BY <1>0, <1>v, <2>1
  <2> QED
    BY <1>0, <2>2 DEF CallInv, OwnUnlapsed
<1>5. WritesOf(u)'
  <2>1. ASSUME NEW o \in Orders, NEW s \in Skus, pend[u][o][s] # NoWrite
        PROVE  rows'[o][s] = rows[o][s]
    <3>1. pend[t][o][s] = NoWrite
      BY <1>0, <2>1
    <3> QED
      BY <3>1, CommittedRow
  <2> QED
    BY <1>0, <2>1 DEF CallInv, WritesOf
<1>6. WeighedAll(u)'
  <2> SUFFICES ASSUME pc[u] \in {"replace", "commitClaim"},
                      NEW o \in Orders, NEW s \in request[u].skus,
                      o # order[u], Active(View(u, o, s)'), View(u, o, s)'.wh = request[u].wh
               PROVE  <<o, View(u, o, s)'.qty>> \in weighed[u][s]
    BY DEF WeighedAll
  <2>1. s \in Skus /\ <<request[u].wh, s>> \in held[u]
    BY <1>0, RequestsAssumption DEF CallInv, PathOf, RequestLocked, Swept
  <2>2. View(u, o, s)' = View(u, o, s)
    BY ZenonT(60), <1>0, <1>v, <2>1
  <2> QED
    BY <1>0, <2>2 DEF CallInv, WeighedAll
<1>7. ReplacedAll(u)'
  <2> SUFFICES ASSUME pc[u] = "commitClaim", NEW s \in Skus, Active(View(u, order[u], s)')
               PROVE  s \in request[u].skus /\ pend[u][order[u]][s] # NoWrite
    BY DEF ReplacedAll
  <2>1. HasOrderLock(u) /\ order[u] \in Orders
    BY <1>0 DEF HasOrderLock, CallInv, PathOf
  <2>2. View(u, order[u], s)' = View(u, order[u], s)
    BY <1>0, <1>v, <2>1
  <2> QED
    BY <1>0, <2>2 DEF CallInv, ReplacedAll
<1> QED
  BY <1>1, <1>2, <1>3, <1>4, <1>5, <1>6, <1>7 DEF CallInv

LEMMA CommitWeighed ==
  ASSUME IInv, NEW t \in Calls, Commit(t)
  PROVE  LaterWeighedEarlier'
<1>0. TypeOK /\ CallInv(t) /\ order[t] \in Orders /\ pc[t] \in {"commit", "commitClaim"}
  BY DEF IInv, CallInv, PathOf, Commit
<1>1. \A o \in Orders, s \in Skus :
        /\ rows'[o][s] = View(t, o, s)
        /\ Active(View(t, o, s)) =>
             weighedFor'[o][s] = IF pc[t] = "commitClaim" /\ o = order[t]
                                 THEN weighed[t][s] ELSE weighedFor[o][s]
  BY DEF Commit, Publish
<1>2. ASSUME NEW o \in Orders, NEW s \in Skus, o # order[t], Active(View(t, o, s))
      PROVE  View(t, o, s) = rows[o][s] /\ weighedFor'[o][s] = weighedFor[o][s]
  <2>1. pend[t][o][s] = NoWrite
    BY <1>0, <1>2 DEF CallInv, WritesOf, View, Active
  <2> QED
    BY <1>1, <1>2, <2>1 DEF View
<1>3. ASSUME NEW p \in Orders, NEW s \in Skus, p # order[t],
             Active(View(t, order[t], s)), Active(View(t, p, s)),
             View(t, order[t], s).wh = View(t, p, s).wh
      PROVE  \/ <<order[t], View(t, order[t], s).qty>> \in weighedFor'[p][s]
             \/ <<p, View(t, p, s).qty>> \in weighedFor'[order[t]][s]
  <2>1. CASE pc[t] = "commitClaim"
    <3>1. s \in request[t].skus /\ View(t, order[t], s).wh = request[t].wh
      BY <1>0, <1>3, <2>1 DEF CallInv, ReplacedAll, WritesOf, View
    <3>2. <<p, View(t, p, s).qty>> \in weighed[t][s]
      BY <1>0, <1>3, <2>1, <3>1 DEF CallInv, WeighedAll
    <3> QED
      BY <1>0, <1>1, <1>3, <2>1, <3>2
  <2>2. CASE pc[t] = "commit"
    <3>1. /\ Active(rows[order[t]][s])
          /\ rows[order[t]][s].wh = View(t, order[t], s).wh
          /\ rows[order[t]][s].qty = View(t, order[t], s).qty
      BY <1>0, <1>3, <2>2 DEF CallInv, WritesOf, View
    <3>2. weighedFor'[order[t]][s] = weighedFor[order[t]][s]
      BY <1>0, <1>1, <1>3, <2>2
    <3> QED
      BY <1>0, <1>2, <1>3, <3>1, <3>2 DEF IInv, LaterWeighedEarlier
  <2> QED
    BY <1>0, <2>1, <2>2
<1> SUFFICES ASSUME NEW o \in Orders, NEW p \in Orders, NEW s \in Skus, o # p,
                    Active(View(t, o, s)), Active(View(t, p, s)),
                    View(t, o, s).wh = View(t, p, s).wh
             PROVE  \/ <<o, View(t, o, s).qty>> \in weighedFor'[p][s]
                    \/ <<p, View(t, p, s).qty>> \in weighedFor'[o][s]
  BY <1>1 DEF LaterWeighedEarlier
<1>4. CASE o = order[t]
  BY <1>3, <1>4
<1>5. CASE p = order[t]
  BY <1>3, <1>5
<1>6. CASE o # order[t] /\ p # order[t]
  BY <1>2, <1>6 DEF IInv, LaterWeighedEarlier
<1> QED
  BY <1>4, <1>5, <1>6

LEMMA CommitInv ==
  ASSUME IInv, TypeOK', NEW t \in Calls, Commit(t)
  PROVE  IInv'
<1>1. CallInv(t)' /\ OthersUntouched(t)
  BY EndInv DEF IInv, Commit
<1>2. /\ pc'[t] = "idle" /\ held'[t] = {}
      /\ \A o \in Orders, s \in Skus : pend'[t][o][s] = NoWrite
  BY DEF Commit, End, TypeOK, IInv, NoWrites
<1>3. OrderLockExclusive'
  BY <1>1, <1>2 DEF IInv, OrderLockExclusive, HasOrderLock, OthersUntouched
<1>4. ResourceLockExclusive'
  BY <1>1, <1>2 DEF IInv, ResourceLockExclusive, OthersUntouched
<1>5. RowLockExclusive'
  BY <1>1, <1>2 DEF IInv, RowLockExclusive, OthersUntouched
<1>6. \A u \in Calls : CallInv(u)'
  BY <1>1, CommitOthers
<1>7. LaterWeighedEarlier'
  BY CommitWeighed
<1> QED
  BY <1>3, <1>4, <1>5, <1>6, <1>7 DEF IInv

--------------------------------------------------------------------------------
(* The theorems *)

LEMMA InitInv == Init => IInv
<1> SUFFICES ASSUME Init PROVE IInv
  OBVIOUS
<1>1. TypeOK
  BY InitType
<1>2. /\ \A t \in Calls : pc[t] = "idle" /\ op[t] = "none" /\ now[t] = 0 /\ held[t] = {}
      /\ \A t \in Calls : pend[t] = NoWrites
      /\ \A t \in Calls, o \in Orders, s \in Skus : pend[t][o][s] = NoWrite
      /\ clock = 0
      /\ \A o \in Orders, s \in Skus : rows[o][s].status = "none"
  BY DEF Init, NoWrites, NoRow
<1>3. OrderLockExclusive /\ ResourceLockExclusive /\ RowLockExclusive
  BY <1>2 DEF OrderLockExclusive, ResourceLockExclusive, RowLockExclusive, HasOrderLock
<1>4. ASSUME NEW t \in Calls  PROVE CallInv(t)
  <2>1. PathOf(t)
    BY <1>2 DEF PathOf, HasOrderLock
  <2>2. RequestLocked(t) /\ SweptClean(t) /\ OwnUnlapsed(t) /\ WeighedAll(t) /\ ReplacedAll(t)
    BY <1>2 DEF RequestLocked, Swept, SweptClean, OwnUnlapsed, WeighedAll, ReplacedAll
  <2>3. WritesOf(t)
    BY <1>2 DEF WritesOf
  <2> QED
    BY <2>1, <2>2, <2>3 DEF CallInv
<1>5. LaterWeighedEarlier
  BY <1>2 DEF LaterWeighedEarlier, Active
<1> QED
  BY <1>1, <1>3, <1>4, <1>5 DEF IInv

(* A step of the world around the calls, or of nobody. *)
LEMMA WorldInv ==
  ASSUME IInv, UNCHANGED <<rows, callVars, weighedFor, basket>>,
         clock' \in Nat, clock <= clock', effective' \in [Warehouses -> BOOLEAN],
         \A t \in Calls, w \in Warehouses :
           (SharesBinding(t, w) /\ effective[w]) => effective'[w]
  PROVE  IInv'
<1> USE DEF callVars
<1>1. TypeOK'
  BY DEF IInv, TypeOK
<1>2. OrderLockExclusive' /\ ResourceLockExclusive' /\ RowLockExclusive' /\ LaterWeighedEarlier'
  BY SMTT(40) DEF IInv, OrderLockExclusive, ResourceLockExclusive, RowLockExclusive, HasOrderLock,
         LaterWeighedEarlier
<1>3. ASSUME NEW t \in Calls  PROVE CallInv(t)'
  <2>1. PathOf(t)'
    <3>1. PathOf(t) /\ now[t] \in Nat /\ clock \in Nat
      BY DEF IInv, CallInv, TypeOK
    <3>2. now[t] <= clock'
      BY <3>1 DEF PathOf
    <3>3. (op[t] = "reserve" /\ pc[t] \notin {"idle", "binding"}) => effective'[request[t].wh]
      BY <3>1, RequestsAssumption DEF PathOf, SharesBinding
    <3> QED
      BY <3>1, <3>2, <3>3 DEF PathOf, HasOrderLock
  <2>2. RequestLocked(t)' /\ SweptClean(t)' /\ OwnUnlapsed(t)'
    BY DEF IInv, CallInv, RequestLocked, Swept, SweptClean, OwnUnlapsed, View
  <2>3. WritesOf(t)' /\ WeighedAll(t)' /\ ReplacedAll(t)'
    BY SMTT(40) DEF IInv, CallInv, WritesOf, WeighedAll, ReplacedAll, View
  <2> QED
    BY <2>1, <2>2, <2>3 DEF CallInv
<1> QED
  BY <1>1, <1>2, <1>3 DEF IInv

LEMMA NextInv == IInv /\ [Next]_vars => IInv'
<1> SUFFICES ASSUME IInv, [Next]_vars PROVE IInv'
  OBVIOUS
<1>0. TypeOK
  BY DEF IInv
<1>1. ASSUME NEW t \in Calls,
             Reserve(t) \/ ReleaseCall(t) \/ LockOrder(t) \/ Commit(t) \/ Abort(t)
      PROVE  IInv'
  <2>1. TypeOK'
    <3>1. PathOf(t)
      BY DEF IInv, CallInv
    <3>2. pc[t] # "idle" => order[t] \in Orders
      BY <3>1 DEF PathOf
    <3>3. pc[t] \notin {"idle", "orderLock", "release", "commit"} => request[t] \in Requests
      BY <3>1 DEF PathOf
    <3>4. op[t] = "reserve" => request[t] \in Requests
      BY <3>1 DEF PathOf
    <3> QED
      BY <1>0, <1>1, <3>2, <3>3, <3>4, StepType
  <2>2. ASSUME NEW o \in Orders, NEW r \in Requests, StartReserve(t, o, r)  PROVE IInv'
    BY <2>1, <2>2, StartReserveInv
  <2>3. CASE ShareBinding(t)
    BY <2>1, <2>3, ShareBindingInv
  <2>4. CASE RefusePaused(t) \/ RefuseCapacity(t) \/ Abort(t)
    BY <2>1, <2>4, RollBack DEF RefusePaused, RefuseCapacity, Abort
  <2>5. CASE ExpireOrder(t)
    BY <2>1, <2>5, ExpireOrderInv
  <2>6. CASE LockResource(t)
    BY <2>1, <2>6, LockResourceInv
  <2>7. CASE ExpireResource(t)
    BY <2>1, <2>7, ExpireResourceInv
  <2>8. CASE Extend(t)
    BY <2>1, <2>8, ExtendInv
  <2>9. CASE Weigh(t)
    BY <2>1, <2>9, WeighInv
  <2>10. CASE Replace(t)
    BY <2>1, <2>10, ReplaceInv
  <2>11. ASSUME NEW o \in Orders, StartRelease(t, o)  PROVE IInv'
    BY <2>1, <2>11, StartReleaseInv
  <2>12. CASE ReleaseRows(t)
    BY <2>1, <2>12, ReleaseRowsInv
  <2>13. CASE LockOrder(t)
    BY <2>1, <2>13, LockOrderInv
  <2>14. CASE Commit(t)
    BY <2>1, <2>14, CommitInv
  <2> QED
    BY <1>1, <2>2, <2>3, <2>4, <2>5, <2>6, <2>7, <2>8, <2>9, <2>10, <2>11, <2>12, <2>13, <2>14
    DEF Reserve, ReleaseCall
<1>2. ASSUME NEW w \in Pausable, Pause(w)  PROVE IInv'
  <2>1. /\ UNCHANGED <<rows, clock, callVars, weighedFor, basket>>
        /\ effective' \in [Warehouses -> BOOLEAN]
        /\ \A t \in Calls, x \in Warehouses :
             (SharesBinding(t, x) /\ effective[x]) => effective'[x]
    BY <1>0, <1>2 DEF Pause, TypeOK
  <2>2. clock' \in Nat /\ clock <= clock'
    BY <1>0, <2>1 DEF TypeOK
  <2> QED
    BY <2>1, <2>2, WorldInv
<1>3. ASSUME NEW w \in Pausable, Activate(w)  PROVE IInv'
  <2>1. /\ UNCHANGED <<rows, clock, callVars, weighedFor, basket>>
        /\ effective' \in [Warehouses -> BOOLEAN]
        /\ \A t \in Calls, x \in Warehouses :
             (SharesBinding(t, x) /\ effective[x]) => effective'[x]
    BY <1>0, <1>3 DEF Activate, TypeOK
  <2>2. clock' \in Nat /\ clock <= clock'
    BY <1>0, <2>1 DEF TypeOK
  <2> QED
    BY <2>1, <2>2, WorldInv
<1>4. CASE Tick
  <2>1. clock' \in Nat /\ clock <= clock' /\ effective' = effective
    BY <1>0, <1>4 DEF Tick, TypeOK
  <2> QED
    BY <1>0, <1>4, <2>1, WorldInv DEF Tick, TypeOK
<1>5. CASE UNCHANGED vars
  BY <1>0, <1>5, WorldInv DEF vars, TypeOK
<1> QED
  BY <1>1, <1>2, <1>3, <1>4, <1>5 DEF Next

(* The invariant the run Reservations_locks checks holds in every reachable state: the locks *)
(* of the code give each call what its next statement relies on.                             *)
THEOREM Invariance == Spec => []IInv
<1> QED
  BY InitInv, NextInv, PTL DEF Spec

THEOREM TypeCorrect == Spec => []TypeOK
<1>1. IInv => TypeOK
  BY DEF IInv
<1> QED
  BY <1>1, Invariance, PTL

(* No capacity check of ReserveFulfillmentInventory used a stale table: of any two orders *)
(* that hold a claim on one stock one was admitted counting the other.                    *)
THEOREM NoStaleCheck == Spec => []LaterWeighedEarlier
<1>1. IInv => LaterWeighedEarlier
  BY DEF IInv
<1> QED
  BY <1>1, Invariance, PTL

(* A step either leaves the table alone or commits the writes of a call. *)
LEMMA TableStep ==
  ASSUME IInv, [Next]_vars, NEW o \in Orders, NEW s \in Skus, rows'[o][s] # rows[o][s]
  PROVE  \E t \in Calls : /\ Commit(t)
                          /\ pend[t][o][s] # NoWrite /\ rows'[o][s] = pend[t][o][s]
<1>1. \E t \in Calls : Commit(t)
  BY ZenonT(60) DEF Next, vars, Reserve, ReleaseCall, StartReserve, ShareBinding, RefusePaused, ExpireOrder,
         LockResource, ExpireResource, Extend, Weigh, RefuseCapacity, Replace, StartRelease,
         ReleaseRows, LockOrder, Abort, Pause, Activate, Tick
<1> QED
  BY <1>1, CommittedRow

(* A claim another order's sweep sets aside has lapsed, whatever the `now' of the sweep. *)
THEOREM OnlyLapsedAreSwept == Spec => OnlyLapsedSwept
<1>1. ASSUME IInv, [Next]_vars, NEW o \in Orders, NEW s \in Skus,
             Active(rows[o][s]), rows'[o][s].status = "expired"
      PROVE  rows[o][s].expires <= clock
  <2>1. PICK t \in Calls : /\ Commit(t)
                           /\ pend[t][o][s] # NoWrite /\ rows'[o][s] = pend[t][o][s]
    BY <1>1, TableStep DEF Active
  <2>2. WritesOf(t) /\ PathOf(t) /\ TypeOK
    BY <1>1 DEF IInv, CallInv
  <2>3. rows[o][s].expires <= now[t] /\ now[t] <= clock
    BY <1>1, <2>1, <2>2 DEF WritesOf, PathOf
  <2>4. rows[o][s].expires \in Nat /\ now[t] \in Nat /\ clock \in Nat
    BY <2>2 DEF TypeOK, Row
  <2> QED
    BY <2>3, <2>4
<1>2. IInv /\ [Next]_vars =>
        [\A o \in Orders, s \in Skus :
           (Active(rows[o][s]) /\ rows'[o][s].status = "expired") => rows[o][s].expires <= clock]_vars
  BY <1>1
<1> QED
  BY <1>2, Invariance, PTL DEF Spec, OnlyLapsedSwept

(* While a warehouse is paused no commit makes or prolongs a claim in it. *)
THEOREM PausedStaysUnclaimed == Spec => PausedTakesNoClaim
<1>1. ASSUME IInv, [Next]_vars, NEW o \in Orders, NEW s \in Skus,
             rows'[o][s] # rows[o][s], Active(rows'[o][s])
      PROVE  effective[rows'[o][s].wh]
  <2>1. PICK t \in Calls : /\ Commit(t)
                           /\ pend[t][o][s] # NoWrite /\ rows'[o][s] = pend[t][o][s]
    BY <1>1, TableStep
  <2>2. WritesOf(t) /\ PathOf(t)
    BY <1>1 DEF IInv, CallInv
  <2> QED
    BY <1>1, <2>1, <2>2 DEF WritesOf, PathOf
<1>2. IInv /\ [Next]_vars =>
        [\A o \in Orders, s \in Skus :
           (rows'[o][s] # rows[o][s] /\ Active(rows'[o][s])) => effective[rows'[o][s].wh]]_vars
  BY <1>1
<1> QED
  BY <1>2, Invariance, PTL DEF Spec, PausedTakesNoClaim

--------------------------------------------------------------------------------
(* A live claim is whole *)

(* What a call is about to commit: all that was asked for and nothing else, or nothing. *)
ClaimWritten(t) ==
  pc[t] \in {"commit", "commitClaim"} =>
    \A s \in Skus :
      /\ (op[t] = "reserve" /\ s \in request[t].skus) =>
           /\ pend[t][order[t]][s] # NoWrite /\ Active(pend[t][order[t]][s])
           /\ pend[t][order[t]][s].wh = request[t].wh
           /\ pend[t][order[t]][s].expires = now[t] + TTL
      /\ ~(op[t] = "reserve" /\ s \in request[t].skus) => ~Active(View(t, order[t], s))

(* The rows of an order have one end, and rows of its claim are missing only after it. *)
Whole(o) ==
  \A s \in Skus : Active(rows[o][s]) =>
    /\ s \in basket[o]
    /\ \A other \in Skus : Active(rows[o][other]) =>
         rows[o][other].wh = rows[o][s].wh /\ rows[o][other].expires = rows[o][s].expires
    /\ \A other \in basket[o] : ~Active(rows[o][other]) => rows[o][s].expires <= clock

ReleasesOnly(t) == pc[t] = "release" => op[t] # "reserve"

WholeInv ==
  /\ \A t \in Calls : ClaimWritten(t) /\ ReleasesOnly(t)
  /\ \A o \in Orders : Whole(o)

LEMMA OthersStay ==
  ASSUME TypeOK, NEW t \in Calls,
         Reserve(t) \/ ReleaseCall(t) \/ LockOrder(t) \/ Commit(t) \/ Abort(t)
  PROVE  OthersUntouched(t) /\ clock' = clock
<1>1. CASE \E o \in Orders, r \in Requests : StartReserve(t, o, r)
  BY <1>1 DEF StartReserve, Goto, TypeOK, OthersUntouched
<1>2. CASE \E o \in Orders : StartRelease(t, o)
  BY <1>2 DEF StartRelease, Goto, TypeOK, OthersUntouched
<1>3. CASE ShareBinding(t) \/ LockOrder(t)
  BY <1>3 DEF ShareBinding, LockOrder, Goto, TypeOK, OthersUntouched
<1>4. CASE RefusePaused(t) \/ RefuseCapacity(t) \/ Commit(t) \/ Abort(t)
  BY <1>4 DEF RefusePaused, RefuseCapacity, Commit, Abort, End, TypeOK, OthersUntouched
<1>5. CASE LockResource(t) \/ Weigh(t)
  BY <1>5 DEF LockResource, Weigh, Goto, TypeOK, OthersUntouched
<1>6. CASE ExpireOrder(t)
  BY <1>6 DEF ExpireOrder, Write, Goto, TypeOK, OthersUntouched
<1>7. CASE ExpireResource(t)
  BY <1>7 DEF ExpireResource, Write, Goto, TypeOK, OthersUntouched
<1>8. CASE Extend(t) \/ Replace(t) \/ ReleaseRows(t)
  BY <1>8 DEF Extend, Replace, ReleaseRows, Write, Goto, TypeOK, OthersUntouched
<1> QED  BY <1>1, <1>2, <1>3, <1>4, <1>5, <1>6, <1>7, <1>8 DEF Reserve, ReleaseCall

(* The steps of a call that do not lead to its commit. *)
LEMMA NotYetWritten ==
  ASSUME TypeOK, NEW t \in Calls,
         Reserve(t) \/ ReleaseCall(t) \/ LockOrder(t) \/ Commit(t) \/ Abort(t),
         ~Extend(t), ~Replace(t), ~ReleaseRows(t)
  PROVE  pc'[t] \notin {"commit", "commitClaim"}
BY DEF Reserve, ReleaseCall, StartReserve, ShareBinding, RefusePaused, ExpireOrder, LockResource, ExpireResource,
  Weigh, RefuseCapacity, StartRelease, LockOrder, Commit, Abort, End, Goto, TypeOK

LEMMA ExtendClaims ==
  ASSUME IInv, NEW t \in Calls, Extend(t)
  PROVE  ClaimWritten(t)'
<1>1. TypeOK /\ CallInv(t) /\ pc[t] = "decide" /\ SameReservation(t) /\ UNCHANGED <<rows, op, order, request, now>>
  BY DEF IInv, Extend
<1>2. order[t] \in Orders /\ op[t] = "reserve" /\ request[t] \in Requests
  BY <1>1 DEF CallInv, PathOf
<1> DEFINE new == [s \in Skus |-> [View(t, order[t], s) EXCEPT !.expires = now[t] + TTL]]
<1>3. ASSUME NEW s \in Skus
      PROVE  /\ View(t, order[t], s) \in Row /\ new[s] \in Row
             /\ new[s].status = View(t, order[t], s).status /\ new[s].wh = View(t, order[t], s).wh
             /\ new[s].expires = now[t] + TTL
  <2>1. View(t, order[t], s) \in Row /\ now[t] + TTL \in Nat
    BY <1>1, <1>2, ViewIsRow, TimeAssumption DEF TypeOK
  <2> QED  BY <2>1 DEF Row
<1>4. new \in [Skus -> Row] /\ Write(t, OwnActive(t), new)
  BY <1>3 DEF Extend
<1> HIDE DEF new
<1>5. /\ \A o \in Orders, s \in Skus :
           pend'[t][o][s] = IF <<o, s>> \in OwnActive(t) THEN new[s] ELSE pend[t][o][s]
      /\ \A u \in Calls \ {t} : pend'[u] = pend[u]
  BY <1>1, <1>4, WriteEffect
<1>6. \A s \in Skus : s \in request[t].skus <=> Active(View(t, order[t], s))
  <2>1. LoadActive(t) = request[t].skus
    BY <1>1 DEF SameReservation
  <2>2. \A s \in Skus : Active(View(t, order[t], s)) => View(t, order[t], s).expires > now[t]
    BY <1>1 DEF CallInv, OwnUnlapsed
  <2> QED  BY <2>1, <2>2 DEF LoadActive
<1>7. \A s \in Skus : <<order[t], s>> \in OwnActive(t) <=> Active(View(t, order[t], s))
  BY <1>2 DEF OwnActive
<1>8. \A s \in request[t].skus : View(t, order[t], s).wh = request[t].wh
  BY <1>1 DEF SameReservation
<1> SUFFICES ASSUME NEW s \in Skus
             PROVE  /\ s \in request[t].skus =>
                         /\ pend'[t][order[t]][s] # NoWrite /\ Active(pend'[t][order[t]][s])
                         /\ pend'[t][order[t]][s].wh = request[t].wh
                         /\ pend'[t][order[t]][s].expires = now[t] + TTL
                    /\ s \notin request[t].skus => ~Active(View(t, order[t], s)')
  BY <1>1, <1>2 DEF ClaimWritten
<1>9. CASE s \in request[t].skus
  <2>1. pend'[t][order[t]][s] = new[s]
    BY <1>2, <1>5, <1>6, <1>7, <1>9
  <2> QED  BY <1>3, <1>6, <1>8, <1>9, <2>1, NoWriteAssumption DEF Active
<1>10. CASE s \notin request[t].skus
  <2>1. pend'[t][order[t]][s] = pend[t][order[t]][s]
    BY <1>2, <1>5, <1>6, <1>7, <1>10
  <2>2. View(t, order[t], s)' = View(t, order[t], s)
    BY <1>1, <2>1 DEF View
  <2> QED  BY <1>6, <1>10, <2>2
<1> QED  BY <1>9, <1>10

LEMMA ReplaceClaims ==
  ASSUME IInv, NEW t \in Calls, Replace(t)
  PROVE  ClaimWritten(t)'
<1>1. TypeOK /\ CallInv(t) /\ pc[t] = "replace" /\ UNCHANGED <<rows, op, order, request, now>>
  BY DEF IInv, Replace
<1>2. order[t] \in Orders /\ op[t] = "reserve" /\ request[t] \in Requests
  BY <1>1 DEF CallInv, PathOf
<1> DEFINE new == [s \in Skus |-> IF s \in request[t].skus THEN ClaimedRow(t, s) ELSE Dead("released")]
<1>3. new \in [Skus -> Row] /\ Write(t, OwnActive(t) \cup RequestedRows(t), new)
  BY <1>1, <1>2, ClaimedIsRow, DeadIsRow DEF Replace, Statuses
<1>4. \A s \in request[t].skus \cap Skus :
        new[s].wh = request[t].wh /\ new[s].expires = now[t] + TTL /\ Active(new[s])
  BY DEF ClaimedRow, Active
<1>5. \A s \in Skus \ request[t].skus : ~Active(new[s])
  BY DeadIsRow DEF Active, Statuses
<1> HIDE DEF new
<1>6. /\ \A o \in Orders, s \in Skus :
           pend'[t][o][s] = IF <<o, s>> \in OwnActive(t) \cup RequestedRows(t) THEN new[s] ELSE pend[t][o][s]
      /\ \A u \in Calls \ {t} : pend'[u] = pend[u]
  BY <1>1, <1>3, WriteEffect
<1>7. \A s \in Skus : /\ <<order[t], s>> \in OwnActive(t) <=> Active(View(t, order[t], s))
                      /\ s \in request[t].skus => <<order[t], s>> \in RequestedRows(t)
                      /\ <<order[t], s>> \in RequestedRows(t) => s \in request[t].skus
  BY <1>2 DEF OwnActive, RequestedRows
<1> SUFFICES ASSUME NEW s \in Skus
             PROVE  /\ s \in request[t].skus =>
                         /\ pend'[t][order[t]][s] # NoWrite /\ Active(pend'[t][order[t]][s])
                         /\ pend'[t][order[t]][s].wh = request[t].wh
                         /\ pend'[t][order[t]][s].expires = now[t] + TTL
                    /\ s \notin request[t].skus => ~Active(View(t, order[t], s)')
  BY <1>1, <1>2 DEF ClaimWritten
<1>8. CASE s \in request[t].skus
  <2>1. pend'[t][order[t]][s] = new[s] /\ new[s] \in Row
    BY <1>2, <1>3, <1>6, <1>7, <1>8
  <2> QED  BY <1>4, <1>8, <2>1, NoWriteAssumption
<1>9. CASE s \notin request[t].skus /\ Active(View(t, order[t], s))
  <2>1. pend'[t][order[t]][s] = new[s] /\ new[s] \in Row
    BY <1>2, <1>3, <1>6, <1>7, <1>9
  <2>2. View(t, order[t], s)' = new[s]
    BY <1>1, <2>1, NoWriteAssumption DEF View
  <2> QED  BY <1>5, <1>9, <2>2
<1>10. CASE s \notin request[t].skus /\ ~Active(View(t, order[t], s))
  <2>1. pend'[t][order[t]][s] = pend[t][order[t]][s]
    BY <1>2, <1>6, <1>7, <1>10
  <2>2. View(t, order[t], s)' = View(t, order[t], s)
    BY <1>1, <2>1 DEF View
  <2> QED  BY <1>10, <2>2
<1> QED  BY <1>8, <1>9, <1>10

LEMMA ReleaseClaimsNothing ==
  ASSUME IInv, NEW t \in Calls, ReleaseRows(t), op[t] # "reserve"
  PROVE  ClaimWritten(t)'
<1>1. TypeOK /\ CallInv(t) /\ pc[t] = "release" /\ UNCHANGED <<rows, op, order, request, now>>
  BY DEF IInv, ReleaseRows
<1>2. order[t] \in Orders
  BY <1>1 DEF CallInv, PathOf
<1> DEFINE new == [s \in Skus |-> Dead("released")]
<1>3. new \in [Skus -> Row] /\ Write(t, OwnActive(t), new) /\ \A s \in Skus : ~Active(new[s])
  BY DeadIsRow DEF ReleaseRows, Statuses, Active
<1> HIDE DEF new
<1>4. /\ \A o \in Orders, s \in Skus :
           pend'[t][o][s] = IF <<o, s>> \in OwnActive(t) THEN new[s] ELSE pend[t][o][s]
      /\ \A u \in Calls \ {t} : pend'[u] = pend[u]
  BY <1>1, <1>3, WriteEffect
<1> SUFFICES ASSUME NEW s \in Skus PROVE ~Active(View(t, order[t], s)')
  BY <1>1 DEF ClaimWritten
<1>5. CASE Active(View(t, order[t], s))
  <2>1. <<order[t], s>> \in OwnActive(t)
    BY <1>2, <1>5 DEF OwnActive
  <2>2. pend'[t][order[t]][s] = new[s] /\ new[s] \in Row
    BY <1>2, <1>3, <1>4, <2>1
  <2> QED  BY <1>1, <1>3, <2>2, NoWriteAssumption DEF View
<1>6. CASE ~Active(View(t, order[t], s))
  <2>1. <<order[t], s>> \notin OwnActive(t)
    BY <1>6 DEF OwnActive
  <2>2. pend'[t][order[t]][s] = pend[t][order[t]][s]
    BY <1>2, <1>4, <2>1
  <2> QED  BY <1>1, <1>6, <2>2 DEF View
<1> QED  BY <1>5, <1>6

(* The commit of another call leaves what a call has written, and revives no row of its order. *)
LEMMA CommitKeepsClaim ==
  ASSUME IInv, NEW t \in Calls, Commit(t), NEW u \in Calls \ {t}, ClaimWritten(u)
  PROVE  ClaimWritten(u)'
<1>1. OthersUntouched(t) /\ TypeOK /\ CallInv(u)
  BY OthersStay DEF IInv
<1> SUFFICES ASSUME pc[u] \in {"commit", "commitClaim"}, NEW s \in Skus
             PROVE  /\ (op[u] = "reserve" /\ s \in request[u].skus) =>
                         /\ pend[u][order[u]][s] # NoWrite /\ Active(pend[u][order[u]][s])
                         /\ pend[u][order[u]][s].wh = request[u].wh
                         /\ pend[u][order[u]][s].expires = now[u] + TTL
                    /\ ~(op[u] = "reserve" /\ s \in request[u].skus) => ~Active(View(u, order[u], s)')
  BY <1>1 DEF ClaimWritten, OthersUntouched
<1>2. HasOrderLock(u) /\ HasOrderLock(t) /\ order[u] \in Orders
  BY <1>1 DEF HasOrderLock, Commit, CallInv, PathOf
<1>3. order[u] # order[t]
  BY <1>2 DEF IInv, OrderLockExclusive
<1>4. Active(View(u, order[u], s)') => Active(View(u, order[u], s))
  <2>1. pend'[u] = pend[u] /\ order'[u] = order[u]
    BY <1>1 DEF OthersUntouched
  <2>2. CASE pend[u][order[u]][s] # NoWrite
    BY <2>1, <2>2 DEF View
  <2>3. CASE pend[u][order[u]][s] = NoWrite
    <3>1. View(u, order[u], s)' = rows'[order[u]][s] /\ View(u, order[u], s) = rows[order[u]][s]
      BY <2>1, <2>3 DEF View
    <3>2. Active(rows'[order[u]][s]) => rows'[order[u]][s] = rows[order[u]][s]
      BY <1>2, <1>3, CommittedRow
    <3> QED  BY <3>1, <3>2
  <2> QED  BY <2>2, <2>3
<1> QED  BY <1>4 DEF ClaimWritten

LEMMA CallsKeepClaims ==
  ASSUME IInv, NEW t \in Calls,
         Reserve(t) \/ ReleaseCall(t) \/ LockOrder(t) \/ Commit(t) \/ Abort(t),
         \A u \in Calls : ClaimWritten(u) /\ ReleasesOnly(u)
  PROVE  \A u \in Calls : ClaimWritten(u)' /\ ReleasesOnly(u)'
<1>1. TypeOK /\ OthersUntouched(t)
  BY OthersStay DEF IInv
<1>2. ReleasesOnly(t)'
  <2>1. pc'[t] = "release" => LockOrder(t)
    BY <1>1 DEF Reserve, ReleaseCall, StartReserve, ShareBinding, RefusePaused, ExpireOrder, LockResource,
       ExpireResource, Extend, Weigh, RefuseCapacity, Replace, StartRelease, ReleaseRows, Commit, Abort, End, Goto,
       TypeOK
  <2>2. (LockOrder(t) /\ pc'[t] = "release") => op'[t] # "reserve"
    BY <1>1 DEF LockOrder, Goto, TypeOK
  <2> QED  BY <2>1, <2>2 DEF ReleasesOnly
<1>3. ClaimWritten(t)'
  <2>1. CASE ~Extend(t) /\ ~Replace(t) /\ ~ReleaseRows(t)
    <3>1. pc'[t] \notin {"commit", "commitClaim"}
      BY <1>1, <2>1, NotYetWritten
    <3> QED  BY <3>1 DEF ClaimWritten
  <2>2. CASE ReleaseRows(t)
    <3>1. op[t] # "reserve"
      BY <2>2 DEF ReleaseRows, ReleasesOnly
    <3> QED  BY <2>2, <3>1, ReleaseClaimsNothing
  <2> QED  BY <2>1, <2>2, ExtendClaims, ReplaceClaims
<1>4. ASSUME NEW u \in Calls \ {t} PROVE ClaimWritten(u)' /\ ReleasesOnly(u)'
  <2>1. ReleasesOnly(u)'
    BY <1>1 DEF ReleasesOnly, OthersUntouched
  <2>2. CASE Commit(t)
    BY <2>1, <2>2, CommitKeepsClaim
  <2>3. CASE ~Commit(t)
    <3>1. rows' = rows
      BY <2>3 DEF Reserve, ReleaseCall, StartReserve, ShareBinding, RefusePaused, ExpireOrder, LockResource,
         ExpireResource, Extend, Weigh, RefuseCapacity, Replace, StartRelease, ReleaseRows, LockOrder, Abort
    <3> QED  BY <1>1, <2>1, <3>1 DEF ClaimWritten, View, OthersUntouched
  <2> QED  BY <2>2, <2>3
<1> QED  BY <1>2, <1>3, <1>4

LEMMA NothingCommitted ==
  ASSUME \A o \in Orders : Whole(o), UNCHANGED <<rows, basket>>, clock \in Nat, clock' \in Nat, clock <= clock', TypeOK
  PROVE  \A o \in Orders : Whole(o)'
<1> SUFFICES ASSUME NEW o \in Orders, NEW s \in Skus, Active(rows[o][s])
             PROVE  /\ s \in basket[o]
                    /\ \A other \in Skus : Active(rows[o][other]) =>
                         rows[o][other].wh = rows[o][s].wh /\ rows[o][other].expires = rows[o][s].expires
                    /\ \A other \in basket[o] : ~Active(rows[o][other]) => rows[o][s].expires <= clock'
  BY DEF Whole
<1>1. rows[o][s].expires \in Nat
  BY DEF TypeOK, Row
<1>2. Whole(o)
  OBVIOUS
<1> QED  BY <1>1, <1>2 DEF Whole

(* A commit of the order's own call: the rows are those of its request, or none. *)
LEMMA OwnCommit ==
  ASSUME IInv, NEW t \in Calls, Commit(t), ClaimWritten(t), NEW o \in Orders, o = order[t]
  PROVE  Whole(o)'
<1>1. TypeOK /\ CallInv(t) /\ pc[t] \in {"commit", "commitClaim"}
  BY DEF IInv, Commit
<1>3. \A s \in Skus : rows'[o][s] = View(t, o, s)
  BY DEF Commit, Publish
<1>4. ASSUME NEW s \in Skus, Active(rows'[o][s])
      PROVE  op[t] = "reserve" /\ s \in request[t].skus
  BY <1>1, <1>3, <1>4 DEF ClaimWritten
<1>5. ASSUME op[t] = "reserve", NEW s \in Skus, s \in request[t].skus
      PROVE  Active(rows'[o][s]) /\ rows'[o][s].wh = request[t].wh
             /\ rows'[o][s].expires = now[t] + TTL
  BY <1>1, <1>3, <1>5 DEF ClaimWritten, View
<1>6. ASSUME NEW s \in Skus, Active(rows'[o][s])
      PROVE  basket'[o] = request[t].skus
  <2>1. Active(View(t, o, s)) /\ op[t] = "reserve"
    BY <1>3, <1>4, <1>6
  <2> QED  BY <2>1 DEF Commit, Publish
<1> SUFFICES ASSUME NEW s \in Skus, Active(rows'[o][s])
             PROVE  /\ s \in basket'[o]
                    /\ \A other \in Skus : Active(rows'[o][other]) =>
                         /\ rows'[o][other].wh = rows'[o][s].wh
                         /\ rows'[o][other].expires = rows'[o][s].expires
                    /\ \A other \in basket'[o] :
                         ~Active(rows'[o][other]) => rows'[o][s].expires <= clock'
  BY DEF Whole
<1>7. op[t] = "reserve" /\ s \in request[t].skus /\ basket'[o] = request[t].skus
  BY <1>4, <1>6
<1>8. request[t].skus \subseteq Skus
  BY <1>1, <1>7, RequestsAssumption DEF CallInv, PathOf
<1> QED  BY <1>4, <1>5, <1>7, <1>8

(* A commit of another order's call only takes rows away, and only lapsed ones. *)
LEMMA ForeignCommit ==
  ASSUME IInv, NEW t \in Calls, Commit(t), clock' = clock, NEW o \in Orders, o # order[t], Whole(o)
  PROVE  Whole(o)'
<1>1. TypeOK /\ WritesOf(t) /\ now[t] <= clock
  BY DEF IInv, CallInv, PathOf
<1>2. \A s \in Skus : Active(rows'[o][s]) => rows'[o][s] = rows[o][s]
  BY CommittedRow
<1>3. ASSUME NEW s \in Skus, Active(rows[o][s]), ~Active(rows'[o][s])
      PROVE  rows[o][s].expires <= clock
  <2>1. pend[t][o][s] # NoWrite
    BY <1>3, CommittedRow
  <2>2. pend[t][o][s].status = "expired"
    BY <1>1, <2>1 DEF WritesOf
  <2>3. rows[o][s].expires <= now[t]
    BY <1>1, <1>3, <2>1, <2>2 DEF WritesOf
  <2>4. rows[o][s].expires \in Nat /\ now[t] \in Nat /\ clock \in Nat
    BY <1>1 DEF TypeOK, Row
  <2> QED  BY <1>1, <2>3, <2>4
<1> SUFFICES ASSUME NEW s \in Skus, Active(rows'[o][s])
             PROVE  /\ s \in basket'[o]
                    /\ \A other \in Skus : Active(rows'[o][other]) =>
                         rows'[o][other].wh = rows'[o][s].wh /\ rows'[o][other].expires = rows'[o][s].expires
                    /\ \A other \in basket'[o] : ~Active(rows'[o][other]) => rows'[o][s].expires <= clock
  BY DEF Whole
<1>4. rows'[o][s] = rows[o][s] /\ Active(rows[o][s])
  BY <1>2
<1>5. basket'[o] = basket[o]
  <2>1. Active(View(t, o, s))
    BY DEF Commit, Publish
  <2> QED  BY <2>1 DEF Commit, Publish
<1>6. ASSUME NEW other \in basket[o], ~Active(rows'[o][other]) PROVE rows[o][s].expires <= clock
  <2>1. other \in Skus
    BY <1>1 DEF TypeOK
  <2>2. CASE Active(rows[o][other])
    <3>1. rows[o][other].expires = rows[o][s].expires
      BY <1>4, <2>1, <2>2 DEF Whole
    <3> QED  BY <1>3, <1>6, <2>1, <2>2, <3>1
  <2>3. CASE ~Active(rows[o][other])
    BY <1>4, <2>3 DEF Whole
  <2> QED  BY <2>2, <2>3
<1>7. ASSUME NEW other \in Skus, Active(rows'[o][other])
      PROVE  rows'[o][other].wh = rows'[o][s].wh /\ rows'[o][other].expires = rows'[o][s].expires
  <2>1. rows'[o][other] = rows[o][other] /\ Active(rows[o][other])
    BY <1>2, <1>7
  <2> QED  BY <1>4, <2>1 DEF Whole
<1>8. s \in basket[o]
  BY <1>4 DEF Whole
<1> QED  BY <1>4, <1>5, <1>6, <1>7, <1>8

LEMMA NextWhole == IInv /\ WholeInv /\ [Next]_vars => WholeInv'
<1> SUFFICES ASSUME IInv, WholeInv, [Next]_vars PROVE WholeInv'
  OBVIOUS
<1>0. TypeOK /\ clock \in Nat
  BY DEF IInv, TypeOK
<1>1. ASSUME NEW t \in Calls, Reserve(t) \/ ReleaseCall(t) \/ LockOrder(t) \/ Commit(t) \/ Abort(t)
      PROVE  WholeInv'
  <2>1. \A u \in Calls : ClaimWritten(u)' /\ ReleasesOnly(u)'
    BY <1>1, CallsKeepClaims DEF WholeInv
  <2>2. clock' = clock
    BY <1>0, <1>1, OthersStay
  <2>3. CASE Commit(t)
    <3>1. ASSUME NEW o \in Orders PROVE Whole(o)'
      <4>1. CASE o = order[t]
        BY <2>2, <2>3, <4>1, OwnCommit DEF WholeInv
      <4>2. CASE o # order[t]
        BY <2>2, <2>3, <4>2, ForeignCommit DEF WholeInv
      <4> QED  BY <4>1, <4>2
    <3> QED  BY <2>1, <3>1 DEF WholeInv
  <2>4. CASE ~Commit(t)
    <3>1. UNCHANGED <<rows, basket>>
      BY <1>1, <2>4 DEF Reserve, ReleaseCall, StartReserve, ShareBinding, RefusePaused, ExpireOrder, LockResource,
         ExpireResource, Extend, Weigh, RefuseCapacity, Replace, StartRelease, ReleaseRows, LockOrder, Abort
    <3>2. \A o \in Orders : Whole(o)'
      BY <1>0, <2>2, <3>1, NothingCommitted DEF WholeInv
    <3> QED  BY <2>1, <3>2 DEF WholeInv
  <2> QED  BY <2>3, <2>4
<1>2. CASE (\E w \in Pausable : Pause(w) \/ Activate(w)) \/ Tick \/ UNCHANGED vars
  <2>1. UNCHANGED <<rows, basket, callVars>> /\ clock' \in Nat /\ clock <= clock'
    BY <1>0, <1>2 DEF Pause, Activate, Tick, vars
  <2>2. \A o \in Orders : Whole(o)'
    BY <1>0, <2>1, NothingCommitted DEF WholeInv
  <2>3. \A u \in Calls : ClaimWritten(u)' /\ ReleasesOnly(u)'
    BY <2>1 DEF WholeInv, ClaimWritten, ReleasesOnly, View, callVars
  <2> QED  BY <2>2, <2>3 DEF WholeInv
<1> QED  BY <1>1, <1>2 DEF Next

LEMMA InitWhole == Init => WholeInv
<1> SUFFICES ASSUME Init PROVE WholeInv
  OBVIOUS
<1>1. \A o \in Orders, s \in Skus : ~Active(rows[o][s])
  BY DEF Init, NoRow, Active
<1> QED  BY <1>1 DEF Init, WholeInv, ClaimWritten, ReleasesOnly, Whole

(* While a claim has not lapsed all that was asked for with it is claimed, in one warehouse and *)
(* to one end, although the sweeps of other orders take its rows one stock at a time.            *)
THEOREM LiveClaimsAreWhole == Spec => []LiveClaimIsWhole
<1>1. TypeOK /\ WholeInv => LiveClaimIsWhole
  <2> SUFFICES ASSUME TypeOK, WholeInv, NEW o \in Orders, NEW s \in Skus, Active(rows[o][s]),
                      rows[o][s].expires > clock
               PROVE  /\ s \in basket[o]
                      /\ \A other \in basket[o] : /\ Active(rows[o][other])
                                                  /\ rows[o][other].wh = rows[o][s].wh
                                                  /\ rows[o][other].expires = rows[o][s].expires
    BY DEF LiveClaimIsWhole
  <2>1. Whole(o) /\ basket[o] \subseteq Skus /\ rows[o][s].expires \in Nat /\ clock \in Nat
    BY DEF WholeInv, TypeOK, Row
  <2>2. ASSUME NEW other \in basket[o] PROVE Active(rows[o][other])
    BY <2>1, <2>2 DEF Whole
  <2> QED  BY <2>1, <2>2 DEF Whole
<1>2. IInv => TypeOK
  BY DEF IInv
<1> QED
  BY <1>1, <1>2, InitWhole, NextWhole, Invariance, PTL DEF Spec

--------------------------------------------------------------------------------
(* No circle of advisory locks *)

(* The resources a call has locked come before those it has still to lock in the sorted list *)
(* of lock keys; while a resource is swept it is the one both ends meet at.                    *)
LocksInOrder(t) ==
  /\ pc[t] = "resourceLock" => \A h \in held[t], r \in todo[t] : Rank[h] < Rank[r]
  /\ pc[t] = "expireResource" => \A h \in held[t], r \in todo[t] : Rank[h] <= Rank[r]

Busy == {t \in Calls : pc[t] # "idle"}

(* However many calls there may be, only finitely many are under way at a time. *)
LocksSorted ==
  /\ \A t \in Calls : LocksInOrder(t)
  /\ IsFiniteSet(Busy)

LEMMA InitLockOrder == Init => LocksSorted
<1> SUFFICES ASSUME Init PROVE LocksSorted
  OBVIOUS
<1>1. Busy = {} /\ \A t \in Calls : pc[t] = "idle"
  BY DEF Init, Busy
<1> QED  BY <1>1, FS_EmptySet DEF LocksSorted, LocksInOrder

LEMMA StepLocksInOrder ==
  ASSUME IInv, NEW t \in Calls, LocksInOrder(t),
         Reserve(t) \/ ReleaseCall(t) \/ LockOrder(t) \/ Commit(t) \/ Abort(t)
  PROVE  LocksInOrder(t)'
<1>0. TypeOK /\ PathOf(t)
  BY DEF IInv, CallInv
<1>1. CASE ExpireOrder(t)
  <2>1. held'[t] = {}
    BY <1>0, <1>1 DEF ExpireOrder, PathOf
  <2> QED  BY <2>1 DEF LocksInOrder
<1>2. CASE LockResource(t)
  <2>1. PICK res \in todo[t] : NextResource(t, res) /\ held' = [held EXCEPT ![t] = @ \cup {res}]
    BY <1>2 DEF LockResource
  <2>2. pc[t] = "resourceLock" /\ pc'[t] = "expireResource" /\ todo' = todo
    BY <1>0, <1>2 DEF LockResource, Goto, TypeOK
  <2>3. held'[t] = held[t] \cup {res}
    BY <1>0, <2>1 DEF TypeOK
  <2>4. ASSUME NEW h \in held'[t], NEW r \in todo[t] PROVE Rank[h] <= Rank[r]
    <3>1. h \in Resources /\ r \in Resources
      BY <1>0, <2>1, <2>3 DEF TypeOK
    <3>2. Rank[h] \in Nat /\ Rank[r] \in Nat
      BY <3>1, RankAssumption
    <3>3. CASE h = res
      BY <2>1, <3>3 DEF NextResource
    <3>4. CASE h \in held[t]
      BY <2>2, <3>2, <3>4 DEF LocksInOrder
    <3> QED  BY <2>3, <3>3, <3>4
  <2> QED  BY <2>2, <2>4 DEF LocksInOrder
<1>3. CASE ExpireResource(t)
  <2>1. PICK res \in todo[t] \cap held[t] : /\ todo' = [todo EXCEPT ![t] = @ \ {res}]
                                            /\ Goto(t, IF todo[t] = {res} THEN "decide" ELSE "resourceLock")
    BY <1>3 DEF ExpireResource
  <2>2. /\ pc[t] = "expireResource" /\ held' = held /\ pc'[t] \in {"decide", "resourceLock"}
        /\ todo'[t] = todo[t] \ {res}
    BY <1>0, <1>3, <2>1 DEF ExpireResource, Goto, TypeOK
  <2>3. ASSUME NEW h \in held[t], NEW r \in todo[t] \ {res} PROVE Rank[h] < Rank[r]
    <3>1. h \in Resources /\ r \in Resources /\ res \in Resources /\ res \in held[t] /\ res \in todo[t]
      BY <1>0, <2>1 DEF TypeOK
    <3>2. Rank[h] \in Nat /\ Rank[r] \in Nat /\ Rank[res] \in Nat
      BY <3>1, RankAssumption
    <3>3. Rank[h] <= Rank[res] /\ Rank[res] <= Rank[r]
      BY <2>2, <3>1 DEF LocksInOrder
    <3>4. Rank[res] # Rank[r]
      BY <3>1, RankAssumption
    <3> QED  BY <3>2, <3>3, <3>4
  <2> QED  BY <2>2, <2>3 DEF LocksInOrder
<1>4. CASE ~ExpireOrder(t) /\ ~LockResource(t) /\ ~ExpireResource(t)
  <2>1. pc'[t] \notin {"resourceLock", "expireResource"}
    BY <1>0, <1>4 DEF Reserve, ReleaseCall, StartReserve, ShareBinding, RefusePaused, Extend, Weigh, RefuseCapacity,
       Replace, StartRelease, ReleaseRows, LockOrder, Commit, Abort, End, Goto, TypeOK
  <2> QED  BY <2>1 DEF LocksInOrder
<1> QED  BY <1>1, <1>2, <1>3, <1>4

LEMMA NextLockOrder == IInv /\ LocksSorted /\ [Next]_vars => LocksSorted'
<1> SUFFICES ASSUME IInv, LocksSorted, [Next]_vars PROVE LocksSorted'
  OBVIOUS
<1>1. ASSUME NEW t \in Calls, Reserve(t) \/ ReleaseCall(t) \/ LockOrder(t) \/ Commit(t) \/ Abort(t)
      PROVE  LocksSorted'
  <2>1. OthersUntouched(t)
    BY <1>1, OthersStay DEF IInv
  <2>2. ASSUME NEW u \in Calls PROVE LocksInOrder(u)'
    <3>1. CASE u = t
      BY <1>1, <3>1, StepLocksInOrder DEF LocksSorted
    <3>2. CASE u # t
      BY <2>1, <3>2 DEF LocksSorted, LocksInOrder, OthersUntouched
    <3> QED  BY <3>1, <3>2
  <2>3. Busy' \subseteq Busy \cup {t}
    BY <2>1 DEF Busy, OthersUntouched
  <2>4. IsFiniteSet(Busy \cup {t})
    BY FS_AddElement DEF LocksSorted
  <2>5. IsFiniteSet(Busy')
    BY <2>3, <2>4, FS_Subset
  <2> QED  BY <2>2, <2>5 DEF LocksSorted
<1>2. CASE (\E w \in Pausable : Pause(w) \/ Activate(w)) \/ Tick \/ UNCHANGED vars
  <2>1. UNCHANGED <<pc, held, todo>>
    BY <1>2 DEF Pause, Activate, Tick, vars, callVars
  <2> QED  BY <2>1 DEF LocksSorted, LocksInOrder, Busy
<1> QED  BY <1>1, <1>2 DEF Next

(* A call waits on advisory locks only for a call that waits further down the list, if at all. *)
THEOREM AdvisoryLocksNeverCircle == Spec => []NoAdvisoryDeadlock
<1>1. IInv /\ LocksSorted => NoAdvisoryDeadlock
  <2> SUFFICES ASSUME IInv, LocksSorted, NEW C \in SUBSET Calls, C # {},
                      \A t \in C : \E u \in C : t # u /\ WaitsForAdvisory(t, u)
               PROVE  FALSE
    BY DEF NoAdvisoryDeadlock
  <2> DEFINE D == {t \in C : pc[t] = "resourceLock"}
             next(t) == CHOOSE res \in todo[t] : NextResource(t, res)
  <2>0. TypeOK /\ \A t \in Calls : PathOf(t) /\ LocksInOrder(t)
    BY DEF IInv, CallInv, LocksSorted
  <2>1. ASSUME NEW t \in C, NEW u \in C, WaitsForAdvisory(t, u), HasOrderLock(u)
        PROVE  u \in D
    <3>1. PICK v \in C : WaitsForAdvisory(u, v)
      OBVIOUS
    <3> QED  BY <2>1, <3>1 DEF WaitsForAdvisory, HasOrderLock
  <2>2. ASSUME NEW t \in D
        PROVE  \E u \in D : /\ \E res \in todo[t] : NextResource(t, res) /\ res \in held[u]
                            /\ \E res \in todo[t] : NextResource(t, res)
    <3>1. PICK u \in C : WaitsForAdvisory(t, u)
      OBVIOUS
    <3>2. PICK res \in todo[t] : NextResource(t, res) /\ res \in held[u]
      BY <3>1 DEF WaitsForAdvisory
    <3>3. HasOrderLock(u)
      BY <2>0, <3>2 DEF PathOf
    <3> QED  BY <2>1, <3>1, <3>2, <3>3
  <2>3. D # {}
    <3>1. PICK t \in C, u \in C : WaitsForAdvisory(t, u)
      OBVIOUS
    <3>2. CASE pc[t] = "resourceLock"
      BY <3>2
    <3>3. CASE pc[t] # "resourceLock"
      BY <2>1, <3>1, <3>3 DEF WaitsForAdvisory
    <3> QED  BY <3>2, <3>3
  <2>4. IsFiniteSet(D)
    <3>1. D \subseteq Busy /\ IsFiniteSet(Busy)
      BY DEF Busy, LocksSorted
    <3> QED  BY <3>1, FS_Subset
  <2>5. ASSUME NEW t \in D PROVE next(t) \in todo[t] /\ NextResource(t, next(t)) /\ Rank[next(t)] \in Nat
    <3>1. \E res \in todo[t] : NextResource(t, res)
      BY <2>2
    <3>2. next(t) \in todo[t] /\ NextResource(t, next(t))
      BY <3>1
    <3>3. next(t) \in Resources
      BY <2>0, <3>2 DEF TypeOK
    <3> QED  BY <3>2, <3>3, RankAssumption
  <2> HIDE DEF next
  <2> DEFINE rank == [t \in D |-> Rank[next(t)]]
  <2>6. PICK t \in D : \A u \in D : rank[u] <= rank[t]
    <3>1. rank \in [D -> Nat]
      BY <2>5
    <3> HIDE DEF rank, D
    <3> QED  BY <2>3, <2>4, <3>1, HighestOf
  <2>7. PICK u \in D : \E res \in todo[t] : NextResource(t, res) /\ res \in held[u]
    BY <2>2
  <2>8. PICK res \in todo[t] : NextResource(t, res) /\ res \in held[u]
    BY <2>7
  <2>9. Rank[res] < Rank[next(u)]
    BY <2>0, <2>5, <2>8 DEF LocksInOrder
  <2>10. Rank[next(t)] <= Rank[res]
    BY <2>5, <2>8 DEF NextResource
  <2>11. Rank[res] \in Nat /\ Rank[next(t)] \in Nat /\ Rank[next(u)] \in Nat
    BY <2>0, <2>5, <2>8, RankAssumption DEF TypeOK
  <2>12. Rank[next(u)] <= Rank[next(t)]
    BY <2>6
  <2> HIDE DEF rank, D
  <2> QED  BY <2>9, <2>10, <2>11, <2>12
<1> QED
  BY <1>1, InitLockOrder, NextLockOrder, Invariance, PTL DEF Spec

--------------------------------------------------------------------------------
(* Sums of quantities *)

(* What the capacity check adds up is an entry of such a table, and so is what orders hold. *)
LEMMA QuantityTable ==
  ASSUME NEW P, IsFiniteSet(P), NEW Z, P \subseteq Z \X Nat
  PROVE  \E g2 : SumTable(g2, [p \in P |-> p[2]], P) /\ Quantity(P) = g2[P]
<1> DEFINE f == [p \in P |-> p[2]]
           Is(g) == g = [s \in SUBSET P |-> IF s = {} THEN 0
                      ELSE (CHOOSE x \in s : TRUE)[2] + g[s \ {CHOOSE x \in s : TRUE}]]
<1>1. \A g : SumTable(g, f, P) <=> Is(g)
  <2> TAKE g
  <2>1. \A s \in SUBSET P : s # {} => f[Pick(s)] = (CHOOSE x \in s : TRUE)[2]
    BY PickIn DEF Pick
  <2>2. \A s \in SUBSET P : (IF s = {} THEN 0 ELSE f[Pick(s)] + g[s \ {Pick(s)}])
          = (IF s = {} THEN 0 ELSE (CHOOSE x \in s : TRUE)[2] + g[s \ {CHOOSE x \in s : TRUE}])
    <3> HIDE DEF f
    <3> QED BY <2>1 DEF Pick
  <2>3. [s \in SUBSET P |-> (IF s = {} THEN 0 ELSE f[Pick(s)] + g[s \ {Pick(s)}])]
          = [s \in SUBSET P |-> (IF s = {} THEN 0 ELSE (CHOOSE x \in s : TRUE)[2] + g[s \ {CHOOSE x \in s : TRUE}])]
    <3> HIDE DEF f
    <3> QED BY <2>2
  <2> HIDE DEF f
  <2> QED  BY <2>3 DEF SumTable
<1>2. \E g : Is(g)
  <2> HIDE DEF Is, f
  <2> QED BY <1>1, TableExists
<1>3. Is(CHOOSE g : Is(g))
  BY <1>2
<1>4. Quantity(P) = (CHOOSE g : Is(g))[P]
  BY DEF Quantity, MapThenSumSet, MapThenFoldSet
<1> HIDE DEF Is, f
<1>5. SumTable(CHOOSE g : Is(g), f, P)
  BY <1>1, <1>3
<1> QED  BY <1>4, <1>5 DEF f

(* The amounts the orders in A hold of SKU s. *)
Claimed(A, s) == MapThenSumSet(LAMBDA p : rows[p][s].qty, A)

LEMMA ClaimsTable ==
  ASSUME NEW H, IsFiniteSet(H), NEW s
  PROVE  \E g : /\ SumTable(g, [p \in H |-> rows[p][s].qty], H)
                /\ Claimed(H, s) = g[H]
<1> DEFINE f == [p \in H |-> rows[p][s].qty]
           Is(g) == g = [A \in SUBSET H |-> IF A = {} THEN 0
                      ELSE rows[CHOOSE x \in A : TRUE][s].qty + g[A \ {CHOOSE x \in A : TRUE}]]
<1>1. \A g : SumTable(g, f, H) <=> Is(g)
  <2> TAKE g
  <2>1. \A A \in SUBSET H : A # {} => f[Pick(A)] = rows[CHOOSE x \in A : TRUE][s].qty
    BY PickIn DEF Pick
  <2> HIDE DEF f
  <2>2. \A A \in SUBSET H : (IF A = {} THEN 0 ELSE f[Pick(A)] + g[A \ {Pick(A)}])
          = (IF A = {} THEN 0 ELSE rows[CHOOSE x \in A : TRUE][s].qty + g[A \ {CHOOSE x \in A : TRUE}])
    BY <2>1 DEF Pick
  <2>3. [A \in SUBSET H |-> (IF A = {} THEN 0 ELSE f[Pick(A)] + g[A \ {Pick(A)}])]
          = [A \in SUBSET H |-> (IF A = {} THEN 0
               ELSE rows[CHOOSE x \in A : TRUE][s].qty + g[A \ {CHOOSE x \in A : TRUE}])]
    BY <2>2
  <2> QED  BY <2>3 DEF SumTable
<1>2. \E g : Is(g)
  <2> HIDE DEF Is, f
  <2> QED BY <1>1, TableExists
<1>3. Is(CHOOSE g : Is(g))
  BY <1>2
<1>4. Claimed(H, s) = (CHOOSE g : Is(g))[H]
  BY DEF Claimed, MapThenSumSet, MapThenFoldSet
<1> HIDE DEF Is, f
<1>5. SumTable(CHOOSE g : Is(g), f, H)
  BY <1>1, <1>3
<1> QED  BY <1>4, <1>5 DEF f

LEMMA QuantityIsNat ==
  ASSUME NEW P, IsFiniteSet(P), P \subseteq Orders \X Nat
  PROVE  Quantity(P) \in Nat
<1>1. PICK g : SumTable(g, [p \in P |-> p[2]], P) /\ Quantity(P) = g[P]
  BY QuantityTable
<1>2. [p \in P |-> p[2]] \in [P -> Nat]
  OBVIOUS
<1>3. Adds(g, [p \in P |-> p[2]], P)
  <2> DEFINE f == [p \in P |-> p[2]]
  <2>1. f \in [P -> Nat] /\ SumTable(g, f, P)
    BY <1>1, <1>2
  <2> HIDE DEF f
  <2>2. Adds(g, f, P)
    BY <2>1, TableAdds
  <2> QED  BY <2>2 DEF f
<1> QED  BY <1>1, <1>3 DEF Adds

(* What some orders hold is at most what was weighed, when all of it was weighed. *)
LEMMA ClaimedBelow ==
  ASSUME TypeOK, NEW s \in Skus, NEW A \in SUBSET Orders, IsFiniteSet(A),
         NEW P, IsFiniteSet(P), P \subseteq Orders \X Nat,
         \A p \in A : <<p, rows[p][s].qty>> \in P
  PROVE  Claimed(A, s) \in Nat /\ Claimed(A, s) <= Quantity(P)
<1> DEFINE f == [p \in A |-> rows[p][s].qty]
           f2 == [p \in P |-> p[2]]
<1>1. PICK g : SumTable(g, f, A) /\ Claimed(A, s) = g[A]
  BY ClaimsTable
<1>2. PICK g2 : SumTable(g2, f2, P) /\ Quantity(P) = g2[P]
  BY QuantityTable
<1>3. f \in [A -> Nat] /\ \A p \in A : f[p] = rows[p][s].qty
  BY DEF TypeOK, Row
<1>4. f2 \in [P -> Nat] /\ \A p \in P : f2[p] = p[2]
  OBVIOUS
<1> HIDE DEF f, f2
<1>5. \A p \in A : <<p, f[p]>> \in P /\ f2[<<p, f[p]>>] = f[p]
  BY <1>3, <1>4
<1>6. g[A] <= g2[P]
  BY <1>1, <1>2, <1>3, <1>4, <1>5, TableBelow
<1>7. Adds(g, f, A)
  BY <1>1, <1>3, TableAdds
<1> QED  BY <1>1, <1>2, <1>6, <1>7 DEF Adds

(* The same, beside the one order that was weighed last. *)
LEMMA ClaimedWithLast ==
  ASSUME TypeOK, NEW s \in Skus, NEW A \in SUBSET Orders, IsFiniteSet(A), NEW o \in A,
         NEW P, IsFiniteSet(P), P \subseteq Orders \X Nat,
         \A p \in A \ {o} : <<p, rows[p][s].qty>> \in P
  PROVE  Claimed(A, s) \in Nat /\ Claimed(A, s) <= rows[o][s].qty + Quantity(P)
<1> DEFINE f == [p \in A |-> rows[p][s].qty]
           f2 == [p \in P |-> p[2]]
<1>1. PICK g : SumTable(g, f, A) /\ Claimed(A, s) = g[A]
  BY ClaimsTable
<1>2. PICK g2 : SumTable(g2, f2, P) /\ Quantity(P) = g2[P]
  BY QuantityTable
<1>3. f \in [A -> Nat] /\ \A p \in A : f[p] = rows[p][s].qty
  BY DEF TypeOK, Row
<1>4. f2 \in [P -> Nat] /\ \A p \in P : f2[p] = p[2]
  OBVIOUS
<1> HIDE DEF f, f2
<1>5. \A p \in A \ {o} : <<p, f[p]>> \in P /\ f2[<<p, f[p]>>] = f[p]
  BY <1>3, <1>4
<1>6. g[A \ {o}] <= g2[P]
  <2>1. A \ {o} \in SUBSET A
    OBVIOUS
  <2> QED  BY <1>1, <1>2, <1>3, <1>4, <1>5, <2>1, TableBelow
<1>7. Adds(g, f, A)
  BY <1>1, <1>3, TableAdds
<1>8. g[A] = f[o] + g[A \ {o}] /\ g[A] \in Nat /\ g[A \ {o}] \in Nat
  BY <1>7 DEF Adds
<1>9. Quantity(P) \in Nat
  BY QuantityIsNat
<1> QED  BY <1>1, <1>2, <1>3, <1>6, <1>8, <1>9

--------------------------------------------------------------------------------
(* What is claimed fits in what was observed *)

(* The rows a call has written: set aside or taken back where there was a claim, the claim of *)
(* the request at the end of a replacement, the same claim with a new end in an extension.      *)
WrittenAs(t, step, o, s, row) ==
  \/ row = Dead("expired") /\ Active(rows[o][s]) /\ op[t] = "reserve"
  \/ /\ row = Dead("released") /\ Active(rows[o][s]) /\ o = order[t]
     /\ step = "commitClaim" \/ (step = "commit" /\ op[t] # "reserve")
  \/ /\ step = "commitClaim" /\ o = order[t] /\ s \in request[t].skus
     /\ row = ClaimedRow(t, s)
  \/ /\ step = "commit" /\ op[t] = "reserve" /\ o = order[t] /\ Active(rows[o][s])
     /\ row = [rows[o][s] EXCEPT !.expires = now[t] + TTL]

Writes(t) ==
  \A o \in Orders, s \in Skus :
    pend[t][o][s] # NoWrite => WrittenAs(t, pc[t], o, s, pend[t][o][s])

FitsWeighed(t) ==
  pc[t] \in {"replace", "commitClaim"} =>
    \A s \in request[t].skus :
      /\ IsFiniteSet(weighed[t][s])
      /\ request[t].qty[s] + Quantity(weighed[t][s]) <= request[t].avail[s]

RowsFit(o) ==
  \A s \in Skus : Active(rows[o][s]) =>
    /\ IsFiniteSet(weighedFor[o][s])
    /\ rows[o][s].qty + Quantity(weighedFor[o][s]) <= rows[o][s].avail

(* Of any orders with claims on one stock there is one that was weighed against all the others. *)
GroupsHaveLast ==
  \A w \in Warehouses, s \in Skus : \A H \in SUBSET Holders(w, s) : H # {} =>
    \E o \in H : \A p \in H \ {o} : <<p, rows[p][s].qty>> \in weighedFor[o][s]

Claimants(s) == {o \in Orders : Active(rows[o][s])}

CapacityInv ==
  /\ \A t \in Calls : Writes(t) /\ FitsWeighed(t)
  /\ \A o \in Orders : RowsFit(o)
  /\ GroupsHaveLast
  /\ \A s \in Skus : IsFiniteSet(Claimants(s))

LEMMA InitCapacity == Init => CapacityInv
<1> SUFFICES ASSUME Init PROVE CapacityInv
  OBVIOUS
<1>1. /\ \A o \in Orders, s \in Skus : ~Active(rows[o][s])
      /\ \A t \in Calls : pc[t] = "idle"
      /\ \A t \in Calls, o \in Orders, s \in Skus : pend[t][o][s] = NoWrite
  BY DEF Init, NoRow, Active, NoWrites
<1>2. GroupsHaveLast
  BY <1>1 DEF GroupsHaveLast, Holders
<1>3. \A s \in Skus : Claimants(s) = {}
  BY <1>1 DEF Claimants
<1>4. \A t \in Calls : Writes(t) /\ FitsWeighed(t)
  BY <1>1 DEF Writes, FitsWeighed
<1>5. \A o \in Orders : RowsFit(o)
  BY <1>1 DEF RowsFit
<1> QED  BY <1>2, <1>3, <1>4, <1>5, FS_EmptySet DEF CapacityInv

(* A row the call sees as active before it decides is a committed one. *)
LEMMA SeenBeforeDeciding ==
  ASSUME IInv, NEW t \in Calls, pc[t] \notin {"commit", "commitClaim"},
         NEW o \in Orders, NEW s \in Skus, Active(View(t, o, s))
  PROVE  pend[t][o][s] = NoWrite /\ Active(rows[o][s]) /\ View(t, o, s) = rows[o][s]
<1>1. WritesOf(t)
  BY DEF IInv, CallInv
<1>2. pend[t][o][s] = NoWrite
  BY <1>1 DEF WritesOf, View
<1> QED  BY <1>2 DEF View

(* What counts as a write of the call stays one while it keeps its arguments and the table stands. *)
LEMMA WrittenAsStays ==
  ASSUME NEW t \in Calls, NEW o \in Orders, NEW s \in Skus, NEW step, step = pc'[t], NEW row, row = pend'[t][o][s],
         rows'[o][s] = rows[o][s], op'[t] = op[t], order'[t] = order[t], request'[t] = request[t], now'[t] = now[t],
         WrittenAs(t, step, o, s, row)
  PROVE  WrittenAs(t, pc[t], o, s, pend[t][o][s])'
<1>1. ClaimedRow(t, s)' = ClaimedRow(t, s)
  BY DEF ClaimedRow
<1> QED  BY <1>1 DEF WrittenAs

(* Before the claim is written all that is written sets claims aside, at whatever step. *)
LEMMA StillSetAside ==
  ASSUME NEW t \in Calls, NEW o \in Orders, NEW s \in Skus, NEW row, NEW step, NEW other,
         WrittenAs(t, step, o, s, row), step \notin {"commit", "commitClaim"}
  PROVE  WrittenAs(t, other, o, s, row)
BY DEF WrittenAs

(* An UPDATE of a call that has only set rows aside so far. *)
LEMMA WritesAfter ==
  ASSUME IInv, NEW t \in Calls, Writes(t), pc[t] \notin {"commit", "commitClaim"}, NEW C,
         NEW new \in [Skus -> Row], Write(t, C, new), UNCHANGED <<rows, op, order, request, now>>,
         \A o \in Orders, s \in Skus : <<o, s>> \in C => WrittenAs(t, pc'[t], o, s, new[s])
  PROVE  Writes(t)'
<1>0. TypeOK
  BY DEF IInv
<1>1. \A o \in Orders, s \in Skus :
        /\ <<o, s>> \in C => pend'[t][o][s] = new[s]
        /\ <<o, s>> \notin C => pend'[t][o][s] = pend[t][o][s]
  BY <1>0 DEF TypeOK, Write
<1> SUFFICES ASSUME NEW o \in Orders, NEW s \in Skus, pend'[t][o][s] # NoWrite
             PROVE  WrittenAs(t, pc[t], o, s, pend[t][o][s])'
  BY DEF Writes
<1>2. WrittenAs(t, pc'[t], o, s, pend'[t][o][s])
  <2>1. CASE <<o, s>> \in C
    BY <1>1, <2>1
  <2>2. CASE <<o, s>> \notin C
    <3>1. pend'[t][o][s] = pend[t][o][s] /\ pend[t][o][s] # NoWrite
      BY <1>1, <2>2
    <3>2. WrittenAs(t, pc[t], o, s, pend[t][o][s])
      BY <3>1 DEF Writes
    <3> QED  BY <3>1, <3>2, StillSetAside
  <2> QED  BY <2>1, <2>2
<1> QED  BY <1>2, WrittenAsStays

LEMMA StepWrites ==
  ASSUME IInv, NEW t \in Calls, Writes(t), ReleasesOnly(t),
         Reserve(t) \/ ReleaseCall(t) \/ LockOrder(t) \/ Commit(t) \/ Abort(t)
  PROVE  Writes(t)'
<1>0. TypeOK /\ PathOf(t)
  BY DEF IInv, CallInv
<1>1. CASE \/ \E o \in Orders, r \in Requests : StartReserve(t, o, r)
           \/ \E o \in Orders : StartRelease(t, o)
           \/ ShareBinding(t) \/ LockOrder(t)
  <2>1. pend'[t] = NoWrites
    BY <1>0, <1>1 DEF StartReserve, StartRelease, ShareBinding, LockOrder, PathOf, HasOrderLock
  <2> QED  BY <2>1 DEF Writes, NoWrites
<1>2. CASE RefusePaused(t) \/ RefuseCapacity(t) \/ Commit(t) \/ Abort(t)
  <2>1. pend'[t] = NoWrites
    BY <1>0, <1>2 DEF RefusePaused, RefuseCapacity, Commit, Abort, End, TypeOK
  <2> QED  BY <2>1 DEF Writes, NoWrites
<1>3. CASE LockResource(t) \/ Weigh(t)
  <2>1. /\ pc[t] \in {"resourceLock", "decide"} /\ pc'[t] \notin {"commit", "commitClaim"}
        /\ UNCHANGED <<rows, op, order, request, now, pend>>
    BY <1>0, <1>3 DEF LockResource, Weigh, Goto, TypeOK
  <2>2. ASSUME NEW o \in Orders, NEW s \in Skus, pend'[t][o][s] # NoWrite
        PROVE  WrittenAs(t, pc[t], o, s, pend[t][o][s])'
    <3>1. WrittenAs(t, pc[t], o, s, pend[t][o][s]) /\ pend'[t][o][s] = pend[t][o][s]
      BY <2>1, <2>2 DEF Writes
    <3>2. WrittenAs(t, pc'[t], o, s, pend'[t][o][s])
      BY <2>1, <3>1, StillSetAside
    <3> QED  BY <2>1, <3>2, WrittenAsStays
  <2> QED  BY <2>2 DEF Writes
<1>4. CASE ExpireOrder(t)
  <2> DEFINE new == [s \in Skus |-> Dead("expired")]
  <2>1. /\ pc[t] = "expireOrder" /\ Write(t, OwnLapsed(t), new) /\ UNCHANGED <<rows, op, order, request, now>>
        /\ op[t] = "reserve"
    BY <1>0, <1>4 DEF ExpireOrder, PathOf
  <2>2. new \in [Skus -> Row]
    BY DeadRows DEF Statuses
  <2>3. \A o \in Orders, s \in Skus : <<o, s>> \in OwnLapsed(t) => new[s] = Dead("expired") /\ Active(rows[o][s])
    BY <2>1, SeenBeforeDeciding DEF OwnLapsed
  <2> HIDE DEF new
  <2>4. \A o \in Orders, s \in Skus : <<o, s>> \in OwnLapsed(t) => WrittenAs(t, pc'[t], o, s, new[s])
    BY <2>1, <2>3 DEF WrittenAs
  <2> QED  BY <2>1, <2>2, <2>4, WritesAfter
<1>5. CASE ExpireResource(t)
  <2> DEFINE new == [s \in Skus |-> Dead("expired")]
  <2>1. PICK res \in todo[t] \cap held[t] : Write(t, LapsedOn(t, res), new)
    BY <1>5 DEF ExpireResource
  <2>2. /\ pc[t] = "expireResource" /\ UNCHANGED <<rows, op, order, request, now>>
        /\ op[t] = "reserve"
    BY <1>0, <1>5 DEF ExpireResource, PathOf
  <2>3. new \in [Skus -> Row]
    BY DeadRows DEF Statuses
  <2>4. \A o \in Orders, s \in Skus : <<o, s>> \in LapsedOn(t, res) => new[s] = Dead("expired") /\ Active(rows[o][s])
    BY <2>2, SeenBeforeDeciding DEF LapsedOn
  <2> HIDE DEF new
  <2>5. \A o \in Orders, s \in Skus : <<o, s>> \in LapsedOn(t, res) => WrittenAs(t, pc'[t], o, s, new[s])
    BY <2>2, <2>4 DEF WrittenAs
  <2> QED  BY <2>1, <2>2, <2>3, <2>5, WritesAfter
<1>6. CASE Extend(t)
  <2> DEFINE new == [s \in Skus |-> [View(t, order[t], s) EXCEPT !.expires = now[t] + TTL]]
  <2>1. /\ pc[t] = "decide" /\ Write(t, OwnActive(t), new) /\ UNCHANGED <<rows, op, order, request, now>>
        /\ op[t] = "reserve" /\ pc'[t] = "commit" /\ order[t] \in Orders
    BY <1>0, <1>6 DEF Extend, PathOf, Goto, TypeOK
  <2>2. new \in [Skus -> Row]
    <3>1. \A s \in Skus : View(t, order[t], s) \in Row /\ now[t] + TTL \in Nat
      BY <1>0, <2>1, ViewIsRow, TimeAssumption DEF TypeOK
    <3> QED  BY <3>1 DEF Row
  <2>3. ASSUME NEW o \in Orders, NEW s \in Skus, <<o, s>> \in OwnActive(t)
        PROVE  o = order[t] /\ Active(rows[o][s]) /\ new[s] = [rows[o][s] EXCEPT !.expires = now[t] + TTL]
    <3>1. o = order[t] /\ Active(View(t, o, s))
      BY <2>3 DEF OwnActive
    <3>2. View(t, o, s) = rows[o][s] /\ Active(rows[o][s])
      BY <2>1, <3>1, SeenBeforeDeciding
    <3> QED  BY <3>1, <3>2
  <2> HIDE DEF new
  <2>4. \A o \in Orders, s \in Skus : <<o, s>> \in OwnActive(t) => WrittenAs(t, pc'[t], o, s, new[s])
    BY <2>1, <2>3 DEF WrittenAs
  <2> QED  BY <2>1, <2>2, <2>4, WritesAfter
<1>7. CASE Replace(t)
  <2> DEFINE new == [s \in Skus |-> IF s \in request[t].skus THEN ClaimedRow(t, s) ELSE Dead("released")]
             C == OwnActive(t) \cup RequestedRows(t)
  <2>1. /\ pc[t] = "replace" /\ Write(t, C, new) /\ UNCHANGED <<rows, op, order, request, now>>
        /\ op[t] = "reserve" /\ pc'[t] = "commitClaim" /\ order[t] \in Orders /\ request[t] \in Requests
    BY <1>0, <1>7 DEF Replace, PathOf, Goto, TypeOK
  <2>2. new \in [Skus -> Row]
    BY <1>0, <2>1, ClaimedIsRow, DeadIsRow DEF Statuses
  <2>3. ASSUME NEW o \in Orders, NEW s \in Skus, <<o, s>> \in C
        PROVE  \/ new[s] = Dead("released") /\ Active(rows[o][s]) /\ o = order[t]
               \/ o = order[t] /\ s \in request[t].skus /\ new[s] = ClaimedRow(t, s)
    <3>1. CASE s \in request[t].skus
      BY <2>3, <3>1 DEF OwnActive, RequestedRows
    <3>2. CASE s \notin request[t].skus
      <4>1. o = order[t] /\ Active(View(t, o, s))
        BY <2>3, <3>2 DEF OwnActive, RequestedRows
      <4>2. Active(rows[o][s])
        BY <2>1, <4>1, SeenBeforeDeciding
      <4> QED  BY <3>2, <4>1, <4>2
    <3> QED  BY <3>1, <3>2
  <2> HIDE DEF new, C
  <2>4. pc[t] \notin {"commit", "commitClaim"}
    BY <2>1
  <2>5. \A o \in Orders, s \in Skus : <<o, s>> \in C => WrittenAs(t, pc'[t], o, s, new[s])
    BY <2>1, <2>3 DEF WrittenAs
  <2> QED  BY <2>1, <2>2, <2>4, <2>5, WritesAfter
<1>8. CASE ReleaseRows(t)
  <2> DEFINE new == [s \in Skus |-> Dead("released")]
  <2>1. /\ pc[t] = "release" /\ Write(t, OwnActive(t), new) /\ UNCHANGED <<rows, op, order, request, now>>
        /\ op[t] # "reserve" /\ pc'[t] = "commit"
    BY <1>0, <1>8 DEF ReleaseRows, ReleasesOnly, Goto, TypeOK
  <2>2. new \in [Skus -> Row]
    BY DeadRows DEF Statuses
  <2>3. \A o \in Orders, s \in Skus : <<o, s>> \in OwnActive(t) =>
          new[s] = Dead("released") /\ Active(rows[o][s]) /\ o = order[t]
    BY <2>1, SeenBeforeDeciding DEF OwnActive
  <2> HIDE DEF new
  <2>4. \A o \in Orders, s \in Skus : <<o, s>> \in OwnActive(t) => WrittenAs(t, pc'[t], o, s, new[s])
    BY <2>1, <2>3 DEF WrittenAs
  <2> QED  BY <2>1, <2>2, <2>4, WritesAfter
<1> QED  BY <1>1, <1>2, <1>3, <1>4, <1>5, <1>6, <1>7, <1>8 DEF Reserve, ReleaseCall

(* What the capacity check counts is finite: a claim of each other order at most. *)
LEMMA WeighedIsFinite ==
  ASSUME IInv, NEW t \in Calls, pc[t] = "decide", NEW s \in Skus, IsFiniteSet(Claimants(s))
  PROVE  IsFiniteSet(ReservedByOthers(t, s)) /\ ReservedByOthers(t, s) \subseteq Orders \X Nat
<1>0. TypeOK
  BY DEF IInv
<1> DEFINE R == ReservedByOthers(t, s)
           f == [pair \in R |-> pair[1]]
<1>1. R \subseteq Orders \X Nat
  BY <1>0, ViewIsRow DEF ReservedByOthers, Row
<1>2. \A pair \in R : pair[1] \in Claimants(s) /\ pair[2] = View(t, pair[1], s).qty /\ pair = <<pair[1], pair[2]>>
  BY SeenBeforeDeciding DEF ReservedByOthers, Claimants
<1>3. f \in Injection(R, Claimants(s))
  BY <1>2 DEF Injection, IsInjective
<1>4. IsFiniteSet(R)
  <2> HIDE DEF R, f
  <2> QED  BY <1>3, FS_Injection
<1> QED  BY <1>1, <1>4

(* A request that passes the capacity check fits beside all it was weighed against. *)
LEMMA StepFitsWeighed ==
  ASSUME IInv, CapacityInv, NEW t \in Calls,
         Reserve(t) \/ ReleaseCall(t) \/ LockOrder(t) \/ Commit(t) \/ Abort(t)
  PROVE  FitsWeighed(t)'
<1>0. TypeOK /\ PathOf(t)
  BY DEF IInv, CallInv
<1>1. CASE Weigh(t)
  <2>1. /\ pc[t] = "decide" /\ Fits(t) /\ request' = request /\ request[t] \in Requests
        /\ \A s \in Skus : weighed'[t][s] = IF s \in request[t].skus THEN ReservedByOthers(t, s) ELSE {}
    BY <1>0, <1>1 DEF Weigh, PathOf, TypeOK
  <2>2. ASSUME NEW s \in request[t].skus
        PROVE  /\ IsFiniteSet(weighed'[t][s])
               /\ request[t].qty[s] + Quantity(weighed'[t][s]) <= request[t].avail[s]
    <3>1. s \in Skus /\ request[t].qty[s] \in Nat /\ request[t].avail[s] \in Nat
      BY <2>1, RequestsAssumption
    <3>2. IsFiniteSet(ReservedByOthers(t, s)) /\ ReservedByOthers(t, s) \subseteq Orders \X Nat
      BY <2>1, <3>1, WeighedIsFinite DEF CapacityInv
    <3>3. Quantity(ReservedByOthers(t, s)) \in Nat
      BY <3>2, QuantityIsNat
    <3>4. request[t].qty[s] <= request[t].avail[s] - Quantity(ReservedByOthers(t, s))
      BY <2>1 DEF Fits
    <3>5. weighed'[t][s] = ReservedByOthers(t, s)
      BY <2>1, <3>1
    <3>6. request[t].qty[s] + Quantity(ReservedByOthers(t, s)) <= request[t].avail[s]
      BY <3>1, <3>3, <3>4
    <3> QED  BY <3>2, <3>5, <3>6
  <2> QED  BY <2>1, <2>2 DEF FitsWeighed
<1>2. CASE Replace(t)
  <2>1. pc[t] = "replace" /\ UNCHANGED <<request, weighed>>
    BY <1>2 DEF Replace
  <2> QED  BY <2>1 DEF CapacityInv, FitsWeighed
<1>3. CASE ~Weigh(t) /\ ~Replace(t)
  <2>1. pc'[t] \notin {"replace", "commitClaim"}
    BY <1>0, <1>3 DEF Reserve, ReleaseCall, StartReserve, ShareBinding, RefusePaused, ExpireOrder, LockResource,
       ExpireResource, Extend, RefuseCapacity, StartRelease, ReleaseRows, LockOrder, Commit, Abort, End, Goto, TypeOK
  <2> QED  BY <2>1 DEF FitsWeighed
<1> QED  BY <1>1, <1>2, <1>3

(* Another call's writes and check are as they were: no commit touches a row it has written. *)
LEMMA OthersKeepWrites ==
  ASSUME IInv, NEW t \in Calls, Reserve(t) \/ ReleaseCall(t) \/ LockOrder(t) \/ Commit(t) \/ Abort(t),
         NEW u \in Calls \ {t}, Writes(u), FitsWeighed(u)
  PROVE  Writes(u)' /\ FitsWeighed(u)'
<1>0. TypeOK
  BY DEF IInv
<1>1. OthersUntouched(t)
  BY <1>0, OthersStay
<1>2. FitsWeighed(u)'
  BY <1>1 DEF FitsWeighed, OthersUntouched
<1>3. ASSUME NEW o \in Orders, NEW s \in Skus, pend'[u][o][s] # NoWrite
      PROVE  WrittenAs(u, pc[u], o, s, pend[u][o][s])'
  <2>1. pend[u][o][s] # NoWrite /\ WrittenAs(u, pc'[u], o, s, pend'[u][o][s])
    BY <1>1, <1>3 DEF Writes, OthersUntouched
  <2>2. rows'[o][s] = rows[o][s]
    <3>1. CASE Commit(t)
      <4>1. pend[t][o][s] = NoWrite
        BY <2>1 DEF IInv, RowLockExclusive
      <4> QED  BY <3>1, <4>1, CommittedRow
    <3>2. CASE ~Commit(t)
      <4>1. rows' = rows
        BY <3>2 DEF Reserve, ReleaseCall, StartReserve, ShareBinding, RefusePaused, ExpireOrder, LockResource,
           ExpireResource, Extend, Weigh, RefuseCapacity, Replace, StartRelease, ReleaseRows, LockOrder, Abort
      <4> QED  BY <4>1
    <3> QED  BY <3>1, <3>2
  <2>3. op'[u] = op[u] /\ order'[u] = order[u] /\ request'[u] = request[u] /\ now'[u] = now[u]
    BY <1>1 DEF OthersUntouched
  <2> QED  BY <2>1, <2>2, <2>3, WrittenAsStays
<1> QED  BY <1>2, <1>3 DEF Writes

(* What a commit leaves of the claims of the other orders: those it does not set aside. *)
LEMMA CommittedForeign ==
  ASSUME IInv, NEW t \in Calls, Commit(t), NEW o \in Orders, NEW s \in Skus, o # order[t], Active(rows'[o][s])
  PROVE  /\ rows'[o][s] = rows[o][s] /\ rows'[o][s] = View(t, o, s)
         /\ weighedFor'[o][s] = weighedFor[o][s]
<1>1. pend[t][o][s] = NoWrite
  BY CommittedRow
<1>2. rows'[o][s] = rows[o][s] /\ rows'[o][s] = View(t, o, s)
  BY <1>1, CommittedRow DEF View
<1>3. weighedFor'[o][s] = weighedFor[o][s]
  BY <1>2 DEF Commit, Publish
<1> QED  BY <1>2, <1>3

(* What it makes of the claim of its own order: the claim that was weighed, or the same claim. *)
LEMMA CommittedOwn ==
  ASSUME IInv, NEW t \in Calls, Commit(t), Writes(t), NEW s \in Skus, Active(rows'[order[t]][s])
  PROVE  /\ pc[t] = "commitClaim" =>
              /\ s \in request[t].skus /\ rows'[order[t]][s] = ClaimedRow(t, s)
              /\ weighedFor'[order[t]][s] = weighed[t][s]
         /\ pc[t] = "commit" =>
              /\ Active(rows[order[t]][s])
              /\ rows'[order[t]][s].wh = rows[order[t]][s].wh /\ rows'[order[t]][s].qty = rows[order[t]][s].qty
              /\ rows'[order[t]][s].avail = rows[order[t]][s].avail
              /\ weighedFor'[order[t]][s] = weighedFor[order[t]][s]
<1>0. TypeOK /\ CallInv(t) /\ order[t] \in Orders /\ pc[t] \in {"commit", "commitClaim"}
  BY DEF IInv, CallInv, PathOf, Commit
<1>1. rows'[order[t]][s] = View(t, order[t], s)
  BY <1>0 DEF Commit, Publish
<1>2. weighedFor'[order[t]][s] = IF pc[t] = "commitClaim" THEN weighed[t][s] ELSE weighedFor[order[t]][s]
  BY <1>0, <1>1 DEF Commit, Publish
<1>3. \A st \in Statuses \ {"active"} : ~Active(Dead(st))
  BY DeadIsRow DEF Active
<1>4. CASE pc[t] = "commitClaim"
  <2>1. s \in request[t].skus /\ pend[t][order[t]][s] # NoWrite
    BY <1>0, <1>1, <1>4 DEF CallInv, ReplacedAll
  <2>2. rows'[order[t]][s] = pend[t][order[t]][s]
    BY <1>1, <2>1 DEF View
  <2>3. WrittenAs(t, "commitClaim", order[t], s, rows'[order[t]][s])
    BY <1>0, <1>4, <2>1, <2>2 DEF Writes
  <2>4. rows'[order[t]][s] # Dead("expired") /\ rows'[order[t]][s] # Dead("released")
    BY <1>3 DEF Statuses
  <2>5. rows'[order[t]][s] = ClaimedRow(t, s)
    BY <2>3, <2>4 DEF WrittenAs
  <2> QED  BY <1>2, <1>4, <2>1, <2>5
<1>5. CASE pc[t] = "commit"
  <2>1. CASE pend[t][order[t]][s] = NoWrite
    BY <1>1, <1>2, <1>5, <2>1 DEF View
  <2>2. CASE pend[t][order[t]][s] # NoWrite
    <3>1. rows'[order[t]][s] = pend[t][order[t]][s]
      BY <1>1, <2>2 DEF View
    <3>2. WrittenAs(t, "commit", order[t], s, rows'[order[t]][s])
      BY <1>0, <1>5, <2>2, <3>1 DEF Writes
    <3>3. rows'[order[t]][s] # Dead("expired") /\ rows'[order[t]][s] # Dead("released")
      BY <1>3 DEF Statuses
    <3>4. /\ Active(rows[order[t]][s])
          /\ rows'[order[t]][s] = [rows[order[t]][s] EXCEPT !.expires = now[t] + TTL]
      BY <3>2, <3>3 DEF WrittenAs
    <3>5. rows[order[t]][s] \in Row
      BY <1>0 DEF TypeOK
    <3>6. /\ rows'[order[t]][s].wh = rows[order[t]][s].wh /\ rows'[order[t]][s].qty = rows[order[t]][s].qty
          /\ rows'[order[t]][s].avail = rows[order[t]][s].avail
      BY <3>4, <3>5 DEF Row
    <3> QED  BY <1>2, <1>5, <3>4, <3>6
  <2> QED  BY <2>1, <2>2
<1> QED  BY <1>0, <1>4, <1>5

(* What a commit leaves was weighed: the claim it makes, against all that stand beside it. *)
LEMMA CommitCapacity ==
  ASSUME IInv, CapacityInv, NEW t \in Calls, Commit(t)
  PROVE  /\ \A o \in Orders : RowsFit(o)'
         /\ GroupsHaveLast'
         /\ \A s \in Skus : IsFiniteSet(Claimants(s)')
<1>0. TypeOK /\ CallInv(t) /\ Writes(t) /\ FitsWeighed(t) /\ order[t] \in Orders /\ pc[t] \in {"commit", "commitClaim"}
  BY DEF IInv, CallInv, PathOf, Commit, CapacityInv
<1>r. pc[t] = "commitClaim" => request[t] \in Requests
  BY <1>0 DEF CallInv, PathOf
<1>1. ASSUME NEW o \in Orders, NEW s \in Skus, Active(rows'[o][s])
      PROVE  /\ IsFiniteSet(weighedFor'[o][s])
             /\ rows'[o][s].qty + Quantity(weighedFor'[o][s]) <= rows'[o][s].avail
  <2>1. CASE o # order[t] \/ pc[t] = "commit"
    <3>1. /\ Active(rows[o][s]) /\ rows'[o][s].qty = rows[o][s].qty /\ rows'[o][s].avail = rows[o][s].avail
          /\ weighedFor'[o][s] = weighedFor[o][s]
      BY <1>0, <1>1, <2>1, CommittedForeign, CommittedOwn
    <3>2. RowsFit(o)
      BY DEF CapacityInv
    <3> QED  BY <3>1, <3>2 DEF RowsFit
  <2>2. CASE o = order[t] /\ pc[t] = "commitClaim"
    <3>1. s \in request[t].skus /\ rows'[o][s] = ClaimedRow(t, s) /\ weighedFor'[o][s] = weighed[t][s]
      BY <1>0, <1>1, <2>2, CommittedOwn
    <3>2. rows'[o][s].qty = request[t].qty[s] /\ rows'[o][s].avail = request[t].avail[s]
      BY <3>1 DEF ClaimedRow
    <3>3. /\ IsFiniteSet(weighed[t][s])
          /\ request[t].qty[s] + Quantity(weighed[t][s]) <= request[t].avail[s]
      BY <1>0, <2>2, <3>1 DEF FitsWeighed
    <3> QED  BY <3>1, <3>2, <3>3
  <2> QED  BY <1>0, <2>1, <2>2
<1>2. ASSUME NEW w \in Warehouses, NEW s \in Skus, NEW H \in SUBSET Orders, H # {},
             \A o \in H : Active(rows'[o][s]) /\ rows'[o][s].wh = w
      PROVE  \E o \in H : \A p \in H \ {o} : <<p, rows'[p][s].qty>> \in weighedFor'[o][s]
  <2>1. CASE order[t] \in H /\ pc[t] = "commitClaim"
    <3>1. s \in request[t].skus /\ rows'[order[t]][s] = ClaimedRow(t, s) /\ weighedFor'[order[t]][s] = weighed[t][s]
      BY <1>0, <1>2, <2>1, CommittedOwn
    <3>2. w = request[t].wh
      BY <1>2, <2>1, <3>1 DEF ClaimedRow
    <3>3. ASSUME NEW p \in H \ {order[t]} PROVE <<p, rows'[p][s].qty>> \in weighed[t][s]
      <4>1. rows'[p][s] = View(t, p, s)
        BY <1>2, <3>3, CommittedForeign
      <4> QED  BY <1>0, <1>2, <2>1, <3>1, <3>2, <3>3, <4>1 DEF CallInv, WeighedAll
    <3> QED  BY <2>1, <3>1, <3>3
  <2>2. CASE ~(order[t] \in H /\ pc[t] = "commitClaim")
    <3>1. ASSUME NEW p \in H
          PROVE  /\ Active(rows[p][s]) /\ rows[p][s].wh = w /\ rows[p][s].qty = rows'[p][s].qty
                 /\ weighedFor'[p][s] = weighedFor[p][s]
      <4>1. CASE p # order[t]
        BY <1>2, <4>1, CommittedForeign
      <4>2. CASE p = order[t]
        BY <1>0, <1>2, <2>2, <4>2, CommittedOwn
      <4> QED  BY <4>1, <4>2
    <3>2. H \in SUBSET Holders(w, s)
      BY <3>1 DEF Holders
    <3>3. \E o \in H : \A p \in H \ {o} : <<p, rows[p][s].qty>> \in weighedFor[o][s]
      BY <1>2, <3>2 DEF CapacityInv, GroupsHaveLast
    <3> QED  BY <3>1, <3>3
  <2> QED  BY <2>1, <2>2
<1>3. ASSUME NEW s \in Skus PROVE IsFiniteSet(Claimants(s)')
  <2>1. Claimants(s)' \subseteq Claimants(s) \cup {order[t]}
    BY CommittedForeign DEF Claimants
  <2>2. IsFiniteSet(Claimants(s) \cup {order[t]})
    BY FS_AddElement DEF CapacityInv
  <2> QED  BY <2>1, <2>2, FS_Subset
<1>4. GroupsHaveLast'
  <2> SUFFICES ASSUME NEW w \in Warehouses, NEW s \in Skus, NEW H \in SUBSET Holders(w, s)', H # {}
               PROVE  \E o \in H : \A p \in H \ {o} : <<p, rows'[p][s].qty>> \in weighedFor'[o][s]
    BY DEF GroupsHaveLast
  <2>1. H \in SUBSET Orders /\ \A o \in H : Active(rows'[o][s]) /\ rows'[o][s].wh = w
    BY DEF Holders
  <2> QED  BY <1>2, <2>1
<1> QED  BY <1>1, <1>3, <1>4 DEF RowsFit

LEMMA NextCapacity == IInv /\ WholeInv /\ CapacityInv /\ [Next]_vars => CapacityInv'
<1> SUFFICES ASSUME IInv, WholeInv, CapacityInv, [Next]_vars PROVE CapacityInv'
  OBVIOUS
<1>1. ASSUME NEW t \in Calls, Reserve(t) \/ ReleaseCall(t) \/ LockOrder(t) \/ Commit(t) \/ Abort(t)
      PROVE  CapacityInv'
  <2>1. ASSUME NEW u \in Calls PROVE Writes(u)' /\ FitsWeighed(u)'
    <3>1. CASE u = t
      BY <1>1, <3>1, StepWrites, StepFitsWeighed DEF CapacityInv, WholeInv
    <3>2. CASE u # t
      BY <1>1, <3>2, OthersKeepWrites DEF CapacityInv
    <3> QED  BY <3>1, <3>2
  <2>2. CASE Commit(t)
    <3>1. /\ \A o \in Orders : RowsFit(o)'
          /\ GroupsHaveLast'
          /\ \A s \in Skus : IsFiniteSet(Claimants(s)')
      BY <2>2, CommitCapacity
    <3> QED  BY <2>1, <3>1 DEF CapacityInv
  <2>3. CASE ~Commit(t)
    <3>1. UNCHANGED <<rows, weighedFor>>
      BY <1>1, <2>3 DEF Reserve, ReleaseCall, StartReserve, ShareBinding, RefusePaused, ExpireOrder, LockResource,
         ExpireResource, Extend, Weigh, RefuseCapacity, Replace, StartRelease, ReleaseRows, LockOrder, Abort
    <3>2. (\A o \in Orders : RowsFit(o)') /\ GroupsHaveLast' /\ \A s \in Skus : IsFiniteSet(Claimants(s)')
      BY <3>1 DEF CapacityInv, RowsFit, GroupsHaveLast, Claimants, Holders
    <3> QED  BY <2>1, <3>2 DEF CapacityInv
  <2> QED  BY <2>2, <2>3
<1>2. CASE (\E w \in Pausable : Pause(w) \/ Activate(w)) \/ Tick \/ UNCHANGED vars
  <2>1. UNCHANGED <<rows, weighedFor, callVars>>
    BY <1>2 DEF Pause, Activate, Tick, vars
  <2>2. (\A o \in Orders : RowsFit(o)') /\ GroupsHaveLast' /\ \A s \in Skus : IsFiniteSet(Claimants(s)')
    BY <2>1 DEF CapacityInv, RowsFit, GroupsHaveLast, Claimants, Holders
  <2>3. ASSUME NEW u \in Calls PROVE Writes(u)' /\ FitsWeighed(u)'
    BY <2>1 DEF CapacityInv, Writes, WrittenAs, ClaimedRow, FitsWeighed, callVars
  <2> QED  BY <2>2, <2>3 DEF CapacityInv
<1> QED  BY <1>1, <1>2 DEF Next

(* All the claims on one stock together are at most what one of the orders saw available. *)
THEOREM NothingIsOversold == Spec => []NoOversell
<1>1. TypeOK /\ CapacityInv => NoOversell
  <2> SUFFICES ASSUME TypeOK, CapacityInv, NEW w \in Warehouses, NEW s \in Skus, Holders(w, s) # {}
               PROVE  \E o \in Holders(w, s) : Claimed(Holders(w, s), s) <= rows[o][s].avail
    BY DEF NoOversell, Claimed
  <2> DEFINE H == Holders(w, s)
  <2>1. PICK o \in H : \A p \in H \ {o} : <<p, rows[p][s].qty>> \in weighedFor[o][s]
    BY DEF CapacityInv, GroupsHaveLast
  <2>2. H \in SUBSET Orders /\ H \subseteq Claimants(s) /\ Active(rows[o][s]) /\ o \in Orders
    BY <2>1 DEF Holders, Claimants
  <2>3. IsFiniteSet(H)
    BY <2>2, FS_Subset DEF CapacityInv
  <2>4. /\ IsFiniteSet(weighedFor[o][s]) /\ weighedFor[o][s] \subseteq Orders \X Nat
        /\ rows[o][s].qty + Quantity(weighedFor[o][s]) <= rows[o][s].avail
    BY <2>2 DEF CapacityInv, RowsFit, TypeOK
  <2> HIDE DEF H
  <2>5. Claimed(H, s) \in Nat /\ Claimed(H, s) <= rows[o][s].qty + Quantity(weighedFor[o][s])
    BY <2>1, <2>2, <2>3, <2>4, ClaimedWithLast
  <2>6. Quantity(weighedFor[o][s]) \in Nat /\ rows[o][s].qty \in Nat /\ rows[o][s].avail \in Nat
    BY <2>2, <2>4, QuantityIsNat DEF TypeOK, Row
  <2>7. Claimed(H, s) <= rows[o][s].avail
    BY <2>4, <2>5, <2>6
  <2> QED  BY <2>1, <2>7 DEF H
<1>2. IInv => TypeOK
  BY DEF IInv
<1> QED
  BY <1>1, <1>2, InitWhole, NextWhole, InitCapacity, NextCapacity, Invariance, PTL DEF Spec

--------------------------------------------------------------------------------
(* Every commit is one operation of the ledger *)

(* The claims a call has set aside. *)
AsideBy(t) ==
  {c \in Orders \X Skus : /\ pend[t][c[1]][c[2]] # NoWrite
                          /\ pend[t][c[1]][c[2]].status = "expired"}

(* The operators of the ledger, in the words of this module. *)
LEMMA SetAsideRow ==
  ASSUME NEW E, NEW o \in Orders, NEW s \in Skus
  PROVE  Ledger!SetAside(E)[o][s] = IF <<o, s>> \in E THEN Dead("expired") ELSE rows[o][s]
BY DEF Ledger!Dead, Dead, Ledger!NoRow, NoRow, Ledger!SetAside

LEMMA LedgerSum ==
  ASSUME NEW o, NEW w, NEW s, NEW E
  PROVE  Ledger!ClaimedByOthers(o, w, s, E)
           = Claimed({p \in Orders \ {o} : Active(rows[p][s]) /\ rows[p][s].wh = w /\ <<p, s>> \notin E}, s)
BY DEF Ledger!ClaimedByOthers, Claimed, Ledger!Active, Active, Ledger!MapThenSumSet, Ledger!MapThenFoldSet,
  MapThenSumSet, MapThenFoldSet

(* All that a call has set aside had lapsed. *)
LEMMA AsideHasLapsed ==
  ASSUME IInv, NEW t \in Calls, Writes(t)
  PROVE  /\ AsideBy(t) \in SUBSET Ledger!LapsedClaims
         /\ \A o \in Orders, s \in Skus : <<o, s>> \in AsideBy(t) =>
              pend[t][o][s] = Dead("expired") /\ pend[t][o][s] # NoWrite /\ op[t] = "reserve"
<1>0. TypeOK /\ WritesOf(t) /\ now[t] <= clock
  BY DEF IInv, CallInv, PathOf
<1>1. ASSUME NEW o \in Orders, NEW s \in Skus, <<o, s>> \in AsideBy(t)
      PROVE  /\ pend[t][o][s] # NoWrite /\ pend[t][o][s] = Dead("expired") /\ Active(rows[o][s])
             /\ op[t] = "reserve" /\ rows[o][s].expires <= clock
  <2>1. pend[t][o][s] # NoWrite /\ pend[t][o][s].status = "expired"
    BY <1>1 DEF AsideBy
  <2>2. WrittenAs(t, pc[t], o, s, pend[t][o][s])
    BY <2>1 DEF Writes
  <2>3. rows[o][s] \in Row /\ now[t] \in Nat /\ clock \in Nat
    BY <1>0 DEF TypeOK
  <2>4. pend[t][o][s] # Dead("released")
    BY <2>1 DEF Dead, NoRow
  <2>5. pend[t][o][s] # ClaimedRow(t, s)
    BY <2>1 DEF ClaimedRow
  <2>6. Active(rows[o][s]) => [rows[o][s] EXCEPT !.expires = now[t] + TTL].status # "expired"
    BY <2>3 DEF Row, Active
  <2>7. pend[t][o][s] = Dead("expired") /\ Active(rows[o][s]) /\ op[t] = "reserve"
    BY <2>1, <2>2, <2>4, <2>5, <2>6 DEF WrittenAs
  <2>8. rows[o][s].expires <= now[t]
    BY <1>0, <2>1, <2>7 DEF WritesOf
  <2>9. rows[o][s].expires <= clock
    BY <1>0, <2>3, <2>8 DEF Row
  <2> QED  BY <2>1, <2>7, <2>9
<1>2. ASSUME NEW c \in AsideBy(t) PROVE c \in Ledger!LapsedClaims
  <2>1. PICK o \in Orders, s \in Skus : c = <<o, s>>
    BY DEF AsideBy
  <2> QED  BY <1>1, <2>1 DEF Ledger!LapsedClaims, Ledger!Lapsed, Ledger!Active, Active
<1> QED  BY <1>1, <1>2

(* On the other orders a commit leaves what setting the swept claims aside leaves. *)
LEMMA CommitSetsAside ==
  ASSUME IInv, NEW t \in Calls, Commit(t), Writes(t), NEW o \in Orders, NEW s \in Skus, o # order[t]
  PROVE  rows'[o][s] = Ledger!SetAside(AsideBy(t))[o][s]
<1>1. WritesOf(t)
  BY DEF IInv, CallInv
<1>2. CASE pend[t][o][s] = NoWrite
  <2>1. <<o, s>> \notin AsideBy(t)
    BY <1>2 DEF AsideBy
  <2>2. rows'[o][s] = rows[o][s]
    BY <1>2, CommittedRow
  <2>3. Ledger!SetAside(AsideBy(t))[o][s] = rows[o][s]
    BY <2>1, SetAsideRow
  <2> QED  BY <2>2, <2>3
<1>3. CASE pend[t][o][s] # NoWrite
  <2>1. <<o, s>> \in AsideBy(t)
    BY <1>1, <1>3 DEF AsideBy, WritesOf
  <2>2. pend[t][o][s] = Dead("expired")
    BY <2>1, AsideHasLapsed
  <2>3. rows'[o][s] = Dead("expired")
    BY <1>3, <2>2, CommittedRow
  <2>4. Ledger!SetAside(AsideBy(t))[o][s] = Dead("expired")
    BY <2>1, SetAsideRow
  <2> QED  BY <2>3, <2>4
<1> QED  BY <1>2, <1>3

(* The commit of a replaced claim is a claim the ledger admits at that instant. *)
LEMMA CommitIsClaim ==
  ASSUME IInv, WholeInv, CapacityInv, NEW t \in Calls, Commit(t), pc[t] = "commitClaim"
  PROVE  Ledger!Claim(order[t], request[t], AsideBy(t), now[t])
<1> DEFINE E == AsideBy(t)
           o == order[t]
           r == request[t]
<1>0. TypeOK /\ CallInv(t) /\ Writes(t) /\ FitsWeighed(t) /\ ClaimWritten(t)
  BY DEF IInv, CapacityInv, WholeInv
<1>1. o \in Orders /\ r \in Requests /\ op[t] = "reserve" /\ r.skus \subseteq Skus
  BY <1>0, RequestsAssumption DEF CallInv, PathOf
<1>2. ASSUME NEW s \in r.skus
      PROVE  r.qty[s] + Ledger!ClaimedByOthers(o, r.wh, s, E) <= r.avail[s]
  <2> DEFINE A == {p \in Orders \ {o} : Active(rows[p][s]) /\ rows[p][s].wh = r.wh /\ <<p, s>> \notin E}
  <2>1. s \in Skus
    BY <1>1
  <2>2. A \in SUBSET Orders /\ IsFiniteSet(A)
    <3>1. A \subseteq Claimants(s)
      BY DEF Claimants
    <3> QED  BY <2>1, <3>1, FS_Subset DEF CapacityInv
  <2>3. ASSUME NEW p \in A PROVE <<p, rows[p][s].qty>> \in weighed[t][s]
    <3>0. p \in Orders /\ p # order[t] /\ Active(rows[p][s]) /\ rows[p][s].wh = r.wh
      OBVIOUS
    <3>1. pend[t][p][s] = NoWrite
      BY <1>0, <2>1, <3>0 DEF AsideBy, CallInv, WritesOf
    <3>2. View(t, p, s) = rows[p][s]
      BY <3>1 DEF View
    <3>3. WeighedAll(t)
      BY <1>0 DEF CallInv
    <3> QED  BY <3>0, <3>2, <3>3 DEF WeighedAll
  <2>4. /\ IsFiniteSet(weighed[t][s]) /\ weighed[t][s] \subseteq Orders \X Nat
        /\ r.qty[s] + Quantity(weighed[t][s]) <= r.avail[s]
    BY <1>0, <2>1 DEF FitsWeighed, TypeOK
  <2>5. Ledger!ClaimedByOthers(o, r.wh, s, E) = Claimed(A, s)
    BY LedgerSum
  <2> HIDE DEF A
  <2>6. Claimed(A, s) \in Nat /\ Claimed(A, s) <= Quantity(weighed[t][s])
    BY <1>0, <2>1, <2>2, <2>3, <2>4, ClaimedBelow
  <2>7. Quantity(weighed[t][s]) \in Nat
    BY <2>4, QuantityIsNat
  <2>8. r.qty[s] \in Nat /\ r.avail[s] \in Nat
    BY <1>1, <2>1, RequestsAssumption
  <2> HIDE DEF r, o, E
  <2> QED  BY <2>4, <2>5, <2>6, <2>7, <2>8 DEF r
<1> DEFINE claim == [s \in Skus |->
             IF s \in r.skus
             THEN [status |-> "active", wh |-> r.wh, qty |-> r.qty[s],
                   avail |-> r.avail[s], expires |-> now[t] + TTL]
             ELSE IF Ledger!Active(Ledger!SetAside(E)[o][s])
                  THEN Ledger!Dead("released")
                  ELSE Ledger!SetAside(E)[o][s]]
<1>3. ASSUME NEW s \in Skus PROVE rows'[o][s] = claim[s]
  <2>1. CASE s \in r.skus
    <3>1. pend[t][o][s] # NoWrite /\ Active(pend[t][o][s])
      BY <1>0, <1>1, <2>1 DEF ClaimWritten
    <3>2. rows'[o][s] = pend[t][o][s]
      BY <1>1, <3>1, CommittedRow
    <3>3. rows'[o][s] = ClaimedRow(t, s)
      BY <1>0, <3>1, <3>2, CommittedOwn
    <3> QED  BY <2>1, <3>3 DEF ClaimedRow
  <2>2. CASE s \notin r.skus
    <3> DEFINE before == Ledger!SetAside(E)[o][s]
    <3>0. before = IF <<o, s>> \in E THEN Dead("expired") ELSE rows[o][s]
      BY <1>1, SetAsideRow
    <3>1. claim[s] = IF Active(before) THEN Dead("released") ELSE before
      BY <2>2 DEF Ledger!Active, Active, Ledger!Dead, Dead, Ledger!NoRow, NoRow
    <3>2. ~Active(Dead("expired"))
      BY DEF Active, Dead, NoRow
    <3>3. CASE <<o, s>> \in E
      <4>1. rows'[o][s] = Dead("expired")
        <5>1. pend[t][o][s] = Dead("expired") /\ pend[t][o][s] # NoWrite
          BY <1>0, <1>1, <3>3, AsideHasLapsed
        <5> QED  BY <1>1, <5>1, CommittedRow
      <4> HIDE DEF claim, before, E, o
      <4> QED  BY <3>0, <3>1, <3>2, <3>3, <4>1
    <3>4. CASE <<o, s>> \notin E /\ pend[t][o][s] = NoWrite
      <4>1. rows'[o][s] = rows[o][s] /\ View(t, o, s) = rows[o][s]
        BY <1>1, <3>4, CommittedRow DEF View
      <4>2. ~Active(View(t, o, s))
        BY <1>0, <2>2 DEF ClaimWritten
      <4> HIDE DEF claim, before, E, o
      <4> QED  BY <3>0, <3>1, <3>4, <4>1, <4>2
    <3>5. CASE <<o, s>> \notin E /\ pend[t][o][s] # NoWrite
      <4>1. WrittenAs(t, "commitClaim", o, s, pend[t][o][s])
        BY <1>0, <1>1, <3>5 DEF Writes
      <4>2. pend[t][o][s] # Dead("expired")
        BY <1>1, <3>5 DEF AsideBy, Dead, NoRow
      <4>3. pend[t][o][s] = Dead("released") /\ Active(rows[o][s])
        BY <2>2, <4>1, <4>2 DEF WrittenAs
      <4>4. rows'[o][s] = pend[t][o][s]
        BY <1>1, <3>5, CommittedRow
      <4> HIDE DEF claim, before, E, o
      <4> QED  BY <3>0, <3>1, <3>5, <4>3, <4>4
    <3> QED  BY <3>3, <3>4, <3>5
  <2> QED  BY <2>1, <2>2
<1>4. rows' = [Ledger!SetAside(E) EXCEPT ![o] = claim]
  <2> DEFINE after == [Ledger!SetAside(E) EXCEPT ![o] = claim]
  <2>1. rows' = [p \in Orders |-> [s \in Skus |-> rows'[p][s]]]
    BY DEF Commit, Publish
  <2>2. \A p \in Orders \ {o}, s \in Skus : rows'[p][s] = Ledger!SetAside(E)[p][s]
    BY <1>0, CommitSetsAside
  <2>3. /\ after = [p \in Orders |-> after[p]]
        /\ \A p \in Orders \ {o} : after[p] = [s \in Skus |-> Ledger!SetAside(E)[p][s]]
        /\ after[o] = [s \in Skus |-> claim[s]]
    BY <1>1 DEF Ledger!SetAside
  <2> HIDE DEF claim, after, E, o
  <2> QED  BY <1>3, <2>1, <2>2, <2>3 DEF after
<1>5. clock' = clock
  BY DEF Commit
<1> QED  BY <1>2, <1>4, <1>5 DEF Ledger!Claim

(* The commit of a repeated request is an extension. *)
LEMMA CommitIsExtend ==
  ASSUME IInv, WholeInv, CapacityInv, NEW t \in Calls, Commit(t), pc[t] = "commit", op[t] = "reserve"
  PROVE  Ledger!Extend(order[t], AsideBy(t), now[t])
<1> DEFINE E == AsideBy(t)
           o == order[t]
           extended == [s \in Skus |->
             IF Ledger!Active(Ledger!SetAside(E)[o][s])
             THEN [Ledger!SetAside(E)[o][s] EXCEPT !.expires = now[t] + TTL]
             ELSE Ledger!SetAside(E)[o][s]]
<1>0. TypeOK /\ CallInv(t) /\ Writes(t) /\ ClaimWritten(t)
  BY DEF IInv, CapacityInv, WholeInv
<1>1. o \in Orders /\ request[t] \in Requests /\ request[t].skus \subseteq Skus /\ request[t].skus # {}
  BY <1>0, RequestsAssumption DEF CallInv, PathOf
<1>2. ASSUME NEW s \in Skus, pend[t][o][s] # NoWrite, <<o, s>> \notin E
      PROVE  Active(rows[o][s]) /\ rows'[o][s] = [rows[o][s] EXCEPT !.expires = now[t] + TTL]
  <2>1. WrittenAs(t, "commit", o, s, pend[t][o][s])
    BY <1>0, <1>1, <1>2 DEF Writes
  <2>2. pend[t][o][s] # Dead("expired")
    BY <1>1, <1>2 DEF AsideBy, Dead, NoRow
  <2>3. Active(rows[o][s]) /\ pend[t][o][s] = [rows[o][s] EXCEPT !.expires = now[t] + TTL]
    BY <2>1, <2>2 DEF WrittenAs
  <2>4. rows'[o][s] = pend[t][o][s]
    BY <1>1, <1>2, CommittedRow
  <2> QED  BY <2>3, <2>4
<1>3. \E s \in Skus : Ledger!Active(Ledger!SetAside(E)[o][s])
  <2>1. PICK s \in request[t].skus : TRUE
    BY <1>1
  <2>2. s \in Skus /\ pend[t][o][s] # NoWrite /\ Active(pend[t][o][s])
    BY <1>0, <1>1 DEF ClaimWritten
  <2>3. <<o, s>> \notin E
    BY <2>2 DEF AsideBy, Active
  <2>4. Ledger!SetAside(E)[o][s] = rows[o][s]
    BY <1>1, <2>2, <2>3, SetAsideRow
  <2>5. Active(rows[o][s])
    BY <1>2, <2>2, <2>3
  <2> QED  BY <2>2, <2>4, <2>5 DEF Ledger!Active, Active
<1>4. ASSUME NEW s \in Skus PROVE rows'[o][s] = extended[s]
  <2> DEFINE before == Ledger!SetAside(E)[o][s]
  <2>1. before = IF <<o, s>> \in E THEN Dead("expired") ELSE rows[o][s]
    BY <1>1, SetAsideRow
  <2>2. extended[s] = IF Active(before) THEN [before EXCEPT !.expires = now[t] + TTL] ELSE before
    BY DEF Ledger!Active, Active
  <2>3. CASE <<o, s>> \in E
    <3>1. pend[t][o][s] = Dead("expired") /\ pend[t][o][s] # NoWrite
      BY <1>0, <1>1, <2>3, AsideHasLapsed
    <3>2. rows'[o][s] = Dead("expired")
      BY <1>1, <3>1, CommittedRow
    <3>3. ~Active(Dead("expired"))
      BY DEF Active, Dead, NoRow
    <3> HIDE DEF extended, before, E, o
    <3> QED  BY <2>1, <2>2, <2>3, <3>2, <3>3
  <2>4. CASE <<o, s>> \notin E /\ pend[t][o][s] = NoWrite
    <3>1. rows'[o][s] = rows[o][s] /\ View(t, o, s) = rows[o][s]
      BY <1>1, <2>4, CommittedRow DEF View
    <3>2. ~Active(View(t, o, s))
      BY <1>0, <2>4 DEF ClaimWritten
    <3> HIDE DEF extended, before, E, o
    <3> QED  BY <2>1, <2>2, <2>4, <3>1, <3>2
  <2>5. CASE <<o, s>> \notin E /\ pend[t][o][s] # NoWrite
    <3>1. Active(rows[o][s]) /\ rows'[o][s] = [rows[o][s] EXCEPT !.expires = now[t] + TTL]
      BY <1>2, <2>5
    <3>2. before = rows[o][s]
      BY <2>1, <2>5
    <3> HIDE DEF extended, before, E, o
    <3> QED  BY <2>2, <3>1, <3>2
  <2> QED  BY <2>3, <2>4, <2>5
<1>5. rows' = [Ledger!SetAside(E) EXCEPT ![o] = extended]
  <2> DEFINE after == [Ledger!SetAside(E) EXCEPT ![o] = extended]
  <2>1. rows' = [p \in Orders |-> [s \in Skus |-> rows'[p][s]]]
    BY DEF Commit, Publish
  <2>2. \A p \in Orders \ {o}, s \in Skus : rows'[p][s] = Ledger!SetAside(E)[p][s]
    BY <1>0, CommitSetsAside
  <2>3. /\ after = [p \in Orders |-> after[p]]
        /\ \A p \in Orders \ {o} : after[p] = [s \in Skus |-> Ledger!SetAside(E)[p][s]]
        /\ after[o] = [s \in Skus |-> extended[s]]
    BY <1>1 DEF Ledger!SetAside
  <2> HIDE DEF extended, after, E, o
  <2> QED  BY <1>4, <2>1, <2>2, <2>3 DEF after
<1>6. clock' = clock
  BY DEF Commit
<1> QED  BY <1>3, <1>5, <1>6 DEF Ledger!Extend

(* The commit of a release is a release, of rows that have lapsed as of others. *)
LEMMA CommitIsRelease ==
  ASSUME IInv, WholeInv, CapacityInv, NEW t \in Calls, Commit(t), op[t] # "reserve"
  PROVE  Ledger!Release(order[t])
<1> DEFINE o == order[t]
           released == [s \in Skus |-> IF Ledger!Active(rows[o][s]) THEN Ledger!Dead("released") ELSE rows[o][s]]
<1>0. TypeOK /\ CallInv(t) /\ Writes(t) /\ ClaimWritten(t) /\ pc[t] = "commit" /\ o \in Orders
  BY DEF IInv, CapacityInv, WholeInv, Commit, CallInv, PathOf
<1>1. ASSUME NEW p \in Orders, NEW s \in Skus, pend[t][p][s] # NoWrite
      PROVE  p = o /\ pend[t][p][s] = Dead("released") /\ Active(rows[p][s])
  <2>1. WrittenAs(t, "commit", p, s, pend[t][p][s])
    BY <1>0, <1>1 DEF Writes
  <2> QED  BY <2>1 DEF WrittenAs
<1>2. ASSUME NEW p \in Orders \ {o}, NEW s \in Skus PROVE rows'[p][s] = rows[p][s]
  <2>1. pend[t][p][s] = NoWrite
    BY <1>1
  <2> QED  BY <2>1, CommittedRow
<1>3. ASSUME NEW s \in Skus PROVE rows'[o][s] = IF Active(rows[o][s]) THEN Dead("released") ELSE rows[o][s]
  <2>1. CASE pend[t][o][s] = NoWrite
    <3>1. rows'[o][s] = rows[o][s] /\ View(t, o, s) = rows[o][s]
      BY <1>0, <2>1, CommittedRow DEF View
    <3>2. ~Active(View(t, o, s))
      BY <1>0 DEF ClaimWritten
    <3> QED  BY <3>1, <3>2
  <2>2. CASE pend[t][o][s] # NoWrite
    <3>1. pend[t][o][s] = Dead("released") /\ Active(rows[o][s])
      BY <1>0, <1>1, <2>2
    <3>2. rows'[o][s] = pend[t][o][s]
      BY <1>0, <2>2, CommittedRow
    <3> QED  BY <3>1, <3>2
  <2> QED  BY <2>1, <2>2
<1>4. \A s \in Skus : rows'[o][s] = released[s]
  BY <1>3 DEF Ledger!Active, Active, Ledger!Dead, Dead, Ledger!NoRow, NoRow
<1>5. rows' = [rows EXCEPT ![o] = released]
  <2> DEFINE after == [rows EXCEPT ![o] = released]
  <2>1. rows' = [p \in Orders |-> [s \in Skus |-> rows'[p][s]]]
    BY DEF Commit, Publish
  <2>2. /\ after = [p \in Orders |-> after[p]]
        /\ \A p \in Orders \ {o} : after[p] = [s \in Skus |-> rows[p][s]]
        /\ after[o] = [s \in Skus |-> released[s]]
    BY <1>0 DEF TypeOK
  <2> HIDE DEF released, after, o
  <2> QED  BY <1>2, <1>4, <2>1, <2>2 DEF after
<1>6. clock' = clock
  BY DEF Commit
<1> QED  BY <1>5, <1>6 DEF Ledger!Release

LEMMA StepLedger ==
  IInv /\ WholeInv /\ CapacityInv /\ [Next]_vars => [Ledger!Next]_(Ledger!ledgerVars)
<1> SUFFICES ASSUME IInv, WholeInv, CapacityInv, [Next]_vars PROVE Ledger!Next \/ UNCHANGED <<rows, clock>>
  BY DEF Ledger!ledgerVars
<1>1. CASE \E t \in Calls : Commit(t)
  <2>1. PICK t \in Calls : Commit(t)
    BY <1>1
  <2>2. order[t] \in Orders /\ now[t] \in 0 .. clock /\ Writes(t) /\ pc[t] \in {"commit", "commitClaim"}
        /\ (pc[t] = "commitClaim" => op[t] = "reserve") /\ (op[t] = "reserve" => request[t] \in Requests)
    <3>1. PathOf(t) /\ Writes(t) /\ now[t] \in Nat /\ clock \in Nat /\ pc[t] \in {"commit", "commitClaim"}
      BY <2>1 DEF IInv, CallInv, TypeOK, Commit, CapacityInv
    <3> QED  BY <3>1 DEF PathOf
  <2>3. AsideBy(t) \in SUBSET Ledger!LapsedClaims
    BY <2>2, AsideHasLapsed
  <2>4. CASE pc[t] = "commitClaim"
    <3>1. Ledger!Claim(order[t], request[t], AsideBy(t), now[t])
      BY <2>1, <2>4, CommitIsClaim
    <3> QED  BY <2>2, <2>3, <2>4, <3>1 DEF Ledger!Next
  <2>5. CASE pc[t] = "commit" /\ op[t] = "reserve"
    <3>1. Ledger!Extend(order[t], AsideBy(t), now[t])
      BY <2>1, <2>5, CommitIsExtend
    <3> QED  BY <2>2, <2>3, <3>1 DEF Ledger!Next
  <2>6. CASE op[t] # "reserve"
    <3>1. Ledger!Release(order[t])
      BY <2>1, <2>6, CommitIsRelease
    <3> QED  BY <2>2, <3>1 DEF Ledger!Next
  <2> QED  BY <2>2, <2>4, <2>5, <2>6
<1>2. CASE Tick
  BY <1>2 DEF Tick, Ledger!Next, Ledger!Tick
<1>3. CASE ~Tick /\ ~\E t \in Calls : Commit(t)
  <2>1. rows' = rows /\ clock' = clock
    BY <1>3, ZenonT(60) DEF Next, vars, Reserve, ReleaseCall, StartReserve, ShareBinding, RefusePaused, ExpireOrder,
       LockResource, ExpireResource, Extend, Weigh, RefuseCapacity, Replace, StartRelease,
       ReleaseRows, LockOrder, Abort, Pause, Activate
  <2> QED  BY <2>1
<1> QED  BY <1>1, <1>2, <1>3

(* The transactions implement the ledger: every commit is one claim, extension or release that *)
(* the ledger allows on the committed table at that instant, and nothing else shows.           *)
THEOREM ReservationsImplementLedger == Spec => ImplementsLedger
<1>1. Init => Ledger!Init
  BY DEF Init, Ledger!Init, NoRow, Ledger!NoRow
<1> QED
  BY <1>1, InitWhole, NextWhole, InitCapacity, NextCapacity, StepLedger, Invariance, PTL
     DEF Spec, ImplementsLedger, Ledger!Spec
================================================================================
