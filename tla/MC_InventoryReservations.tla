------------------------ MODULE MC_InventoryReservations ------------------------
(* Small instances of InventoryReservations.tla. *)
EXTENDS InventoryReservations, TLC

CONSTANTS t1, t2, t3, o1, o2, o3, w1, w2, sA, sB

(* One SKU, the same quantities asked against different observations. *)
Want(w, S, q, a) ==
  [wh |-> w, skus |-> S, qty |-> [s \in Skus |-> IF s \in S THEN q ELSE 0],
   avail |-> [s \in Skus |-> IF s \in S THEN a ELSE 0]]

OneSkuRequests == {Want(w1, {sA}, 1, 2), Want(w1, {sA}, 2, 2)}

TwoSkuRequests == {Want(w1, {sA}, 1, 1), Want(w1, {sA, sB}, 1, 1), Want(w1, {sB}, 1, 2)}

TwoWarehouseRequests == {Want(w1, {sA}, 1, 1), Want(w2, {sA}, 1, 1)}

(* The lock keys sorted: by warehouse, then by SKU. *)
RankOf(w, s) == (IF w = w1 THEN 0 ELSE 2) + (IF s = sA THEN 0 ELSE 1)

KeyRank == [res \in Warehouses \X Skus |-> RankOf(res[1], res[2])]

CallSymmetry == Permutations(Calls)
OrderAndCallSymmetry == Permutations(Calls) \cup Permutations(Orders)
================================================================================
