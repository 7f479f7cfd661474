------------------------------- MODULE MC_Console -------------------------------
(* Small instances of what the console changes: the bindings of the warehouses, and *)
(* the account of the OMS.  They share no state, so a behaviour is about one of     *)
(* them, chosen at its start; the other one rests.                                  *)
EXTENDS WarehouseManagement, OMSAccounts

CONSTANTS w1, w2, s1, a, b, r1, r2, u1, u2, p1, p2

VARIABLE page

(* Two warehouses, one shop: the legacy services report both, one with an id the operator may *)
(* have given to the other meanwhile.                                                          *)
LegacyRows == {[wh |-> w1, shop |-> s1, id |-> a, ships |-> TRUE],
               [wh |-> w2, shop |-> s1, id |-> b, ships |-> FALSE]}

OnBindings == page \in {"import", "locks"}

MCInit ==
  /\ Init /\ OMSInit
  /\ page \in {"import", "locks", "account"}
  /\ OnBindings => account.password = NoPassword

(* Bounds of the model: one reservation at a time beside the import, and two, whose locks may *)
(* overlap, as long as the import does not come to its first shop.                            *)
MCNext ==
  /\ UNCHANGED page
  /\ \/ page = "import" /\ Next /\ UNCHANGED <<reserving[r2], omsVars>>
     \/ page = "locks" /\ Next /\ UNCHANGED <<importing, omsVars>>
     \/ page = "account" /\ OMSNext /\ UNCHANGED vars

\* The fairness of WarehouseManagement.tla, for the behaviours about it.
MCSpec ==
  /\ MCInit /\ [][MCNext]_<<vars, omsVars, page>>
  /\ SF_vars(OnBindings /\ ConsoleStep) /\ WF_vars(OnBindings /\ FailImport)
  /\ \A r \in Callers : WF_vars(OnBindings /\ EndReservation(r))

\* The state of both pages has its type.
ConsoleTypeOK == TypeOK /\ OMSTypeOK
================================================================================
