------------------------------- MODULE MC_Services -------------------------------
(* Small instances of the services that run in the background.  A behaviour  *)
(* is about one of them, chosen at its start: what the refresh of the scopes *)
(* does to the syncer is in SyncRuns, where routes come and go as they like, *)
(* and what warehouses are switched to is arbitrary in ApiScopes.            *)
EXTENDS SyncRuns, ApiScopes, TLC

CONSTANTS w1, l1, o1, c1, c2, k1, k2, r1,
  Disturbances  \* bound of the model: requests, failures and switches together

MCRoutes == <<[wh |-> w1, cred |-> c1], [wh |-> w1, cred |-> c2]>>
MCOrderOf == l1 :> o1

\* Both routes are of one warehouse: the first on its own is left to the second.
MCListings == {{}, {2}, {1, 2}}

VARIABLE service

MCInit ==
  /\ SyncInit /\ ScopeInit
  /\ service \in {"costs", "stock", "scopes"}
  /\ service # "scopes" => owner = [w \in WhCodes |-> NoKey]
  /\ listed = IF service = "scopes" THEN {} ELSE DOMAIN Routes

MCNext ==
  /\ UNCHANGED service
  /\ \/ /\ service \in {"costs", "stock"}
        /\ \/ service = "costs" /\ CostsNext
           \/ service = "stock" /\ StockNext
           \/ Switch
           \/ RestartSyncer
        /\ listed' \in MCListings
        /\ asked' + mishaps' + switched' <= Disturbances
        /\ UNCHANGED scopeVars
     \/ /\ service = "scopes" /\ ScopeNext
        /\ UNCHANGED syncVars

\* SyncFairness and ScopeFairness, each for the behaviours of its service.
Costs == service = "costs"
Scopes == service = "scopes"

MCFairness ==
  /\ \A r \in FundsRuns : WF_syncVars(Costs /\ Proceeds(r))
  /\ WF_syncVars(Costs /\ DetailsProceed(w1))
  /\ SF_syncVars(Costs /\ MarksEnd(w1))
  /\ WF_syncVars(Costs /\ CostScheduler)
  /\ WF_scopeVars(Scopes /\ Pass)
  /\ \A c \in Callers : WF_scopeVars(Scopes /\ CallGoesOn(c))

MCSpec == MCInit /\ [][MCNext]_<<syncVars, scopeVars, service>> /\ MCFairness

\* The state of every service has its type.
ServicesTypeOK == SyncTypeOK /\ ScopeTypeOK
================================================================================
