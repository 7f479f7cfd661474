-------------------------------- MODULE ApiScopes --------------------------------
(***************************************************************************)
(* The SKU scopes of the OpenAPI credentials.  A refresh replaces what a   *)
(* credential sees in one transaction and then, in a statement of its own, *)
(* registers the warehouses it has not met before; a refresh that fails    *)
(* says so without looking at what others have written meanwhile.  The     *)
(* background goroutine refreshes every scope in turn, requests refresh,   *)
(* create and delete beside it.                                            *)
(***************************************************************************)
EXTENDS Naturals

CONSTANTS
  ApiKeys,        \* credential_key
  WhCodes,        \* wh_code
  Requests,       \* bound of the model: requests under way at once
  Refresher,      \* backgroundAPIScopeSync
  NoKey,
  MaxRequests,    \* bound of the model
  MaxTroubles     \* bound of the model: failures and restarts

Callers == Requests \cup {Refresher}

ASSUME ScopeAssumption ==
  /\ NoKey \notin ApiKeys /\ Refresher \notin Requests
  /\ MaxRequests \in Nat /\ MaxTroubles \in Nat

VARIABLES
  scopeStatus,  \* [ApiKeys -> "none" or inventory_sync_status]
  active,       \* the credentials with is_active
  scope,        \* [ApiKeys -> warehouses in xlwms_api_credential_inventory]
  owner,        \* [WhCodes -> key of the credentials in its row; NoKey: no row]
  held,         \* Service.running: the keys "api-scope:..."
  call,         \* [Callers -> where the call is, for which credential]
  due,          \* what the pass of the refresher has still to do
  requested, troubles

scopeTables == <<scopeStatus, active, scope, owner>>
scopeVars == <<scopeTables, held, call, due, requested, troubles>>

Idle == [at |-> "idle", key |-> NoKey, locked |-> FALSE]
Exists(k) == scopeStatus[k] # "none"

\* What APIScopeCredentials, SaveAPIScopeInventory and the registration ask for.
IsActive(k) == Exists(k) /\ k \in active
Owners == {owner[w] : w \in WhCodes} \ {NoKey}

\* EnsureWarehouseAPICredentialGroups: each warehouse's own credentials are a
\* group.  One that is new names its warehouses, and no SKUs yet; it is active
\* when one of its warehouses is enabled, and those come and go.
NewGroups(status) == {k \in Owners : status[k] = "none"}

Ensured(status) ==
  [k \in ApiKeys |-> IF k \in NewGroups(status) THEN "pending" ELSE status[k]]

ScopeInit ==
  /\ owner \in [WhCodes -> ApiKeys \cup {NoKey}]
  /\ scopeStatus = Ensured([k \in ApiKeys |-> "none"])
  /\ active \in SUBSET NewGroups([k \in ApiKeys |-> "none"])
  /\ scope = [k \in ApiKeys |-> {}]
  /\ held = {} /\ due = {}
  /\ call = [c \in Callers |-> Idle]
  /\ requested = 0 /\ troubles = 0

Trouble == troubles < MaxTroubles /\ troubles' = troubles + 1
Request == requested < MaxRequests /\ requested' = requested + 1

Goes(c, at) == call' = [call EXCEPT ![c].at = at]

-----------------------------------------------------------------------------
(* SyncAPICredentialInventory *)

\* reserve; then the credentials are read.
Refreshes(c, k) ==
  /\ k \notin held
  /\ held' = held \cup {k}
  /\ call' = [call EXCEPT ![c] = [at |-> IF IsActive(k) THEN "fetch" ELSE "fail",
                                  key |-> k, locked |-> TRUE]]

AskForRefresh(c, k) ==
  /\ c \in Requests /\ call[c] = Idle /\ Request
  /\ Refreshes(c, k)
  /\ UNCHANGED <<scopeTables, due, troubles>>

\* Mutant: only scopes that are ready are refreshed, as only they are synchronised.
PassListsReady ==
  /\ call[Refresher] = Idle /\ due = {}
  /\ due' = {k \in ApiKeys : IsActive(k) /\ scopeStatus[k] = "ready"}
  /\ UNCHANGED <<scopeTables, held, call, requested, troubles>>

PassLists ==
  /\ call[Refresher] = Idle /\ due = {}
  /\ due' = {k \in ApiKeys : IsActive(k)}
  /\ UNCHANGED <<scopeTables, held, call, requested, troubles>>

\* ErrAlreadyRunning is logged like any other failure.
PassGoesOn(k) ==
  /\ call[Refresher] = Idle /\ k \in due
  /\ due' = due \ {k}
  /\ IF k \in held THEN UNCHANGED <<held, call>> ELSE Refreshes(Refresher, k)
  /\ UNCHANGED <<scopeTables, requested, troubles>>

\* DiscoverInventory fails, or the transaction, or the deadline passes.
DiscoveryFails(c) ==
  /\ call[c].at = "fetch" /\ Trouble
  /\ Goes(c, "fail")
  /\ UNCHANGED <<scopeTables, held, due, requested>>

\* SaveAPIScopeInventory up to its commit.  The first statement locks the row of
\* the credential; one that is gone or not active is an error.
SaveScope(c) ==
  LET k == call[c].key
  IN  /\ call[c].at = "fetch"
      /\ IF IsActive(k)
           THEN /\ scopeStatus' = [scopeStatus EXCEPT ![k] = "ready"]
                /\ \E found \in SUBSET WhCodes : scope' = [scope EXCEPT ![k] = found]
                /\ Goes(c, "register")
           ELSE Goes(c, "fail") /\ UNCHANGED <<scopeStatus, scope>>
      /\ UNCHANGED <<active, owner, held, due, requested, troubles>>

After(c) == IF call[c].locked THEN "release" ELSE "done"

\* registerDiscoveredWarehouses reads the scope as it is by now and never takes
\* a warehouse from the credentials it has.
RegisterWarehouses(c) ==
  LET k == call[c].key
  IN  /\ call[c].at = "register"
      /\ owner' = [w \in WhCodes |->
           IF owner[w] = NoKey /\ w \in scope[k] /\ IsActive(k) THEN k ELSE owner[w]]
      /\ Goes(c, After(c))
      /\ UNCHANGED <<scopeStatus, active, scope, held, due, requested, troubles>>

\* A refresh reports the scope it has saved as failed; a creation only answers so.
RegistrationFails(c) ==
  /\ call[c].at = "register" /\ Trouble
  /\ Goes(c, IF call[c].locked THEN "fail" ELSE "done")
  /\ UNCHANGED <<scopeTables, held, due, requested>>

\* FailAPIScopeInventory asks for nothing but the key, of an inactive credential
\* as well.
SaveFailure(c) ==
  LET k == call[c].key
  IN  /\ call[c].at = "fail"
      /\ scopeStatus' = IF Exists(k) THEN [scopeStatus EXCEPT ![k] = "failed"] ELSE scopeStatus
      /\ Goes(c, "release")
      /\ UNCHANGED <<active, scope, owner, held, due, requested, troubles>>

FailureIsLost(c) ==
  /\ call[c].at = "fail" /\ Trouble
  /\ Goes(c, "release")
  /\ UNCHANGED <<scopeTables, held, due, requested>>

\* The deferred release; a call that holds nothing just answers.
CallEnds(c) ==
  /\ call[c].at \in {"release", "done"}
  /\ held' = IF call[c].locked THEN held \ {call[c].key} ELSE held
  /\ call' = [call EXCEPT ![c] = Idle]
  /\ UNCHANGED <<scopeTables, due, requested, troubles>>

-----------------------------------------------------------------------------
\* UpsertWarehouseAPICredentialGroup, with what was discovered before: it takes
\* no key of the syncer, and it alone makes a credential active that was not.
CreateScope(c, k) ==
  /\ c \in Requests /\ call[c] = Idle /\ Request
  /\ scopeStatus' = [scopeStatus EXCEPT ![k] = "ready"]
  /\ active' = active \cup {k}
  /\ \E found \in SUBSET WhCodes : scope' = [scope EXCEPT ![k] = found]
  /\ call' = [call EXCEPT ![c] = [at |-> "register", key |-> k, locked |-> FALSE]]
  /\ UNCHANGED <<owner, held, due, troubles>>

\* DeleteWarehouseAPICredentialGroup looks for warehouses that use the
\* credential ...
DeleteChecks(c, k) ==
  /\ c \in Requests /\ call[c] = Idle /\ Request
  /\ k \notin Owners
  /\ call' = [call EXCEPT ![c] = [at |-> "delete", key |-> k, locked |-> FALSE]]
  /\ UNCHANGED <<scopeTables, held, due, troubles>>

\* ... and deletes it, with its scope, in another statement.
DeleteScope(c) ==
  LET k == call[c].key
  IN  /\ call[c].at = "delete"
      /\ scopeStatus' = [scopeStatus EXCEPT ![k] = "none"]
      /\ active' = active \ {k}
      /\ scope' = [scope EXCEPT ![k] = {}]
      /\ Goes(c, "done")
      /\ UNCHANGED <<owner, held, due, requested, troubles>>

\* UpsertWarehouse: a warehouse is saved with credentials typed in.
SaveWarehouse(w, k) ==
  /\ Request
  /\ owner' = [owner EXCEPT ![w] = k]
  /\ UNCHANGED <<scopeStatus, active, scope, held, call, due, troubles>>

RestartScopes ==
  /\ Trouble
  /\ scopeStatus' = Ensured(scopeStatus)
  /\ \E new \in SUBSET NewGroups(scopeStatus) : active' = active \cup new
  /\ held' = {} /\ due' = {}
  /\ call' = [c \in Callers |-> Idle]
  /\ UNCHANGED <<scope, owner, requested>>

CallGoesOn(c) == SaveScope(c) \/ RegisterWarehouses(c) \/ SaveFailure(c) \/ DeleteScope(c) \/ CallEnds(c)

ScopeFails(c) == DiscoveryFails(c) \/ RegistrationFails(c) \/ FailureIsLost(c)

Pass == PassLists \/ \E k \in ApiKeys : PassGoesOn(k)

ScopeNext ==
  \/ \E c \in Callers : CallGoesOn(c) \/ ScopeFails(c)
  \/ Pass
  \/ \E c \in Requests, k \in ApiKeys : AskForRefresh(c, k) \/ CreateScope(c, k) \/ DeleteChecks(c, k)
  \/ \E w \in WhCodes, k \in ApiKeys : SaveWarehouse(w, k)
  \/ RestartScopes

\* Every call has a deadline; the ticker ticks.
ScopeFairness == WF_scopeVars(Pass) /\ \A c \in Callers : WF_scopeVars(CallGoesOn(c))

ScopeSpec == ScopeInit /\ [][ScopeNext]_scopeVars /\ ScopeFairness

-----------------------------------------------------------------------------
ScopeTypeOK ==
  /\ scopeStatus \in [ApiKeys -> {"none", "pending", "ready", "failed"}]
  /\ active \subseteq ApiKeys
  /\ scope \in [ApiKeys -> SUBSET WhCodes]
  /\ owner \in [WhCodes -> ApiKeys \cup {NoKey}]
  /\ held \subseteq ApiKeys /\ due \subseteq ApiKeys
  /\ call \in [Callers -> [at : {"idle", "fetch", "register", "fail", "release", "delete", "done"},
                           key : ApiKeys \cup {NoKey}, locked : BOOLEAN]]
  /\ requested \in 0 .. MaxRequests /\ troubles \in 0 .. MaxTroubles

Settled(k) ==
  \/ ~IsActive(k)
  \/ scopeStatus[k] = "ready" /\ \A w \in scope[k] : owner[w] # NoKey

\* Whatever failed, was overtaken by a late failure or was cut off between the
\* commit of a scope and the registration of its warehouses: each active credential
\* comes back to a scope that is ready, all of whose warehouses are known
\* (api_inventory.go:27-51, api_inventory_sync.go:34-97,
\* api_inventory_scheduler.go:12-44).
ScopesSettle == \A k \in ApiKeys : []<>Settled(k)
================================================================================
