-------------------------------- MODULE SyncRuns --------------------------------
(***************************************************************************)
(* The syncer: funds flows, cost details and stock are read from XLWMS by  *)
(* background runs, which requests and two schedulers start.  A set of     *)
(* keys in memory says which targets are being synchronised; a run writes  *)
(* its snapshot in one transaction under an advisory lock and its end into *)
(* its row of xlwms_sync_runs, which the cost scheduler waits for.         *)
(*                                                                         *)
(* What is read is arbitrary, and so are the moments at which the refresh  *)
(* of a scope (ApiScopes.tla) gives the syncer a route or takes one away.  *)
(* Runs are reused once they are over and not waited for; stock has runs   *)
(* of its own.                                                             *)
(***************************************************************************)
EXTENDS Naturals, Sequences

CONSTANTS
  Warehouses,
  Routes,        \* what ActiveWarehouseCredentials may list: <<[wh, cred], ...>>,
                 \* in the order of its list
  Lines,         \* records, by source_key or record_key
  OrderOf,       \* [Lines -> orders \cup {NoOrder}]: order_no and module_type
  NoOrder,       \* a line without an order number
  NoCred,        \* the api_credential_key of WarehouseCredentials: ''
  Ledger,        \* stands for the funds flows of a warehouse beside its stocks
  FundsRuns, DetailRuns, StockRuns,  \* bound of the model: runs under way at once
  MaxAsked,      \* bound of the model: requests
  MaxFailures,   \* bound of the model: calls and statements that fail, restarts
  MaxSwitches    \* bound of the model: warehouses enabled or disabled,
                 \* scopes that change

CostRuns == FundsRuns \cup DetailRuns
Runs == CostRuns \cup StockRuns
RunsFor(kind) == CASE kind = "funds_flow" -> FundsRuns
                   [] kind = "cost_details" -> DetailRuns
                   [] kind = "inventory" -> StockRuns
Orders == {OrderOf[l] : l \in Lines} \ {NoOrder}
Creds == {Routes[i].cred : i \in DOMAIN Routes} \cup {NoCred}
Areas == Warehouses \X (Creds \cup {Ledger})
Kinds == {"funds_flow", "cost_details", "inventory"}

ASSUME SyncNamesAssumption ==
  /\ Warehouses # {}
  /\ Routes \in Seq([wh : Warehouses, cred : Creds])
  /\ DOMAIN OrderOf = Lines
  /\ Ledger \notin Creds
  /\ Runs \subseteq Nat /\ FundsRuns \cap DetailRuns = {} /\ CostRuns \cap StockRuns = {}

ASSUME SyncBoundsAssumption ==
  MaxAsked \in Nat /\ MaxFailures \in Nat /\ MaxSwitches \in Nat

VARIABLES
  running,   \* Service.running: the keys reserved
  run,       \* [Runs -> what the goroutine of the run knows]
  rows,      \* [Areas -> [Lines -> "none" or detail_sync_status]]
  saved,     \* [Warehouses -> orders in xlwms_cost_details]
  enabled,   \* warehouses with is_active
  listed,    \* the routes whose credential is active, whose scope is ready and
             \* holds a SKU of the warehouse
  round,     \* triggerScheduledCostSync: what is left to start and to wait for,
             \* with the status in xlwms_sync_runs of what is waited for
  pass,      \* triggerScheduledInventorySync: what is left to start
  asked, mishaps, switched,
  latest     \* history: [Areas -> lines of the snapshot committed last]

tables == <<rows, saved, latest>>
switches == <<enabled, listed>>
schedulers == <<round, pass>>
bounds == <<asked, mishaps, switched>>
syncVars == <<running, run, tables, switches, schedulers, bounds>>

Stages == {"over", "fetch", "write", "targets", "details", "mark", "finish", "release"}

Task(kind, wh, cred, stage, limited) ==
  [kind |-> kind, wh |-> wh, cred |-> cred, stage |-> stage, limited |-> limited,
   lines |-> {}, gone |-> {}, todo |-> {}, order |-> NoOrder, got |-> FALSE,
   bad |-> FALSE]

\* A run nobody uses.
Unused == Task("inventory", CHOOSE wh \in Warehouses : TRUE, NoCred, "over", FALSE)

\* The part of a table a snapshot replaces: funds flows are kept per warehouse,
\* stock per warehouse and credential.
Area(r) == <<run[r].wh, IF run[r].kind = "funds_flow" THEN Ledger ELSE run[r].cred>>
Present(area) == {l \in Lines : rows[area][l] # "none"}
LinesOf(wh, o) == {l \in Present(<<wh, Ledger>>) : OrderOf[l] = o}

NoRound == [at |-> "idle", left |-> {}, funds |-> <<>>, details |-> <<>>]

SyncInit ==
  /\ running = {}
  /\ run = [r \in Runs |-> Unused]
  /\ rows = [a \in Areas |-> [l \in Lines |-> "none"]]
  /\ latest = [a \in Areas |-> {}]
  /\ saved = [wh \in Warehouses |-> {}]
  /\ enabled = Warehouses
  /\ listed \in SUBSET DOMAIN Routes
  /\ round = NoRound
  /\ pass = {}
  /\ asked = 0 /\ mishaps = 0 /\ switched = 0

Mishap == mishaps < MaxFailures /\ mishaps' = mishaps + 1

-----------------------------------------------------------------------------
(* Starting runs. *)

Key(kind, wh, cred) == <<kind, wh, IF kind = "inventory" THEN cred ELSE NoCred>>
KeyOf(r) == Key(run[r].kind, run[r].wh, run[r].cred)

Awaited == {round.funds[i].run : i \in DOMAIN round.funds}
             \cup {round.details[i].run : i \in DOMAIN round.details}
Free == {r \in Runs : run[r].stage = "over"} \ Awaited

FirstStage(kind) == IF kind = "cost_details" THEN "targets" ELSE "fetch"

First(i, left) == i \in left /\ \A j \in left : i <= j

\* reserve, StartSyncRun and the start of the goroutine, for one target.  The
\* credential is kept for stock only: for the other kinds it chooses the account
\* that is read, and what is read is arbitrary.
Starts(r, kind, wh, cred, limited) ==
  /\ First(r, RunsFor(kind) \cap Free)
  /\ Key(kind, wh, cred) \notin running
  /\ running' = running \cup {Key(kind, wh, cred)}
  /\ run' = [run EXCEPT ![r] = Task(kind, wh, cred, FirstStage(kind), limited)]

Ask == asked < MaxAsked /\ asked' = asked + 1

\* POST /v1/sync/...: one warehouse, with the credentials of its own row.  What
\* is refused or cannot be started leaves nothing behind.
AskFor(r, kind, wh, limited) ==
  /\ Ask
  /\ wh \in enabled
  /\ Starts(r, kind, wh, NoCred, limited)
  /\ UNCHANGED <<tables, switches, schedulers, mishaps, switched>>

\* ActiveWarehouseCredentials
Active == {i \in listed : Routes[i].wh \in enabled}

\* POST /v1/sync/funds-flow with all_active: every route at once, or none.  A
\* warehouse that is listed for two credentials gives the same key twice, and
\* reserve looks for each key before it enters the first.
AskForAll(slots) ==
  /\ Ask
  /\ Active # {}
  /\ slots \in [Active -> FundsRuns \cap Free]
  /\ \A i, j \in Active : slots[i] = slots[j] => i = j
  /\ LET keys == {Key("funds_flow", Routes[i].wh, NoCred) : i \in Active}
     IN  /\ keys \cap running = {}
         /\ running' = running \cup keys
  /\ run' = [r \in Runs |->
       IF \E i \in Active : slots[i] = r
         THEN LET i == CHOOSE i \in Active : slots[i] = r
              IN  Task("funds_flow", Routes[i].wh, NoCred, "fetch", FALSE)
         ELSE run[r]]
  /\ UNCHANGED <<tables, switches, schedulers, mishaps, switched>>

-----------------------------------------------------------------------------
(* A run of funds flows or stock. *)

At(r, stage) == run[r].stage = stage

RunUnchanged == UNCHANGED <<running, switches, schedulers, asked, switched>>

\* The lock is of the warehouse, for stock as well: two credentials share it.
Holds(q, wh, kind) == run[q].stage = "write" /\ run[q].wh = wh /\ run[q].kind = kind

\* Mutant: the snapshot is written without asking for the lock.
LockUnasked(r) == TRUE

LockIsFree(r) == \A q \in Runs : ~Holds(q, run[r].wh, run[r].kind)

\* A page, a conversion, BeginTx or the deadline fails before the lock is asked for.
FetchFails(r) ==
  /\ At(r, "fetch") /\ Mishap
  /\ run' = [run EXCEPT ![r].stage = "finish", ![r].bad = TRUE]
  /\ RunUnchanged /\ UNCHANGED tables

\* pg_try_advisory_xact_lock: "another ... sync is already running".
LockRefused(r) ==
  /\ At(r, "fetch") /\ ~LockIsFree(r)
  /\ run' = [run EXCEPT ![r].stage = "finish", ![r].bad = TRUE]
  /\ RunUnchanged /\ UNCHANGED <<tables, mishaps>>

\* The upserts and the DELETE of what carries another snapshot_token.  The rows
\* they touch are locked until the end.
WriteSnapshot(r) ==
  /\ At(r, "fetch") /\ LockIsFree(r)
  /\ \E lines \in SUBSET Lines :
       run' = [run EXCEPT ![r].stage = "write", ![r].lines = lines,
                          ![r].gone = Present(Area(r)) \ lines]
  /\ RunUnchanged /\ UNCHANGED <<tables, mishaps>>

\* A row that was there keeps its detail_sync_status.
CommitSnapshot(r) ==
  /\ At(r, "write")
  /\ rows' = [rows EXCEPT ![Area(r)] = [l \in Lines |->
       IF l \in run[r].lines THEN IF @[l] = "none" THEN "pending" ELSE @[l]
       ELSE IF l \in run[r].gone THEN "none" ELSE @[l]]]
  /\ latest' = [latest EXCEPT ![Area(r)] = run[r].lines]
  /\ run' = [run EXCEPT ![r].stage = "finish", ![r].lines = {}, ![r].gone = {}]
  /\ RunUnchanged /\ UNCHANGED <<saved, mishaps>>

WriteFails(r) ==
  /\ At(r, "write") /\ Mishap
  /\ run' = [run EXCEPT ![r].stage = "finish", ![r].lines = {}, ![r].gone = {}, ![r].bad = TRUE]
  /\ RunUnchanged /\ UNCHANGED tables

-----------------------------------------------------------------------------
(* A run of cost details.  Its workers fetch in any order; their results are *)
(* saved one by one. *)

Pending(wh) ==
  {o \in Orders : \E l \in LinesOf(wh, o) : rows[<<wh, Ledger>>][l] # "success"}

\* PendingDetailTargets: all of them, or as many as the limit of a request takes.
ReadTargets(r) ==
  /\ At(r, "targets")
  /\ LET pending == Pending(run[r].wh)
     IN  \E todo \in SUBSET pending :
           /\ todo = pending \/ (run[r].limited /\ todo # {})
           /\ run' = [run EXCEPT ![r].todo = todo, ![r].limited = FALSE,
                        ![r].stage = IF todo = {} THEN "finish" ELSE "details"]
  /\ RunUnchanged /\ UNCHANGED <<tables, mishaps>>

TargetsFail(r) ==
  /\ At(r, "targets") /\ Mishap
  /\ run' = [run EXCEPT ![r].stage = "finish", ![r].bad = TRUE]
  /\ RunUnchanged /\ UNCHANGED tables

\* The UPDATE of the funds flows with the result for an order: a detail, in the
\* transaction of SaveCostDetail, or the last attempt's error (a mishap), in
\* MarkCostDetailError.  It looks for the rows to change ...
MarkStarts(r, o, got) ==
  /\ At(r, "details") /\ o \in run[r].todo
  /\ IF got THEN UNCHANGED mishaps ELSE Mishap
  /\ run' = [run EXCEPT ![r].stage = "mark", ![r].order = o, ![r].got = got,
                        ![r].lines = LinesOf(run[r].wh, o)]
  /\ RunUnchanged /\ UNCHANGED tables

\* What the run goes on with once it is done with its order.
Marked(r, bad) ==
  LET todo == run[r].todo \ {run[r].order}
  IN  [run[r] EXCEPT !.todo = todo, !.lines = {}, !.order = NoOrder, !.got = FALSE, !.bad = bad,
                     !.stage = IF todo = {} THEN "finish" ELSE "details"]

\* ... and waits for those a snapshot has locked; a row that is gone by then
\* stays so.  A detail and its status are committed together.  An error is no
\* failure of the run.
MarkEnds(r) ==
  LET wh == run[r].wh
  IN  /\ At(r, "mark")
      /\ run[r].lines # {} => \A q \in Runs : ~Holds(q, wh, "funds_flow")
      /\ rows' = [rows EXCEPT ![<<wh, Ledger>>] = [l \in Lines |->
           IF l \in run[r].lines /\ @[l] # "none"
             THEN IF run[r].got THEN "success" ELSE "error"
             ELSE @[l]]]
      /\ saved' = [saved EXCEPT ![wh] = IF run[r].got THEN @ \cup {run[r].order} ELSE @]
      /\ run' = [run EXCEPT ![r] = Marked(r, run[r].bad)]
      /\ RunUnchanged /\ UNCHANGED <<latest, mishaps>>

\* What cannot be written is rolled back and fails the run.
MarkFails(r) ==
  /\ At(r, "mark") /\ Mishap
  /\ run' = [run EXCEPT ![r] = Marked(r, TRUE)]
  /\ RunUnchanged /\ UNCHANGED tables

\* The deadline: nothing more is saved, not even the errors.
OutOfTime(r) ==
  /\ At(r, "details") /\ Mishap
  /\ run' = [run EXCEPT ![r].stage = "finish", ![r].todo = {}, ![r].bad = TRUE]
  /\ RunUnchanged /\ UNCHANGED tables

-----------------------------------------------------------------------------
(* The end of a run. *)

\* FinishSyncRun.  Only those that wait for the run read its row.
Noted(waits, r, status) ==
  [i \in DOMAIN waits |-> IF waits[i].run = r THEN [waits[i] EXCEPT !.status = status] ELSE waits[i]]

\* Mutant: the status is spelt like that of a detail.
EndOfMisspelt(r) == IF run[r].bad THEN "failed" ELSE "success"

EndOf(r) == IF run[r].bad THEN "failed" ELSE "succeeded"

Finish(r) ==
  LET status == EndOf(r)
  IN  /\ At(r, "finish")
      /\ run' = [run EXCEPT ![r].stage = "release"]
      /\ round' = [round EXCEPT !.funds = Noted(@, r, status), !.details = Noted(@, r, status)]
      /\ UNCHANGED <<running, tables, switches, pass, bounds>>

\* FinishSyncRun fails: the error is logged and the row stays "running".
FinishIsLost(r) ==
  /\ At(r, "finish") /\ Mishap
  /\ run' = [run EXCEPT ![r].stage = "release"]
  /\ RunUnchanged /\ UNCHANGED tables

\* Mutant: a run that failed returns before it releases its key.
ReleaseOfSuccess(r) ==
  /\ At(r, "release")
  /\ running' = IF run[r].bad THEN running ELSE running \ {KeyOf(r)}
  /\ run' = [run EXCEPT ![r] = Unused]
  /\ UNCHANGED <<tables, switches, schedulers, bounds>>

Release(r) ==
  /\ At(r, "release")
  /\ running' = running \ {KeyOf(r)}
  /\ run' = [run EXCEPT ![r] = Unused]
  /\ UNCHANGED <<tables, switches, schedulers, bounds>>

Proceeds(r) ==
  \/ LockRefused(r) \/ WriteSnapshot(r) \/ CommitSnapshot(r)
  \/ ReadTargets(r) \/ (\E o \in Orders : MarkStarts(r, o, TRUE)) \/ MarkEnds(r)
  \/ Finish(r) \/ Release(r)

Fails(r) ==
  \/ FetchFails(r) \/ WriteFails(r) \/ TargetsFail(r) \/ MarkFails(r)
  \/ (\E o \in Orders : MarkStarts(r, o, FALSE)) \/ OutOfTime(r) \/ FinishIsLost(r)

-----------------------------------------------------------------------------
(* triggerScheduledCostSync: start the funds flows of every route, wait for    *)
(* them one by one, start the cost details behind each, wait for those.        *)

OthersUnchanged == UNCHANGED <<tables, switches, pass, asked, switched>>

Wait(i, r) == [route |-> i, run |-> r, status |-> "running"]

RoundBegins ==
  /\ round.at = "idle"
  /\ round' = [at |-> "start", left |-> Active, funds |-> <<>>, details |-> <<>>]
  /\ UNCHANGED <<running, run, mishaps>> /\ OthersUnchanged

\* ErrAlreadyRunning, or (a mishap) the run cannot be started.
RoundSkips(i) ==
  /\ round.at = "start" /\ First(i, round.left)
  /\ \/ Key("funds_flow", Routes[i].wh, NoCred) \in running /\ UNCHANGED mishaps
     \/ Mishap
  /\ round' = [round EXCEPT !.left = @ \ {i}]
  /\ UNCHANGED <<running, run>> /\ OthersUnchanged

RoundStarts(i, r) ==
  /\ round.at = "start" /\ First(i, round.left)
  /\ Starts(r, "funds_flow", Routes[i].wh, NoCred, FALSE)
  /\ round' = [round EXCEPT !.left = @ \ {i}, !.funds = Append(@, Wait(i, r))]
  /\ UNCHANGED mishaps /\ OthersUnchanged

RoundAwaits ==
  /\ round.at = "start" /\ round.left = {}
  /\ round' = [round EXCEPT !.at = "await"]
  /\ UNCHANGED <<running, run, mishaps>> /\ OthersUnchanged

Due == round.at = "await" /\ round.funds # <<>>

\* The run failed; or cost details of the warehouse are under way; or (a mishap)
\* the row cannot be read or the run cannot be started.
RoundPassesOver ==
  /\ Due
  /\ LET first == Head(round.funds)
     IN  \/ first.status = "failed" /\ UNCHANGED mishaps
         \/ /\ first.status = "succeeded"
            /\ Key("cost_details", Routes[first.route].wh, NoCred) \in running
            /\ UNCHANGED mishaps
         \/ Mishap
  /\ round' = [round EXCEPT !.funds = Tail(@)]
  /\ UNCHANGED <<running, run>> /\ OthersUnchanged

\* The warehouse is the one that was listed when the round began.
RoundGoesOn(r) ==
  /\ Due
  /\ LET first == Head(round.funds)
     IN  /\ first.status = "succeeded"
         /\ Starts(r, "cost_details", Routes[first.route].wh, NoCred, FALSE)
         /\ round' = [round EXCEPT !.funds = Tail(@),
                                   !.details = Append(@, Wait(first.route, r))]
  /\ UNCHANGED mishaps /\ OthersUnchanged

\* The last waits; their errors are only logged.
RoundEnds ==
  /\ round.at = "await" /\ round.funds = <<>>
  /\ \A i \in DOMAIN round.details : round.details[i].status # "running"
  /\ round' = NoRound
  /\ UNCHANGED <<running, run, mishaps>> /\ OthersUnchanged

\* The deadline of the round is twice that of a run: it passes only where the
\* end of a run was lost.  Whatever is still to be waited for is given up.
RoundDeadline ==
  /\ round.at = "await"
  /\ \E waits \in {round.funds, round.details} : \E i \in DOMAIN waits :
       waits[i].status = "running" /\ run[waits[i].run].stage = "over"
  /\ round' = NoRound
  /\ UNCHANGED <<running, run, mishaps>> /\ OthersUnchanged

CostScheduler ==
  \/ RoundBegins \/ RoundAwaits \/ RoundPassesOver \/ RoundEnds \/ RoundDeadline
  \/ \E i \in DOMAIN Routes : RoundSkips(i) \/ \E r \in CostRuns : RoundStarts(i, r)
  \/ \E r \in CostRuns : RoundGoesOn(r)

-----------------------------------------------------------------------------
(* triggerScheduledInventorySync waits for nothing. *)

PassBegins ==
  /\ pass = {}
  /\ pass' = Active
  /\ UNCHANGED <<running, run, tables, switches, round, bounds>>

PassSkips(i) ==
  /\ First(i, pass)
  /\ Key("inventory", Routes[i].wh, Routes[i].cred) \in running
  /\ pass' = pass \ {i}
  /\ UNCHANGED <<running, run, tables, switches, round, bounds>>

PassStarts(i, r) ==
  /\ First(i, pass)
  /\ Starts(r, "inventory", Routes[i].wh, Routes[i].cred, FALSE)
  /\ pass' = pass \ {i}
  /\ UNCHANGED <<tables, switches, round, bounds>>

InventoryScheduler ==
  \/ PassBegins
  \/ \E i \in DOMAIN Routes : PassSkips(i) \/ \E r \in StockRuns : PassStarts(i, r)

-----------------------------------------------------------------------------
\* SetWarehouseActive.
SwitchWarehouse(wh) ==
  /\ switched < MaxSwitches /\ switched' = switched + 1
  /\ enabled' = IF wh \in enabled THEN enabled \ {wh} ELSE enabled \cup {wh}
  /\ UNCHANGED <<running, run, tables, listed, schedulers, asked, mishaps>>

\* A refresh commits another scope or reports that it failed; credentials are
\* created or deleted.  The routes of a credential come or go together, or
\* those of a warehouse it no longer has SKUs of.
ScopesChange(now) ==
  /\ switched < MaxSwitches /\ switched' = switched + 1
  /\ now # listed
  /\ listed' = now
  /\ UNCHANGED <<running, run, tables, enabled, schedulers, asked, mishaps>>

Switch ==
  \/ \E wh \in Warehouses : SwitchWarehouse(wh)
  \/ \E now \in SUBSET DOMAIN Routes : ScopesChange(now)

\* The process stops and starts: what is not committed is rolled back, the rows
\* of its runs stay "running".
RestartSyncer ==
  /\ Mishap
  /\ running' = {}
  /\ run' = [r \in Runs |-> Unused]
  /\ round' = NoRound
  /\ pass' = {}
  /\ UNCHANGED <<tables, switches, asked, switched>>

CostsNext ==
  \/ \E r \in CostRuns : Proceeds(r) \/ Fails(r)
  \/ CostScheduler
  \/ \E r \in CostRuns, wh \in Warehouses :
       AskFor(r, "funds_flow", wh, FALSE) \/ \E l \in BOOLEAN : AskFor(r, "cost_details", wh, l)
  \/ \E slots \in [Active -> FundsRuns] : AskForAll(slots)

StockNext ==
  \/ \E r \in StockRuns : Proceeds(r) \/ Fails(r)
  \/ InventoryScheduler
  \/ \E r \in StockRuns, wh \in Warehouses : AskFor(r, "inventory", wh, FALSE)

SyncNext ==
  \/ CostsNext \/ StockNext
  \/ Switch
  \/ RestartSyncer

\* The run of cost details of a warehouse: its key allows one at a time.
DetailsProceed(wh) == \E r \in DetailRuns : run[r].wh = wh /\ Proceeds(r)
MarksEnd(wh) == \E r \in DetailRuns : run[r].wh = wh /\ MarkEnds(r)

\* Goroutines are scheduled, requests and runs have deadlines, tickers tick, and
\* PostgreSQL serves those who wait for a row in turn, so that an UPDATE is not
\* overtaken by one snapshot after the other.
SyncFairness ==
  /\ \A r \in FundsRuns : WF_syncVars(Proceeds(r))
  /\ \A wh \in Warehouses : WF_syncVars(DetailsProceed(wh)) /\ SF_syncVars(MarksEnd(wh))
  /\ WF_syncVars(CostScheduler)

-----------------------------------------------------------------------------
\* scheduledWarehouseRun
Waits == [route : DOMAIN Routes, run : CostRuns, status : {"running", "succeeded", "failed"}]

Tasks ==
  [kind : Kinds, wh : Warehouses, cred : Creds, stage : Stages, limited : BOOLEAN,
   lines : SUBSET Lines, gone : SUBSET Lines, todo : SUBSET Orders,
   order : Orders \cup {NoOrder}, got : BOOLEAN, bad : BOOLEAN]

Rounds ==
  [at : {"idle", "start", "await"}, left : SUBSET DOMAIN Routes,
   funds : Seq(Waits), details : Seq(Waits)]

SyncTypeOK ==
  /\ running \subseteq Kinds \X Warehouses \X Creds
  /\ run \in [Runs -> Tasks]
  /\ rows \in [Areas -> [Lines -> {"none", "pending", "success", "error"}]]
  /\ latest \in [Areas -> SUBSET Lines]
  /\ saved \in [Warehouses -> SUBSET Orders]
  /\ enabled \subseteq Warehouses /\ listed \subseteq DOMAIN Routes
  /\ round \in Rounds
  /\ pass \subseteq DOMAIN Routes
  /\ asked \in 0 .. MaxAsked /\ mishaps \in 0 .. MaxFailures
  /\ switched \in 0 .. MaxSwitches

\* What a reader sees of an area is one snapshot, the one committed last: runs
\* of one warehouse (all_active with two credentials, or two credentials of the
\* inventory schedule) never leave rows of one beside rows of another
\* (sync.go:24-76, inventory.go:33-146).
SnapshotIsLatest == \A area \in Areas : Present(area) = latest[area]

\* The cost scheduler is given the warehouse: it is enabled, and some active
\* credential has a scope that is ready and holds a SKU of it.
IsListed(wh) == \E i \in Active : Routes[i].wh = wh

\* A line of a warehouse the scheduler is given, that has an order, is not passed
\* over for ever while it is given the warehouse: its detail is fetched or its
\* error recorded, or it leaves the table (cost_scheduler.go:73-128,
\* sync.go:88-96, postgres.go:161-172).  Keys that are not released, runs whose
\* end is lost, requests under way, restarts and the other credentials of the
\* warehouse only delay it.  A warehouse whose scopes have failed, or hold no
\* SKU of it, is promised nothing.
PendingIsTried ==
  \A wh \in Warehouses, l \in Lines :
    (rows[<<wh, Ledger>>][l] = "pending" /\ OrderOf[l] # NoOrder /\ IsListed(wh))
      ~> (rows[<<wh, Ledger>>][l] # "pending" \/ ~IsListed(wh))

\* What the README says of the syncer: it reads enabled warehouses only, so no
\* run of cost details begins for a warehouse that is disabled by then.
\* (cost_scheduler.go:104-109)
DetailsOfEnabledOnly ==
  [][\A r \in DetailRuns :
       run[r].stage = "over" /\ run'[r].stage # "over" => run'[r].wh \in enabled]_syncVars

SyncSpec == SyncInit /\ [][SyncNext]_syncVars /\ SyncFairness
================================================================================
