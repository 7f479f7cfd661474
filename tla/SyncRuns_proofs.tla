---------------------------- MODULE SyncRuns_proofs ----------------------------
(* Theorems about SyncRuns.tla and the types of ApiScopes.tla, for every set of    *)
(* warehouses, credentials, records, runs and calls and any number of requests,    *)
(* failures, switches and restarts.                                                *)
EXTENDS MC_Services, SequenceTheorems, TLAPS

(* What the step of a run may do to the type of the state: everything but the run, *)
(* the tables and the counters is left to its own lemmas.                          *)
TablesType ==
  /\ rows \in [Areas -> [Lines -> {"none", "pending", "success", "error"}]]
  /\ latest \in [Areas -> SUBSET Lines]
  /\ saved \in [Warehouses -> SUBSET Orders]

(* A run is in a stage of its kind, and marks an order. *)
StageOK(task) ==
  /\ task.stage \in {"fetch", "write"} => task.kind # "cost_details"
  /\ task.stage = "mark" => task.order \in Orders

TasksOK == run \in [Runs -> Tasks] /\ \A r \in Runs : StageOK(run[r])

StagesOK == \A r \in Runs : StageOK(run[r])

TypeInv == SyncTypeOK /\ StagesOK

BoundsType ==
  asked \in 0 .. MaxAsked /\ mishaps \in 0 .. MaxFailures /\ switched \in 0 .. MaxSwitches

--------------------------------------------------------------------------------
LEMMA RoutesAreNamed ==
  ASSUME NEW i \in DOMAIN Routes
  PROVE  Routes[i].wh \in Warehouses /\ Routes[i].cred \in Creds
<1>1. Routes \in Seq([wh : Warehouses, cred : Creds])
  BY SyncNamesAssumption
<1>2. Routes[i] \in [wh : Warehouses, cred : Creds]
  BY <1>1, LenProperties
<1>3. QED
  BY <1>2

LEMMA ActiveAreRoutes == SyncTypeOK => Active \subseteq DOMAIN Routes
BY DEF SyncTypeOK, Active

LEMMA NoCredIsCred == NoCred \in Creds
BY DEF Creds

LEMMA RunsAreRuns ==
  /\ FundsRuns \subseteq CostRuns /\ DetailRuns \subseteq CostRuns
  /\ CostRuns \subseteq Runs /\ StockRuns \subseteq Runs
BY DEF CostRuns, Runs

LEMMA UnusedIsTask == Unused \in Tasks /\ Unused.stage = "over"
<1>1. (CHOOSE wh \in Warehouses : TRUE) \in Warehouses
  BY SyncNamesAssumption
<1>2. QED
  BY <1>1, NoCredIsCred DEF Unused, Task, Tasks, Kinds, Stages

LEMMA TaskIsTask ==
  ASSUME NEW kind \in Kinds, NEW wh \in Warehouses, NEW cred \in Creds,
         NEW limited \in BOOLEAN, NEW stage \in Stages
  PROVE  Task(kind, wh, cred, stage, limited) \in Tasks
BY DEF Task, Tasks

LEMMA AreaIsArea ==
  ASSUME SyncTypeOK, NEW r \in Runs
  PROVE  Area(r) \in Areas
BY DEF SyncTypeOK, Tasks, Area, Areas

LEMMA InitType == SyncInit => TypeInv
BY UnusedIsTask, SyncBoundsAssumption
DEF SyncInit, TypeInv, StagesOK, StageOK, SyncTypeOK, NoRound, Rounds

(* A run that goes on is a task, whichever of its fields the step has set. *)
LEMMA EndsAreTasks ==
  ASSUME NEW task \in Tasks
  PROVE  /\ [task EXCEPT !.stage = "finish", !.bad = TRUE] \in Tasks
         /\ [task EXCEPT !.stage = "finish", !.lines = {}, !.gone = {}] \in Tasks
         /\ [task EXCEPT !.stage = "finish", !.lines = {}, !.gone = {}, !.bad = TRUE] \in Tasks
         /\ [task EXCEPT !.stage = "finish", !.todo = {}, !.bad = TRUE] \in Tasks
         /\ [task EXCEPT !.stage = "release"] \in Tasks
BY DEF Tasks, Stages

LEMMA EndsAreInStage ==
  ASSUME NEW task \in Tasks
  PROVE  /\ StageOK([task EXCEPT !.stage = "finish", !.bad = TRUE])
         /\ StageOK([task EXCEPT !.stage = "finish", !.lines = {}, !.gone = {}])
         /\ StageOK([task EXCEPT !.stage = "finish", !.lines = {}, !.gone = {}, !.bad = TRUE])
         /\ StageOK([task EXCEPT !.stage = "finish", !.todo = {}, !.bad = TRUE])
         /\ StageOK([task EXCEPT !.stage = "release"])
         /\ StageOK(Unused)
BY UnusedIsTask DEF Tasks, StageOK

LEMMA RunStaysTyped ==
  ASSUME TypeInv, NEW r \in Runs, NEW task \in Tasks, StageOK(task),
         run' = [run EXCEPT ![r] = task]
  PROVE  TasksOK'
<1>1. run \in [Runs -> Tasks] /\ \A q \in Runs : StageOK(run[q])
  BY DEF TypeInv, SyncTypeOK, StagesOK
<1>2. run' \in [Runs -> Tasks] /\ \A q \in Runs : run'[q] = task \/ run'[q] = run[q]
  BY <1>1
<1>3. QED
  BY <1>1, <1>2 DEF TasksOK, StageOK

(* A run that ends, whatever it was doing. *)
LEMMA EndOfStageType ==
  ASSUME TypeInv, NEW r \in Runs,
         \/ FetchFails(r) \/ LockRefused(r) \/ CommitSnapshot(r) \/ WriteFails(r)
         \/ TargetsFail(r) \/ OutOfTime(r) \/ Finish(r) \/ FinishIsLost(r) \/ Release(r)
  PROVE  TasksOK'
<1>1. run \in [Runs -> Tasks] /\ run[r] \in Tasks
  BY DEF TypeInv, SyncTypeOK
<1>2. \/ run' = [run EXCEPT ![r] = [run[r] EXCEPT !.stage = "finish", !.bad = TRUE]]
      \/ run' = [run EXCEPT ![r] = [run[r] EXCEPT !.stage = "finish", !.lines = {}, !.gone = {}]]
      \/ run' = [run EXCEPT ![r] = [run[r] EXCEPT !.stage = "finish", !.lines = {}, !.gone = {}, !.bad = TRUE]]
      \/ run' = [run EXCEPT ![r] = [run[r] EXCEPT !.stage = "finish", !.todo = {}, !.bad = TRUE]]
      \/ run' = [run EXCEPT ![r] = [run[r] EXCEPT !.stage = "release"]]
      \/ run' = [run EXCEPT ![r] = Unused]
  BY <1>1 DEF FetchFails, LockRefused, CommitSnapshot, WriteFails, TargetsFail, OutOfTime,
     Finish, FinishIsLost, Release
<1>3. QED
  BY <1>1, <1>2, EndsAreTasks, EndsAreInStage, UnusedIsTask, RunStaysTyped

(* A run that writes, reads its targets or marks one. *)
LEMMA WriteType ==
  ASSUME TypeInv, NEW r \in Runs, WriteSnapshot(r)
  PROVE  TasksOK'
<1>1. run \in [Runs -> Tasks] /\ run[r] \in Tasks
  BY DEF TypeInv, SyncTypeOK
<1>2. PICK lines \in SUBSET Lines :
        run' = [run EXCEPT ![r].stage = "write", ![r].lines = lines,
                           ![r].gone = Present(Area(r)) \ lines]
  BY DEF WriteSnapshot
<1>3. DEFINE task == [run[r] EXCEPT !.stage = "write", !.lines = lines,
                                    !.gone = Present(Area(r)) \ lines]
<1>4. run' = [run EXCEPT ![r] = task]
  BY <1>1, <1>2
<1>5. task \in Tasks
  BY <1>1 DEF Tasks, Stages, Present
<1>6. run[r].kind # "cost_details"
  BY DEF TypeInv, StagesOK, StageOK, WriteSnapshot, At
<1>7. StageOK(task)
  BY <1>1, <1>6 DEF StageOK, Tasks
<1>8. QED
  BY <1>4, <1>5, <1>7, RunStaysTyped

LEMMA ReadType ==
  ASSUME TypeInv, NEW r \in Runs, ReadTargets(r)
  PROVE  TasksOK'
<1>1. run \in [Runs -> Tasks] /\ run[r] \in Tasks
  BY DEF TypeInv, SyncTypeOK
<1>2. PICK todo \in SUBSET Orders :
        run' = [run EXCEPT ![r].todo = todo, ![r].limited = FALSE,
                           ![r].stage = IF todo = {} THEN "finish" ELSE "details"]
  BY DEF ReadTargets, Pending
<1>3. DEFINE task == [run[r] EXCEPT !.todo = todo, !.limited = FALSE,
                                    !.stage = IF todo = {} THEN "finish" ELSE "details"]
<1>4. run' = [run EXCEPT ![r] = task]
  BY <1>1, <1>2
<1>5. task \in Tasks
  BY <1>1 DEF Tasks, Stages
<1>6. StageOK(task)
  BY <1>1 DEF StageOK, Tasks
<1>7. QED
  BY <1>4, <1>5, <1>6, RunStaysTyped

LEMMA MarkType ==
  ASSUME TypeInv, NEW r \in Runs, NEW o \in Orders, NEW got \in BOOLEAN,
         MarkStarts(r, o, got)
  PROVE  TasksOK'
<1>1. run \in [Runs -> Tasks] /\ run[r] \in Tasks
  BY DEF TypeInv, SyncTypeOK
<1>2. DEFINE task == [run[r] EXCEPT !.stage = "mark", !.order = o, !.got = got,
                                    !.lines = LinesOf(run[r].wh, o)]
<1>3. run' = [run EXCEPT ![r] = task]
  BY <1>1 DEF MarkStarts
<1>4. task \in Tasks
  BY <1>1 DEF Tasks, Stages, LinesOf, Present
<1>5. StageOK(task)
  BY <1>1 DEF StageOK, Tasks
<1>6. QED
  BY <1>3, <1>4, <1>5, RunStaysTyped

LEMMA MarkedIsTask ==
  ASSUME TypeInv, NEW r \in Runs, NEW bad \in BOOLEAN
  PROVE  Marked(r, bad) \in Tasks /\ StageOK(Marked(r, bad))
<1>1. run[r] \in Tasks
  BY DEF TypeInv, SyncTypeOK
<1>2. QED
  BY <1>1 DEF Tasks, Stages, Marked, StageOK

LEMMA MarkEndType ==
  ASSUME TypeInv, NEW r \in Runs, MarkEnds(r) \/ MarkFails(r)
  PROVE  TasksOK'
<1>1. run \in [Runs -> Tasks] /\ run[r].bad \in BOOLEAN
  BY DEF TypeInv, SyncTypeOK, Tasks
<1>2. run' = [run EXCEPT ![r] = Marked(r, run[r].bad)] \/ run' = [run EXCEPT ![r] = Marked(r, TRUE)]
  BY DEF MarkEnds, MarkFails
<1>3. QED
  BY <1>1, <1>2, MarkedIsTask, RunStaysTyped

(* What the steps of runs do to the tables. *)
LEMMA CommitTables ==
  ASSUME SyncTypeOK, NEW r \in Runs, CommitSnapshot(r)
  PROVE  TablesType'
<1>1. Area(r) \in Areas /\ run[r].lines \in SUBSET Lines
  BY AreaIsArea DEF SyncTypeOK, Tasks
<1>2. QED
  BY <1>1 DEF CommitSnapshot, SyncTypeOK, TablesType

LEMMA MarkTables ==
  ASSUME TypeInv, NEW r \in Runs, MarkEnds(r)
  PROVE  TablesType'
<1>1. /\ run[r].wh \in Warehouses /\ run[r].order \in Orders
      /\ <<run[r].wh, Ledger>> \in Areas
  BY DEF TypeInv, SyncTypeOK, Tasks, StagesOK, StageOK, MarkEnds, At, Areas
<1>2. rows' \in [Areas -> [Lines -> {"none", "pending", "success", "error"}]]
  BY <1>1 DEF MarkEnds, TypeInv, SyncTypeOK
<1>3. saved' \in [Warehouses -> SUBSET Orders]
  BY <1>1 DEF MarkEnds, TypeInv, SyncTypeOK
<1>4. QED
  BY <1>2, <1>3 DEF MarkEnds, TypeInv, SyncTypeOK, TablesType

LEMMA RunTables ==
  ASSUME TypeInv, NEW r \in Runs, Proceeds(r) \/ Fails(r)
  PROVE  TablesType'
<1>1. CASE CommitSnapshot(r)
  BY <1>1, CommitTables DEF TypeInv
<1>2. CASE MarkEnds(r)
  BY <1>2, MarkTables
<1>3. CASE ~CommitSnapshot(r) /\ ~MarkEnds(r)
  <2>1. UNCHANGED tables
    BY <1>3 DEF Proceeds, Fails, LockRefused, WriteSnapshot, ReadTargets, MarkStarts, Finish, Release,
       FetchFails, WriteFails, TargetsFail, MarkFails, OutOfTime, FinishIsLost
  <2>2. QED
    BY <2>1 DEF TypeInv, SyncTypeOK, TablesType, tables
<1>4. QED
  BY <1>1, <1>2, <1>3

LEMMA RunTasks ==
  ASSUME TypeInv, NEW r \in Runs, Proceeds(r) \/ Fails(r)
  PROVE  TasksOK'
BY EndOfStageType, WriteType, ReadType, MarkType, MarkEndType DEF Proceeds, Fails

(* Only those that wait read the status of a run. *)
LEMMA NotedIsSeq ==
  ASSUME NEW waits \in Seq(Waits), NEW r, NEW status \in {"running", "succeeded", "failed"}
  PROVE  Noted(waits, r, status) \in Seq(Waits)
<1>1. waits \in [1 .. Len(waits) -> Waits] /\ Len(waits) \in Nat /\ DOMAIN waits = 1 .. Len(waits)
  BY LenProperties
<1>2. \A i \in 1 .. Len(waits) : [waits[i] EXCEPT !.status = status] \in Waits
  BY <1>1 DEF Waits
<1>3. Noted(waits, r, status) \in [1 .. Len(waits) -> Waits]
  BY <1>1, <1>2 DEF Noted
<1>4. QED
  BY <1>1, <1>3, SeqDef

LEMMA RunOthers ==
  ASSUME TypeInv, NEW r \in Runs, Proceeds(r) \/ Fails(r)
  PROVE  /\ running' \subseteq Kinds \X Warehouses \X Creds
         /\ switches' = switches /\ pass' = pass
         /\ round' \in Rounds
         /\ BoundsType'
<1>1. /\ running' \subseteq running /\ switches' = switches /\ pass' = pass
      /\ UNCHANGED <<asked, switched>> /\ (mishaps' = mishaps \/ Mishap)
      /\ (UNCHANGED round \/ Finish(r))
  <2>1. CASE Proceeds(r)
    BY <2>1 DEF Proceeds, LockRefused, WriteSnapshot, CommitSnapshot, ReadTargets, MarkStarts, MarkEnds,
       Release, Finish, RunUnchanged, schedulers, bounds
  <2>2. CASE Fails(r)
    BY <2>2 DEF Fails, FetchFails, WriteFails, TargetsFail, MarkFails, MarkStarts, OutOfTime, FinishIsLost,
       RunUnchanged, schedulers, bounds
  <2>3. QED
    BY <2>1, <2>2
<1>. mishaps' \in 0 .. MaxFailures
  BY <1>1, SyncBoundsAssumption DEF TypeInv, SyncTypeOK, Mishap
<1>2. CASE Finish(r)
  <2>1. EndOf(r) \in {"running", "succeeded", "failed"}
    BY DEF EndOf
  <2>2. Noted(round.funds, r, EndOf(r)) \in Seq(Waits) /\ Noted(round.details, r, EndOf(r)) \in Seq(Waits)
    BY <2>1, NotedIsSeq DEF TypeInv, SyncTypeOK, Rounds
  <2>3. round' \in Rounds
    BY <1>2, <2>2 DEF Finish, TypeInv, SyncTypeOK, Rounds
  <2>4. QED
    BY <1>1, <2>3 DEF TypeInv, SyncTypeOK, BoundsType
<1>3. CASE UNCHANGED round
  BY <1>1, <1>3 DEF TypeInv, SyncTypeOK, BoundsType
<1>4. QED
  BY <1>1, <1>2, <1>3

LEMMA RunKeepsTypes ==
  ASSUME TypeInv, NEW r \in Runs, Proceeds(r) \/ Fails(r)
  PROVE  TypeInv'
BY RunTables, RunTasks, RunOthers DEF TypeInv, SyncTypeOK, StagesOK, TasksOK, TablesType, BoundsType, switches

(* Starting a run: its key and its task are well formed, and a run of cost details *)
(* reads its targets first.                                                         *)
LEMMA StartKeepsTypes ==
  ASSUME TypeInv, NEW r, NEW kind \in Kinds, NEW wh \in Warehouses, NEW cred \in Creds,
         NEW limited \in BOOLEAN, Starts(r, kind, wh, cred, limited)
  PROVE  /\ TasksOK' /\ running' \subseteq Kinds \X Warehouses \X Creds
         /\ r \in RunsFor(kind) /\ r \in Runs
<1>1. r \in RunsFor(kind) /\ r \in Free
  BY DEF Starts, First
<1>2. r \in Runs
  BY <1>1 DEF Free
<1>3. FirstStage(kind) \in Stages /\ StageOK(Task(kind, wh, cred, FirstStage(kind), limited))
  BY DEF FirstStage, Stages, Kinds, StageOK, Task
<1>4. Task(kind, wh, cred, FirstStage(kind), limited) \in Tasks
  BY <1>3, TaskIsTask
<1>5. TasksOK'
  BY <1>2, <1>3, <1>4, RunStaysTyped DEF Starts
<1>6. Key(kind, wh, cred) \in Kinds \X Warehouses \X Creds
  BY NoCredIsCred DEF Key
<1>7. QED
  BY <1>1, <1>2, <1>5, <1>6 DEF Starts, TypeInv, SyncTypeOK

LEMMA AskKeepsTypes ==
  ASSUME TypeInv, NEW r, NEW kind \in Kinds, NEW wh \in Warehouses, NEW limited \in BOOLEAN,
         AskFor(r, kind, wh, limited)
  PROVE  TypeInv'
<1>1. TasksOK' /\ running' \subseteq Kinds \X Warehouses \X Creds
  BY NoCredIsCred, StartKeepsTypes DEF AskFor
<1>2. asked' \in 0 .. MaxAsked
  BY SyncBoundsAssumption DEF AskFor, Ask, TypeInv, SyncTypeOK
<1>3. QED
  BY <1>1, <1>2 DEF AskFor, TypeInv, SyncTypeOK, TasksOK, StagesOK, tables, switches, schedulers

(* all_active: each run is one of the old, or of funds flows. *)
LEMMA AllStart ==
  ASSUME TypeInv, NEW slots, AskForAll(slots)
  PROVE  \A q \in Runs :
           \/ run'[q] = run[q]
           \/ \E wh \in Warehouses : run'[q] = Task("funds_flow", wh, NoCred, "fetch", FALSE)
<1> SUFFICES ASSUME NEW q \in Runs
             PROVE  \/ run'[q] = run[q]
                    \/ \E wh \in Warehouses : run'[q] = Task("funds_flow", wh, NoCred, "fetch", FALSE)
  OBVIOUS
<1>1. CASE \E i \in Active : slots[i] = q
  <2>1. PICK j : j = CHOOSE i \in Active : slots[i] = q
    OBVIOUS
  <2>2. j \in Active /\ Routes[j].wh \in Warehouses
    BY <1>1, <2>1, RoutesAreNamed, ActiveAreRoutes DEF TypeInv
  <2>3. run'[q] = Task("funds_flow", Routes[j].wh, NoCred, "fetch", FALSE)
    BY <1>1, <2>1 DEF AskForAll
  <2>4. QED
    BY <2>2, <2>3
<1>2. CASE ~ \E i \in Active : slots[i] = q
  BY <1>2 DEF AskForAll
<1>3. QED
  BY <1>1, <1>2

LEMMA AskAllKeepsTypes ==
  ASSUME TypeInv, NEW slots, AskForAll(slots)
  PROVE  TypeInv'
<1>1. \A wh \in Warehouses :
        /\ Task("funds_flow", wh, NoCred, "fetch", FALSE) \in Tasks
        /\ StageOK(Task("funds_flow", wh, NoCred, "fetch", FALSE))
        /\ Key("funds_flow", wh, NoCred) \in Kinds \X Warehouses \X Creds
  BY TaskIsTask, NoCredIsCred DEF Kinds, Stages, StageOK, Task, Key
<1>2. \A q \in Runs : run'[q] \in Tasks /\ StageOK(run'[q])
  BY <1>1, AllStart DEF TypeInv, SyncTypeOK, StagesOK
<1>3. run' = [q \in Runs |-> run'[q]]
  BY DEF AskForAll
<1>4. TasksOK'
  BY <1>2, <1>3 DEF TasksOK, StageOK
<1>5. running' \subseteq Kinds \X Warehouses \X Creds
  <2>1. running' = running \cup {Key("funds_flow", Routes[i].wh, NoCred) : i \in Active}
    BY DEF AskForAll
  <2>2. \A i \in Active : Key("funds_flow", Routes[i].wh, NoCred) \in Kinds \X Warehouses \X Creds
    BY <1>1, RoutesAreNamed, ActiveAreRoutes DEF TypeInv
  <2>3. QED
    BY <2>1, <2>2 DEF TypeInv, SyncTypeOK
<1>6. asked' \in 0 .. MaxAsked
  BY SyncBoundsAssumption DEF AskForAll, Ask, TypeInv, SyncTypeOK
<1>7. QED
  BY <1>4, <1>5, <1>6 DEF AskForAll, TypeInv, SyncTypeOK, TasksOK, StagesOK, tables, switches, schedulers

(* The inventory scheduler. *)
LEMMA PassKeepsTypes ==
  ASSUME TypeInv, InventoryScheduler
  PROVE  TypeInv'
<1>1. CASE PassBegins
  BY <1>1 DEF PassBegins, Active, TypeInv, SyncTypeOK, StagesOK, tables, switches, bounds
<1>2. ASSUME NEW i \in DOMAIN Routes, PassSkips(i)
      PROVE  TypeInv'
  BY <1>2 DEF PassSkips, TypeInv, SyncTypeOK, StagesOK, tables, switches, bounds
<1>3. ASSUME NEW i \in DOMAIN Routes, NEW r, PassStarts(i, r)
      PROVE  TypeInv'
  <2>1. "inventory" \in Kinds /\ FALSE \in BOOLEAN
    BY DEF Kinds
  <2>2. TasksOK' /\ running' \subseteq Kinds \X Warehouses \X Creds
    BY <1>3, <2>1, RoutesAreNamed, StartKeepsTypes DEF PassStarts
  <2>3. QED
    BY <1>3, <2>2 DEF PassStarts, TypeInv, SyncTypeOK, TasksOK, StagesOK, tables, switches, bounds
<1>4. QED
  BY <1>1, <1>2, <1>3 DEF InventoryScheduler

(* The cost scheduler. *)
LEMMA RoundKeepsTypes ==
  ASSUME TypeInv, CostScheduler
  PROVE  TypeInv'
<1>1. /\ round \in Rounds /\ mishaps \in 0 .. MaxFailures /\ round.funds \in Seq(Waits)
      /\ round.details \in Seq(Waits)
  BY DEF TypeInv, SyncTypeOK, Rounds
<1>2. ASSUME round' \in Rounds, UNCHANGED <<running, run>>, UNCHANGED mishaps \/ Mishap, OthersUnchanged
      PROVE  TypeInv'
  <2>1. mishaps' \in 0 .. MaxFailures
    BY <1>1, <1>2, SyncBoundsAssumption DEF Mishap
  <2>2. QED
    BY <1>2, <2>1 DEF OthersUnchanged, TypeInv, SyncTypeOK, StagesOK, tables, switches
<1>3. CASE RoundBegins
  BY <1>1, <1>2, <1>3, ActiveAreRoutes DEF RoundBegins, Rounds, TypeInv
<1>4. CASE RoundAwaits
  BY <1>1, <1>2, <1>4 DEF RoundAwaits, Rounds
<1>5. CASE RoundPassesOver
  <2>1. Tail(round.funds) \in Seq(Waits)
    BY <1>1, <1>5, HeadTailProperties DEF RoundPassesOver, Due
  <2>2. round' \in Rounds
    BY <1>1, <1>5, <2>1 DEF RoundPassesOver, Rounds
  <2>3. QED
    BY <1>2, <1>5, <2>2 DEF RoundPassesOver
<1>6. CASE RoundEnds
  BY <1>2, <1>6 DEF RoundEnds, Rounds, NoRound
<1>7. CASE RoundDeadline
  BY <1>2, <1>7 DEF RoundDeadline, Rounds, NoRound
<1>8. ASSUME NEW i \in DOMAIN Routes, RoundSkips(i)
      PROVE  TypeInv'
  <2>1. round' \in Rounds
    BY <1>1, <1>8 DEF RoundSkips, Rounds
  <2>2. QED
    BY <1>2, <1>8, <2>1 DEF RoundSkips
<1>9. ASSUME NEW i \in DOMAIN Routes, NEW r, RoundStarts(i, r)
      PROVE  TypeInv'
  <2>1. "funds_flow" \in Kinds /\ FALSE \in BOOLEAN
    BY DEF Kinds
  <2>2. TasksOK' /\ running' \subseteq Kinds \X Warehouses \X Creds /\ r \in RunsFor("funds_flow")
    BY <1>9, <2>1, NoCredIsCred, RoutesAreNamed, StartKeepsTypes DEF RoundStarts
  <2>3. Wait(i, r) \in Waits
    BY <2>2, RunsAreRuns DEF Wait, Waits, RunsFor
  <2>4. round' \in Rounds
    BY <1>1, <1>9, <2>3, AppendProperties DEF RoundStarts, Rounds
  <2>5. QED
    BY <1>9, <2>2, <2>4 DEF RoundStarts, OthersUnchanged, TypeInv, SyncTypeOK, TasksOK, StagesOK, tables, switches
<1>10. ASSUME NEW r, RoundGoesOn(r)
       PROVE  TypeInv'
  <2>1. /\ Head(round.funds) \in Waits /\ Tail(round.funds) \in Seq(Waits)
    BY <1>1, <1>10, HeadTailProperties DEF RoundGoesOn, Due
  <2>2. Head(round.funds).route \in DOMAIN Routes
    BY <2>1 DEF Waits
  <2>3. "cost_details" \in Kinds /\ FALSE \in BOOLEAN
    BY DEF Kinds
  <2>4. TasksOK' /\ running' \subseteq Kinds \X Warehouses \X Creds /\ r \in RunsFor("cost_details")
    BY <1>10, <2>2, <2>3, NoCredIsCred, RoutesAreNamed, StartKeepsTypes DEF RoundGoesOn
  <2>5. Wait(Head(round.funds).route, r) \in Waits
    BY <2>2, <2>4, RunsAreRuns DEF Wait, Waits, RunsFor
  <2>6. round' \in Rounds
    BY <1>1, <1>10, <2>1, <2>5, AppendProperties DEF RoundGoesOn, Rounds
  <2>7. QED
    BY <1>10, <2>4, <2>6 DEF RoundGoesOn, OthersUnchanged, TypeInv, SyncTypeOK, TasksOK, StagesOK, tables, switches
<1>11. QED
  BY <1>3, <1>4, <1>5, <1>6, <1>7, <1>8, <1>9, <1>10 DEF CostScheduler

LEMMA TypeStep == TypeInv /\ [SyncNext]_syncVars => TypeInv'
<1> SUFFICES ASSUME TypeInv, [SyncNext]_syncVars
             PROVE  TypeInv'
  OBVIOUS
<1>1. ASSUME NEW r \in Runs, Proceeds(r) \/ Fails(r)
      PROVE  TypeInv'
  BY <1>1, RunKeepsTypes
<1>2. ASSUME NEW r, NEW wh \in Warehouses, NEW kind \in Kinds, NEW l \in BOOLEAN, AskFor(r, kind, wh, l)
      PROVE  TypeInv'
  BY <1>2, AskKeepsTypes
<1>3. ASSUME NEW slots, AskForAll(slots)
      PROVE  TypeInv'
  BY <1>3, AskAllKeepsTypes
<1>4. CASE CostScheduler
  BY <1>4, RoundKeepsTypes
<1>5. CASE InventoryScheduler
  BY <1>5, PassKeepsTypes
<1>6. CASE Switch
  <2>1. ASSUME NEW wh \in Warehouses, SwitchWarehouse(wh)
        PROVE  TypeInv'
    BY <2>1, SyncBoundsAssumption DEF SwitchWarehouse, TypeInv, SyncTypeOK, StagesOK, tables, schedulers
  <2>2. ASSUME NEW now \in SUBSET DOMAIN Routes, ScopesChange(now)
        PROVE  TypeInv'
    BY <2>2, SyncBoundsAssumption DEF ScopesChange, TypeInv, SyncTypeOK, StagesOK, tables, schedulers
  <2>3. QED
    BY <1>6, <2>1, <2>2 DEF Switch
<1>7. CASE RestartSyncer
  <2>1. mishaps' \in 0 .. MaxFailures
    BY <1>7, SyncBoundsAssumption DEF RestartSyncer, Mishap, TypeInv, SyncTypeOK
  <2>2. run' \in [Runs -> Tasks] /\ \A r \in Runs : StageOK(run'[r])
    BY <1>7, UnusedIsTask, EndsAreInStage DEF RestartSyncer
  <2>3. StagesOK'
    BY <2>2 DEF StagesOK, StageOK
  <2>4. QED
    BY <1>7, <2>1, <2>2, <2>3 DEF RestartSyncer, TypeInv, SyncTypeOK, tables, switches, NoRound, Rounds
<1>8. CASE UNCHANGED syncVars
  BY <1>8 DEF syncVars, tables, switches, schedulers, bounds, TypeInv, SyncTypeOK, StagesOK
<1>9. {"funds_flow", "cost_details", "inventory"} \subseteq Kinds /\ FALSE \in BOOLEAN
  BY DEF Kinds
<1>10. CASE CostsNext
  BY <1>1, <1>2, <1>3, <1>4, <1>9, <1>10, RunsAreRuns DEF CostsNext
<1>11. CASE StockNext
  BY <1>1, <1>2, <1>5, <1>9, <1>11, RunsAreRuns DEF StockNext
<1>12. QED
  BY <1>6, <1>7, <1>8, <1>10, <1>11 DEF SyncNext

(* Every reachable state of the syncer has its type (service.go, sync.go). *)
THEOREM TypeCorrect == SyncSpec => []SyncTypeOK
<1>1. SyncInit => TypeInv
  BY InitType
<1>2. TypeInv /\ [SyncNext]_syncVars => TypeInv'
  BY TypeStep
<1>3. TypeInv => SyncTypeOK
  BY DEF TypeInv
<1>4. QED
  BY <1>1, <1>2, <1>3, PTL DEF SyncSpec

--------------------------------------------------------------------------------
(* Why a snapshot is never mixed with another: between its statements and its     *)
(* commit a run holds the lock of its warehouse and kind, so what it found to     *)
(* remove is what is there but not in the snapshot.                               *)
LocksExclude ==
  \A q, r \in Runs :
    At(q, "write") /\ At(r, "write") /\ run[q].wh = run[r].wh /\ run[q].kind = run[r].kind => q = r

GoneIsStale ==
  \A r \in Runs : At(r, "write") => run[r].gone = Present(Area(r)) \ run[r].lines

SnapInv == SnapshotIsLatest /\ LocksExclude /\ GoneIsStale

(* A step that writes no snapshot leaves all of it as it is. *)
LEMMA CalmStep ==
  ASSUME TypeInv, SnapInv,
         \A q \in Runs : run'[q].stage = "write" => run'[q] = run[q],
         \A area \in Areas : Present(area)' = Present(area),
         latest' = latest
  PROVE  SnapInv'
<1>1. SnapshotIsLatest'
  BY DEF SnapInv, SnapshotIsLatest
<1>2. LocksExclude'
  BY DEF SnapInv, LocksExclude, At
<1>3. GoneIsStale'
  <2> SUFFICES ASSUME NEW q \in Runs, run'[q].stage = "write"
               PROVE  run'[q].gone = Present(Area(q))' \ run'[q].lines
    BY DEF GoneIsStale, At
  <2>1. run'[q] = run[q] /\ run[q].stage = "write"
    OBVIOUS
  <2>2. Area(q)' = Area(q) /\ Area(q) \in Areas
    BY <2>1, AreaIsArea DEF Area, TypeInv
  <2>3. Present(Area(q))' = Present(Area(q))
    BY <2>2 DEF Present
  <2>4. QED
    BY <2>1, <2>3 DEF SnapInv, GoneIsStale, At
<1>4. QED
  BY <1>1, <1>2, <1>3 DEF SnapInv

(* Two runs that write replace different parts of the tables. *)
LEMMA AreasDiffer ==
  ASSUME TypeInv, SnapInv, NEW q \in Runs, NEW r \in Runs, At(q, "write"), At(r, "write"), q # r
  PROVE  Area(q) # Area(r)
<1>1. /\ run[q] \in Tasks /\ run[r] \in Tasks
      /\ run[q].kind \in {"funds_flow", "inventory"} /\ run[r].kind \in {"funds_flow", "inventory"}
  BY DEF TypeInv, SyncTypeOK, StagesOK, StageOK, At, Tasks, Kinds
<1>2. run[q].wh # run[r].wh \/ run[q].kind # run[r].kind
  BY DEF SnapInv, LocksExclude
<1>3. run[q].cred # Ledger /\ run[r].cred # Ledger
  BY <1>1, SyncNamesAssumption DEF Tasks
<1>4. QED
  BY <1>1, <1>2, <1>3 DEF Area

LEMMA WriteStep ==
  ASSUME TypeInv, SnapInv, NEW r \in Runs, WriteSnapshot(r)
  PROVE  SnapInv'
<1>1. PICK lines \in SUBSET Lines :
        run' = [run EXCEPT ![r].stage = "write", ![r].lines = lines,
                           ![r].gone = Present(Area(r)) \ lines]
  BY DEF WriteSnapshot
<1>2. /\ run[r] \in Tasks /\ run \in [Runs -> Tasks]
      /\ \A q \in Runs : q # r => run'[q] = run[q]
  BY <1>1 DEF TypeInv, SyncTypeOK
<1>3. run'[r] = [run[r] EXCEPT !.stage = "write", !.lines = lines, !.gone = Present(Area(r)) \ lines]
  BY <1>1, <1>2
<1>4. /\ run'[r].wh = run[r].wh /\ run'[r].kind = run[r].kind /\ run'[r].cred = run[r].cred
      /\ run'[r].lines = lines /\ run'[r].gone = Present(Area(r)) \ lines
  BY <1>2, <1>3 DEF Tasks
<1>5. rows' = rows /\ latest' = latest
  BY DEF WriteSnapshot, tables
<1>6. SnapshotIsLatest'
  BY <1>5 DEF SnapInv, SnapshotIsLatest, Present
<1>7. LocksExclude'
  BY <1>2, <1>4 DEF SnapInv, LocksExclude, At, WriteSnapshot, LockIsFree, Holds
<1>8. GoneIsStale'
  <2>1. ASSUME NEW q \in Runs, run'[q].stage = "write"
        PROVE  run'[q].gone = Present(Area(q))' \ run'[q].lines
    <3>1. CASE q = r
      <4>1. Area(r)' = Area(r)
        BY <1>4 DEF Area
      <4>2. Present(Area(r))' = Present(Area(r))
        BY <1>5, <4>1 DEF Present
      <4>3. QED
        BY <1>4, <3>1, <4>2
    <3>2. CASE q # r
      <4>1. run'[q] = run[q]
        BY <1>2, <3>2
      <4>2. Present(Area(q))' = Present(Area(q))
        BY <1>5, <4>1 DEF Present, Area
      <4>3. QED
        BY <2>1, <4>1, <4>2 DEF SnapInv, GoneIsStale, At
    <3>3. QED
      BY <3>1, <3>2
  <2>2. QED
    BY <2>1 DEF GoneIsStale, At
<1>9. QED
  BY <1>6, <1>7, <1>8 DEF SnapInv

LEMMA CommitStep ==
  ASSUME TypeInv, SnapInv, NEW r \in Runs, CommitSnapshot(r)
  PROVE  SnapInv'
<1>1. /\ Area(r) \in Areas /\ At(r, "write")
      /\ rows \in [Areas -> [Lines -> {"none", "pending", "success", "error"}]]
      /\ latest \in [Areas -> SUBSET Lines] /\ run \in [Runs -> Tasks] /\ run[r].lines \subseteq Lines
  BY AreaIsArea DEF CommitSnapshot, TypeInv, SyncTypeOK, Tasks
<1>2. /\ \A area \in Areas : area # Area(r) => rows'[area] = rows[area] /\ latest'[area] = latest[area]
      /\ latest'[Area(r)] = run[r].lines
  BY <1>1 DEF CommitSnapshot
<1>3. rows'[Area(r)] = [l \in Lines |->
        IF l \in run[r].lines THEN IF rows[Area(r)][l] = "none" THEN "pending" ELSE rows[Area(r)][l]
        ELSE IF l \in run[r].gone THEN "none" ELSE rows[Area(r)][l]]
  BY <1>1 DEF CommitSnapshot
<1>4. run[r].gone = {l \in Lines : rows[Area(r)][l] # "none"} \ run[r].lines
  BY <1>1 DEF SnapInv, GoneIsStale, Present
<1>5. {l \in Lines : rows'[Area(r)][l] # "none"} = run[r].lines
  BY <1>1, <1>3, <1>4
<1>6. SnapshotIsLatest'
  BY <1>2, <1>5 DEF SnapInv, SnapshotIsLatest, Present
<1>7. /\ run'[r].stage # "write"
      /\ \A q \in Runs : q # r => run'[q] = run[q]
  <2>1. run[r] \in Tasks
    BY <1>1
  <2>2. run'[r] = [run[r] EXCEPT !.stage = "finish", !.lines = {}, !.gone = {}]
    BY <1>1 DEF CommitSnapshot
  <2>3. run'[r].stage = "finish"
    BY <2>1, <2>2 DEF Tasks
  <2>4. QED
    BY <1>1, <2>3 DEF CommitSnapshot
<1>8. LocksExclude'
  BY <1>7 DEF SnapInv, LocksExclude, At
<1>9. GoneIsStale'
  <2>1. ASSUME NEW q \in Runs, run'[q].stage = "write"
        PROVE  run'[q].gone = Present(Area(q))' \ run'[q].lines
    <3>1. q # r /\ run'[q] = run[q] /\ At(q, "write")
      BY <1>7, <2>1 DEF At
    <3>2. Area(q) # Area(r) /\ Area(q) \in Areas
      BY <1>1, <3>1, AreasDiffer, AreaIsArea DEF TypeInv
    <3>3. Area(q)' = Area(q)
      BY <3>1 DEF Area
    <3>4. Present(Area(q))' = Present(Area(q))
      BY <1>2, <3>2, <3>3 DEF Present
    <3>5. QED
      BY <3>1, <3>4 DEF SnapInv, GoneIsStale
  <2>2. QED
    BY <2>1 DEF GoneIsStale, At
<1>10. QED
  BY <1>6, <1>8, <1>9 DEF SnapInv

(* The status of a row says nothing of whether it is there. *)
LEMMA MarkStep ==
  ASSUME TypeInv, SnapInv, NEW r \in Runs, MarkEnds(r)
  PROVE  SnapInv'
<1>1. /\ rows \in [Areas -> [Lines -> {"none", "pending", "success", "error"}]]
      /\ run \in [Runs -> Tasks] /\ <<run[r].wh, Ledger>> \in Areas
  BY DEF TypeInv, SyncTypeOK, Tasks, Areas
<1>2. \A area \in Areas, l \in Lines : rows'[area][l] # "none" <=> rows[area][l] # "none"
  BY <1>1 DEF MarkEnds
<1>3. \A area \in Areas : Present(area)' = Present(area)
  BY <1>2 DEF Present
<1>4. \A q \in Runs : run'[q].stage = "write" => run'[q] = run[q]
  <2>1. run[r] \in Tasks
    BY <1>1
  <2>2. Marked(r, run[r].bad).stage # "write"
    BY <2>1 DEF Marked, Tasks
  <2>3. QED
    BY <1>1, <2>2 DEF MarkEnds
<1>5. QED
  BY <1>3, <1>4, CalmStep DEF MarkEnds

(* The other steps of a run take it to no write and leave the tables alone. *)
LEMMA RunStep ==
  ASSUME TypeInv, SnapInv, NEW r \in Runs, Proceeds(r) \/ Fails(r)
  PROVE  SnapInv'
<1>1. CASE WriteSnapshot(r)
  BY <1>1, WriteStep
<1>2. CASE CommitSnapshot(r)
  BY <1>2, CommitStep
<1>3. CASE MarkEnds(r)
  BY <1>3, MarkStep
<1>4. CASE ~WriteSnapshot(r) /\ ~CommitSnapshot(r) /\ ~MarkEnds(r)
  <2>1. rows' = rows /\ latest' = latest
    BY <1>4 DEF Proceeds, Fails, LockRefused, ReadTargets, MarkStarts, Finish, Release,
       FetchFails, WriteFails, TargetsFail, MarkFails, OutOfTime, FinishIsLost, tables
  <2>2. run \in [Runs -> Tasks] /\ run[r] \in Tasks
    BY DEF TypeInv, SyncTypeOK
  <2>3. \A q \in Runs : q # r => run'[q] = run[q]
    BY <1>4, <2>2 DEF Proceeds, Fails, LockRefused, ReadTargets, MarkStarts, Finish, Release,
       FetchFails, WriteFails, TargetsFail, MarkFails, OutOfTime, FinishIsLost
  <2>4. run'[r].stage # "write"
    <3>1. Marked(r, TRUE).stage # "write" /\ Unused.stage # "write"
      BY <2>2, UnusedIsTask DEF Marked, Tasks
    <3>2. CASE LockRefused(r) \/ FetchFails(r) \/ TargetsFail(r)
      BY <2>2, <3>2 DEF LockRefused, FetchFails, TargetsFail, Tasks
    <3>3. CASE WriteFails(r) \/ OutOfTime(r)
      BY <2>2, <3>3 DEF WriteFails, OutOfTime, Tasks
    <3>4. CASE ReadTargets(r)
      BY <2>2, <3>4 DEF ReadTargets, Tasks
    <3>5. ASSUME NEW o, NEW got, MarkStarts(r, o, got)
          PROVE  run'[r].stage # "write"
      BY <2>2, <3>5 DEF MarkStarts, Tasks
    <3>6. CASE MarkFails(r) \/ Release(r)
      BY <2>2, <3>1, <3>6 DEF MarkFails, Release
    <3>7. CASE Finish(r) \/ FinishIsLost(r)
      BY <2>2, <3>7 DEF Finish, FinishIsLost, Tasks
    <3>8. QED
      BY <1>4, <3>2, <3>3, <3>4, <3>5, <3>6, <3>7 DEF Proceeds, Fails
  <2>5. QED
    BY <2>1, <2>3, <2>4, CalmStep DEF Present
<1>5. QED
  BY <1>1, <1>2, <1>3, <1>4

LEMMA StartStep ==
  ASSUME TypeInv, SnapInv, NEW r, NEW kind \in Kinds, NEW wh, NEW cred, NEW limited,
         Starts(r, kind, wh, cred, limited), rows' = rows, latest' = latest
  PROVE  SnapInv'
<1>1. FirstStage(kind) # "write"
  BY DEF FirstStage
<1>2. Task(kind, wh, cred, FirstStage(kind), limited).stage # "write"
  BY <1>1 DEF Task
<1>3. \A q \in Runs : run'[q].stage = "write" => run'[q] = run[q]
  BY <1>2 DEF Starts, TypeInv, SyncTypeOK
<1>4. QED
  BY <1>3, CalmStep DEF Present

LEMMA SnapStep == TypeInv /\ SnapInv /\ [SyncNext]_syncVars => SnapInv'
<1> SUFFICES ASSUME TypeInv, SnapInv, [SyncNext]_syncVars
             PROVE  SnapInv'
  OBVIOUS
<1>1. ASSUME NEW r \in Runs, Proceeds(r) \/ Fails(r)
      PROVE  SnapInv'
  BY <1>1, RunStep
<1>2. ASSUME NEW r, NEW wh, NEW kind \in Kinds, NEW l, AskFor(r, kind, wh, l)
      PROVE  SnapInv'
  BY <1>2, StartStep DEF AskFor, tables
<1>3. ASSUME NEW slots, AskForAll(slots)
      PROVE  SnapInv'
  <2>1. \A wh : Task("funds_flow", wh, NoCred, "fetch", FALSE).stage # "write"
    BY DEF Task
  <2>2. \A q \in Runs : run'[q].stage = "write" => run'[q] = run[q]
    BY <1>3, <2>1, AllStart
  <2>3. rows' = rows /\ latest' = latest
    BY <1>3 DEF AskForAll, tables
  <2>4. QED
    BY <2>2, <2>3, CalmStep DEF Present
<1>4. ASSUME UNCHANGED run, rows' = rows, latest' = latest
      PROVE  SnapInv'
  BY <1>4, CalmStep DEF Present
<1>5. "funds_flow" \in Kinds /\ "cost_details" \in Kinds /\ "inventory" \in Kinds
  BY DEF Kinds
<1>6. CASE CostScheduler
  <2>1. ASSUME NEW i, NEW r, RoundStarts(i, r)
        PROVE  SnapInv'
    BY <1>5, <2>1, StartStep DEF RoundStarts, OthersUnchanged, tables
  <2>2. ASSUME NEW r, RoundGoesOn(r)
        PROVE  SnapInv'
    BY <1>5, <2>2, StartStep DEF RoundGoesOn, OthersUnchanged, tables
  <2>3. QED
    BY <1>4, <1>6, <2>1, <2>2 DEF CostScheduler, RoundBegins, RoundAwaits, RoundPassesOver, RoundEnds,
       RoundDeadline, RoundSkips, OthersUnchanged, tables
<1>7. CASE InventoryScheduler
  <2>1. ASSUME NEW i, NEW r, PassStarts(i, r)
        PROVE  SnapInv'
    BY <1>5, <2>1, StartStep DEF PassStarts, tables
  <2>2. QED
    BY <1>4, <1>7, <2>1 DEF InventoryScheduler, PassBegins, PassSkips, tables
<1>8. CASE Switch
  BY <1>4, <1>8 DEF Switch, SwitchWarehouse, ScopesChange, tables
<1>9. CASE RestartSyncer
  <2>1. \A q \in Runs : run'[q].stage # "write"
    BY <1>9, UnusedIsTask DEF RestartSyncer
  <2>2. QED
    BY <1>9, <2>1, CalmStep DEF RestartSyncer, tables, Present
<1>10. CASE UNCHANGED syncVars
  BY <1>4, <1>10 DEF syncVars, tables
<1>11. CASE CostsNext
  BY <1>1, <1>2, <1>3, <1>5, <1>6, <1>11, RunsAreRuns DEF CostsNext
<1>12. CASE StockNext
  BY <1>1, <1>2, <1>5, <1>7, <1>12, RunsAreRuns DEF StockNext
<1>13. QED
  BY <1>8, <1>9, <1>10, <1>11, <1>12 DEF SyncNext

(* Whatever runs of one warehouse go on side by side, and whichever fail or are    *)
(* cut off, an area of the tables holds exactly the snapshot committed last        *)
(* (sync.go:24-76, inventory.go:33-146).                                           *)
THEOREM TablesHoldOneSnapshot == SyncSpec => []SnapshotIsLatest
<1>1. SyncInit => TypeInv /\ SnapInv
  <2>1. SyncInit => TypeInv
    BY InitType
  <2>2. SyncInit => SnapInv
    BY UnusedIsTask DEF SyncInit, SnapInv, SnapshotIsLatest, LocksExclude, GoneIsStale, At, Present
  <2>3. QED
    BY <2>1, <2>2
<1>2. (TypeInv /\ SnapInv) /\ [SyncNext]_syncVars => (TypeInv /\ SnapInv)'
  BY TypeStep, SnapStep
<1>3. TypeInv /\ SnapInv => SnapshotIsLatest
  BY DEF SnapInv
<1>4. QED
  BY <1>1, <1>2, <1>3, PTL DEF SyncSpec

--------------------------------------------------------------------------------
(* The scopes of the credentials *)

CallStages == {"idle", "fetch", "register", "fail", "release", "delete", "done"}
ScopeCall == [at : CallStages, key : ApiKeys \cup {NoKey}, locked : BOOLEAN]

LEMMA IdleIsCall == Idle \in ScopeCall
BY DEF Idle, ScopeCall, CallStages

LEMMA EnsuredTyped ==
  ASSUME NEW status \in [ApiKeys -> {"none", "pending", "ready", "failed"}]
  PROVE  Ensured(status) \in [ApiKeys -> {"none", "pending", "ready", "failed"}]
BY DEF Ensured

LEMMA NewGroupsTyped ==
  ASSUME NEW status, owner \in [WhCodes -> ApiKeys \cup {NoKey}]
  PROVE  NewGroups(status) \subseteq ApiKeys
BY DEF NewGroups, Owners

LEMMA ScopeInitTyped == ScopeInit => ScopeTypeOK
<1> SUFFICES ASSUME ScopeInit PROVE ScopeTypeOK
  OBVIOUS
<1>1. scopeStatus \in [ApiKeys -> {"none", "pending", "ready", "failed"}]
  <2>1. [k \in ApiKeys |-> "none"] \in [ApiKeys -> {"none", "pending", "ready", "failed"}]
    OBVIOUS
  <2> QED  BY <2>1, EnsuredTyped DEF ScopeInit
<1>2. call \in [Callers -> ScopeCall]
  BY IdleIsCall DEF ScopeInit
<1> QED  BY <1>1, <1>2, ScopeAssumption, NewGroupsTyped DEF ScopeInit, ScopeTypeOK, ScopeCall, CallStages, ScopeAssumption

(* A call that goes on is one of the calls still. *)
LEMMA GoesTyped ==
  ASSUME ScopeTypeOK, NEW c \in Callers, NEW at \in CallStages, Goes(c, at)
  PROVE  call' \in [Callers -> ScopeCall]
BY DEF ScopeTypeOK, Goes, ScopeCall, CallStages

LEMMA TroubleTyped ==
  ASSUME ScopeTypeOK
  PROVE  /\ Trouble => troubles' \in 0 .. MaxTroubles
         /\ Request => requested' \in 0 .. MaxRequests
BY ScopeAssumption DEF ScopeTypeOK, Trouble, Request, ScopeAssumption

LEMMA RefreshTyped ==
  ASSUME ScopeTypeOK, NEW c \in Callers, NEW k \in ApiKeys, Refreshes(c, k)
  PROVE  held' \subseteq ApiKeys /\ call' \in [Callers -> ScopeCall]
BY DEF ScopeTypeOK, Refreshes, ScopeCall, CallStages

(* One step *)

LEMMA CallGoesOnTyped ==
  ASSUME ScopeTypeOK, NEW c \in Callers, CallGoesOn(c)
  PROVE  ScopeTypeOK'
<1> DEFINE k == call[c].key
<1>1. /\ scopeStatus \in [ApiKeys -> {"none", "pending", "ready", "failed"}]
      /\ active \subseteq ApiKeys /\ scope \in [ApiKeys -> SUBSET WhCodes]
      /\ owner \in [WhCodes -> ApiKeys \cup {NoKey}]
      /\ held \subseteq ApiKeys /\ due \subseteq ApiKeys
      /\ call \in [Callers -> ScopeCall] /\ call[c] \in ScopeCall
      /\ requested \in 0 .. MaxRequests /\ troubles \in 0 .. MaxTroubles
  BY DEF ScopeTypeOK, ScopeCall, CallStages
<1>2. CASE SaveScope(c)
  <2>1. call' \in [Callers -> ScopeCall]
    <3>1. Goes(c, "register") \/ Goes(c, "fail")
      BY <1>2 DEF SaveScope
    <3> QED  BY <3>1, GoesTyped DEF CallStages
  <2> QED  BY <1>1, <1>2, <2>1 DEF SaveScope, ScopeTypeOK, ScopeCall, CallStages
<1>3. CASE RegisterWarehouses(c)
  <2>1. call' \in [Callers -> ScopeCall]
    <3>1. Goes(c, "release") \/ Goes(c, "done")
      BY <1>3 DEF RegisterWarehouses, After
    <3> QED  BY <3>1, GoesTyped DEF CallStages
  <2>2. owner' \in [WhCodes -> ApiKeys \cup {NoKey}]
    BY <1>1, <1>3 DEF RegisterWarehouses, ScopeCall
  <2> QED  BY <1>1, <1>3, <2>1, <2>2 DEF RegisterWarehouses, ScopeTypeOK, ScopeCall, CallStages
<1>4. CASE SaveFailure(c)
  <2>1. call' \in [Callers -> ScopeCall]
    BY <1>4, GoesTyped DEF SaveFailure, CallStages
  <2> QED  BY <1>1, <1>4, <2>1 DEF SaveFailure, ScopeTypeOK, ScopeCall, CallStages
<1>5. CASE DeleteScope(c)
  <2>1. call' \in [Callers -> ScopeCall]
    BY <1>5, GoesTyped DEF DeleteScope, CallStages
  <2> QED  BY <1>1, <1>5, <2>1 DEF DeleteScope, ScopeTypeOK, ScopeCall, CallStages
<1>6. CASE CallEnds(c)
  <2>1. call' \in [Callers -> ScopeCall]
    BY <1>1, <1>6, IdleIsCall DEF CallEnds
  <2> QED  BY <1>1, <1>6, <2>1 DEF CallEnds, scopeTables, ScopeTypeOK, ScopeCall, CallStages
<1> QED  BY <1>2, <1>3, <1>4, <1>5, <1>6 DEF CallGoesOn

LEMMA ScopeStepTyped ==
  ASSUME ScopeTypeOK, [ScopeNext]_scopeVars
  PROVE  ScopeTypeOK'
<1>1. /\ scopeStatus \in [ApiKeys -> {"none", "pending", "ready", "failed"}]
      /\ active \subseteq ApiKeys /\ scope \in [ApiKeys -> SUBSET WhCodes]
      /\ owner \in [WhCodes -> ApiKeys \cup {NoKey}]
      /\ held \subseteq ApiKeys /\ due \subseteq ApiKeys
      /\ call \in [Callers -> ScopeCall]
      /\ requested \in 0 .. MaxRequests /\ troubles \in 0 .. MaxTroubles
  BY DEF ScopeTypeOK, ScopeCall, CallStages
<1>2. Requests \subseteq Callers /\ Refresher \in Callers
  BY DEF Callers
<1>3. ASSUME NEW c \in Callers, CallGoesOn(c) PROVE ScopeTypeOK'
  BY <1>3, CallGoesOnTyped
<1>4. ASSUME NEW c \in Callers, ScopeFails(c) PROVE ScopeTypeOK'
  <2>1. call' \in [Callers -> ScopeCall]
    <3>1. Goes(c, "fail") \/ Goes(c, "done") \/ Goes(c, "release")
      BY <1>4 DEF ScopeFails, DiscoveryFails, RegistrationFails, FailureIsLost
    <3> QED  BY <3>1, GoesTyped DEF CallStages
  <2>2. Trouble /\ UNCHANGED <<scopeTables, held, due, requested>>
    BY <1>4 DEF ScopeFails, DiscoveryFails, RegistrationFails, FailureIsLost
  <2> QED  BY <1>1, <2>1, <2>2, TroubleTyped DEF scopeTables, ScopeTypeOK, ScopeCall, CallStages
<1>5. CASE PassLists
  BY <1>1, <1>5 DEF PassLists, scopeTables, ScopeTypeOK, ScopeCall, CallStages
<1>6. ASSUME NEW k \in ApiKeys, PassGoesOn(k) PROVE ScopeTypeOK'
  <2>1. held' \subseteq ApiKeys /\ call' \in [Callers -> ScopeCall]
    BY <1>1, <1>2, <1>6, RefreshTyped DEF PassGoesOn
  <2> QED  BY <1>1, <1>6, <2>1 DEF PassGoesOn, scopeTables, ScopeTypeOK, ScopeCall, CallStages
<1>7. ASSUME NEW c \in Requests, NEW k \in ApiKeys, AskForRefresh(c, k) PROVE ScopeTypeOK'
  <2>1. held' \subseteq ApiKeys /\ call' \in [Callers -> ScopeCall] /\ requested' \in 0 .. MaxRequests
    BY <1>2, <1>7, RefreshTyped, TroubleTyped DEF AskForRefresh
  <2> QED  BY <1>1, <1>7, <2>1 DEF AskForRefresh, scopeTables, ScopeTypeOK, ScopeCall, CallStages
<1>8. ASSUME NEW c \in Requests, NEW k \in ApiKeys, CreateScope(c, k) PROVE ScopeTypeOK'
  <2>1. call' \in [Callers -> ScopeCall] /\ requested' \in 0 .. MaxRequests
    BY <1>1, <1>2, <1>8, TroubleTyped DEF CreateScope, ScopeCall, CallStages
  <2> QED  BY <1>1, <1>8, <2>1 DEF CreateScope, ScopeTypeOK, ScopeCall, CallStages
<1>9. ASSUME NEW c \in Requests, NEW k \in ApiKeys, DeleteChecks(c, k) PROVE ScopeTypeOK'
  <2>1. call' \in [Callers -> ScopeCall] /\ requested' \in 0 .. MaxRequests
    BY <1>1, <1>2, <1>9, TroubleTyped DEF DeleteChecks, ScopeCall, CallStages
  <2> QED  BY <1>1, <1>9, <2>1 DEF DeleteChecks, scopeTables, ScopeTypeOK, ScopeCall, CallStages
<1>10. ASSUME NEW w \in WhCodes, NEW k \in ApiKeys, SaveWarehouse(w, k) PROVE ScopeTypeOK'
  BY <1>1, <1>10, TroubleTyped DEF SaveWarehouse, ScopeTypeOK, ScopeCall, CallStages
<1>11. CASE RestartScopes
  BY <1>1, <1>11, IdleIsCall, EnsuredTyped, NewGroupsTyped, TroubleTyped DEF RestartScopes, ScopeTypeOK, ScopeCall, CallStages
<1>12. CASE UNCHANGED scopeVars
  BY <1>12 DEF scopeVars, scopeTables, ScopeTypeOK
<1> QED
  BY <1>3, <1>4, <1>5, <1>6, <1>7, <1>8, <1>9, <1>10, <1>11, <1>12 DEF ScopeNext, Pass

--------------------------------------------------------------------------------
(* The services together, as the runs start them *)

(* The tables and the calls of every service are well typed in every behaviour about one *)
(* of them (syncer/service.go, syncer/api_inventory.go).                                 *)
THEOREM ServicesTyped == MCSpec => []ServicesTypeOK
<1> DEFINE Inv == TypeInv /\ ScopeTypeOK
<1>1. MCInit => Inv
  BY InitType, ScopeInitTyped DEF MCInit
<1>2. Inv /\ [MCNext]_<<syncVars, scopeVars, service>> => Inv'
  <2> SUFFICES ASSUME Inv, [MCNext]_<<syncVars, scopeVars, service>> PROVE Inv'
    OBVIOUS
  <2>1. [SyncNext]_syncVars /\ [ScopeNext]_scopeVars
    BY DEF MCNext, SyncNext
  <2> QED  BY <2>1, TypeStep, ScopeStepTyped
<1>3. Inv => ServicesTypeOK
  BY DEF TypeInv, ServicesTypeOK
<1> QED
  BY <1>1, <1>2, <1>3, PTL DEF MCSpec
================================================================================
