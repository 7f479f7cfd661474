------------------------------ MODULE OutboundSync ------------------------------
(***************************************************************************)
(* How the auditor keeps its index of outbound orders complete: for each   *)
(* XLWMS account a watermark, up to which orders were read hour by hour,   *)
(* and the windows (hours) that were read.  Every Check first advances the *)
(* watermarks to the last complete hour, then reads the older hours the    *)
(* open audits need.  A start of the program replays its migration, which  *)
(* takes every hour between the coverage start and the watermark for read. *)
(*                                                                         *)
(* Times are whole hours: the program truncates them before it uses them.  *)
(***************************************************************************)
EXTENDS Integers, FiniteSets

CONSTANTS
  Accounts,     \* distinct (api_base_url, app_key) of the active credentials
  Lookback,     \* outboundBootstrapLookback, in hours
  StartHour,    \* the hour of the installation
  MaxHour,      \* bound of the model: the last hour
  MaxFailures,  \* bound of the model: reads or saves that fail
  MaxRestarts,  \* bound of the model
  NoHour, NoAccount

ASSUME TimesAssumption ==
  /\ Lookback \in Nat \ {0} /\ StartHour \in Nat /\ MaxHour \in Nat
  /\ StartHour <= MaxHour /\ Lookback <= StartHour

ASSUME BoundsAssumption == MaxFailures \in Nat /\ MaxRestarts \in Nat

ASSUME NamesAssumption == NoHour \notin Int /\ NoAccount \notin Accounts

Hours == 0 .. MaxHour

VARIABLES
  clock,          \* the current hour, which is not complete
  needed,         \* the hours the open audits were shipped or created in
  watermark,      \* [Accounts -> Hours \cup {NoHour}]: watermark_at
  coverageStart,  \* [Accounts -> Hours \cup {NoHour}]: coverage_started_at
  windows,        \* [Accounts -> SUBSET Hours]: xlwms_outbound_sync_windows
  phase,          \* of Check: "idle", "forward" or "backfill"
  through,        \* the end of the last complete hour when Check began
  left,           \* accounts whose watermark Check has not looked at yet
  current,        \* the account it advances
  cursor,         \* the next hour of that account
  todo,           \* hours and accounts the backfill has still to consider
  failures, restarts,
  fetched         \* history: the hours of an account that were read and saved

tables == <<watermark, coverageStart, windows, fetched>>
check == <<phase, through, left, current, cursor, todo>>
world == <<clock, needed>>
vars == <<world, tables, check, failures, restarts>>

Init ==
  /\ clock = StartHour
  /\ needed = {}
  /\ watermark = [acc \in Accounts |-> NoHour]
  /\ coverageStart = [acc \in Accounts |-> NoHour]
  /\ windows = [acc \in Accounts |-> {}]
  /\ phase = "idle" /\ through = StartHour
  /\ left = {} /\ current = NoAccount /\ cursor = 0 /\ todo = {}
  /\ failures = 0 /\ restarts = 0
  /\ fetched = [acc \in Accounts |-> {}]

--------------------------------------------------------------------------------
(* Mutant: the window that was saved last is the watermark. *)
LaterOfLast(old, new) == new

LaterOf(old, new) == IF old = NoHour \/ new > old THEN new ELSE old

EarlierOf(old, new) == IF old = NoHour \/ new < old THEN new ELSE old

(* SaveOutboundSyncWindow: one transaction for the records, the window and the watermark. *)
SaveWindow(acc, hour) ==
  /\ windows' = [windows EXCEPT ![acc] = @ \cup {hour}]
  /\ watermark' = [watermark EXCEPT ![acc] = LaterOf(@, hour + 1)]
  /\ coverageStart' = [coverageStart EXCEPT ![acc] = EarlierOf(@, hour)]
  /\ fetched' = [fetched EXCEPT ![acc] = @ \cup {hour}]

(* outboundSyncCursor *)
Cursor(mark) == IF mark = NoHour THEN through - Lookback ELSE mark - 1

(* A read or save fails: what follows in Check goes on without it. *)
Failure == failures < MaxFailures /\ failures' = failures + 1

--------------------------------------------------------------------------------
(* syncOutboundOrders *)

StartCheck ==
  /\ phase = "idle"
  /\ phase' = "forward"
  /\ through' = clock
  /\ left' = Accounts
  /\ UNCHANGED <<world, tables, current, cursor, todo, failures, restarts>>

ReadWatermark(acc) ==
  /\ phase = "forward" /\ current = NoAccount /\ acc \in left
  /\ left' = left \ {acc}
  /\ current' = acc
  /\ cursor' = Cursor(watermark[acc])
  /\ UNCHANGED <<world, tables, phase, through, todo, failures, restarts>>

WatermarkUnread(acc) ==
  /\ phase = "forward" /\ current = NoAccount /\ acc \in left
  /\ Failure
  /\ left' = left \ {acc}
  /\ UNCHANGED <<world, tables, phase, through, current, cursor, todo, restarts>>

(* Mutant: the last window is left to the next Check. *)
AdvancingShort == phase = "forward" /\ current \in Accounts /\ cursor + 1 < through

Advancing == phase = "forward" /\ current \in Accounts /\ cursor < through

ForwardWindow ==
  /\ Advancing
  /\ SaveWindow(current, cursor)
  /\ cursor' = cursor + 1
  /\ UNCHANGED <<world, phase, through, left, current, todo, failures, restarts>>

(* The account is left where it is, the others are still advanced. *)
ForwardFails ==
  /\ Advancing
  /\ Failure
  /\ current' = NoAccount
  /\ UNCHANGED <<world, tables, phase, through, left, cursor, todo, restarts>>

AccountAdvanced ==
  /\ phase = "forward" /\ current \in Accounts /\ ~Advancing
  /\ current' = NoAccount
  /\ UNCHANGED <<world, tables, phase, through, left, cursor, todo, failures, restarts>>

--------------------------------------------------------------------------------
(* syncRequiredOutboundWindows *)

(* Mutant: the hours next to a needed one are not read. *)
RequiredAlone == {hour \in Hours : hour < through /\ hour \in needed}

Around(need) == (need - 1) .. (need + 1)

(* Mutant: the hour after a complete one is read although it is not complete. *)
RequiredAnyhow ==
  {hour \in Hours : \E need \in needed : need < through /\ hour \in Around(need)}

(* expandOutboundCoverageHours of FulfillmentAuditCoverageHours *)
Required ==
  {hour \in Hours : hour < through /\ \E need \in needed : need < through /\ hour \in Around(need)}

ForwardDone == phase = "forward" /\ current = NoAccount /\ left = {}

StartBackfill ==
  /\ ForwardDone
  /\ phase' = "backfill"
  /\ todo' = Required \X Accounts
  /\ UNCHANGED <<world, tables, through, left, current, cursor, failures, restarts>>

HoursUnread ==
  /\ ForwardDone
  /\ Failure
  /\ phase' = "idle"
  /\ UNCHANGED <<world, tables, through, left, current, cursor, todo, restarts>>

(* The latest hour first, one account after the other. *)
Considered(hour, acc) ==
  /\ phase = "backfill"
  /\ <<hour, acc>> \in todo
  /\ \A pair \in todo : pair[1] <= hour
  /\ todo' = todo \ {<<hour, acc>>}

(* OutboundWindowCovered *)
Covered(hour, acc) == hour \in windows[acc]

SkipCovered(hour, acc) ==
  /\ Considered(hour, acc)
  /\ Covered(hour, acc)
  /\ UNCHANGED <<world, tables, phase, through, left, current, cursor, failures, restarts>>

BackfillWindow(hour, acc) ==
  /\ Considered(hour, acc)
  /\ ~Covered(hour, acc)
  /\ SaveWindow(acc, hour)
  /\ UNCHANGED <<world, phase, through, left, current, cursor, failures, restarts>>

BackfillFails(hour, acc) ==
  /\ Considered(hour, acc)
  /\ Failure
  /\ UNCHANGED <<world, tables, phase, through, left, current, cursor, restarts>>

EndCheck ==
  /\ phase = "backfill" /\ todo = {}
  /\ phase' = "idle"
  /\ UNCHANGED <<world, tables, through, left, current, cursor, todo, failures, restarts>>

--------------------------------------------------------------------------------
(* The world *)

(* Mutant: the hour the watermark stands at is taken for read. *)
SeededInclusive(acc) ==
  IF watermark[acc] = NoHour THEN {} ELSE coverageStart[acc] .. watermark[acc]

(* What the migration inserts; the update before it has no row without a coverage start. *)
Seeded(acc) ==
  IF watermark[acc] = NoHour THEN {} ELSE coverageStart[acc] .. (watermark[acc] - 1)

(* The program stops anywhere and starts again: Migrate. *)
Restart ==
  /\ restarts < MaxRestarts
  /\ restarts' = restarts + 1
  /\ windows' = [acc \in Accounts |-> windows[acc] \cup Seeded(acc)]
  /\ phase' = "idle"
  /\ left' = {} /\ current' = NoAccount /\ cursor' = 0 /\ todo' = {}
  /\ UNCHANGED <<world, watermark, coverageStart, through, failures, fetched>>

Tick ==
  /\ clock < MaxHour
  /\ clock' = clock + 1
  /\ UNCHANGED <<needed, tables, check, failures, restarts>>

(* An audit of that hour is opened, or the last one is closed. *)
Need(hour) ==
  /\ hour <= clock
  /\ needed' = needed \cup {hour}
  /\ UNCHANGED <<clock, tables, check, failures, restarts>>

NeedNoMore(hour) ==
  /\ needed' = needed \ {hour}
  /\ UNCHANGED <<clock, tables, check, failures, restarts>>

Proceeds ==
  \/ StartCheck \/ ForwardWindow \/ AccountAdvanced \/ StartBackfill \/ EndCheck
  \/ \E acc \in Accounts :
       \/ ReadWatermark(acc)
       \/ \E hour \in Hours : SkipCovered(hour, acc) \/ BackfillWindow(hour, acc)

Fails ==
  \/ ForwardFails \/ HoursUnread
  \/ \E acc \in Accounts :
       \/ WatermarkUnread(acc)
       \/ \E hour \in Hours : BackfillFails(hour, acc)

Next ==
  \/ Proceeds \/ Fails \/ Restart \/ Tick
  \/ \E hour \in Hours : Need(hour) \/ NeedNoMore(hour)

Spec == Init /\ [][Next]_vars

(* The timer starts Check again and again; reads that fail are followed by reads that do not. *)
FairSpec == Spec /\ WF_vars(Proceeds)
--------------------------------------------------------------------------------
(* Properties *)

TypeOK ==
  /\ clock \in Hours /\ needed \subseteq Hours
  /\ watermark \in [Accounts -> Hours \cup {NoHour}]
  /\ coverageStart \in [Accounts -> Hours \cup {NoHour}]
  /\ windows \in [Accounts -> SUBSET Hours] /\ fetched \in [Accounts -> SUBSET Hours]
  /\ phase \in {"idle", "forward", "backfill"}
  /\ through \in Hours /\ left \subseteq Accounts
  /\ current \in Accounts \cup {NoAccount} /\ cursor \in Hours
  /\ todo \subseteq Hours \X Accounts
  /\ failures \in 0 .. MaxFailures /\ restarts \in 0 .. MaxRestarts

(* The watermark of an account is the end of an hour that was read, the coverage begins   *)
(* with one, and what counts as read lies between them: a restart, which trusts the two,  *)
(* never takes the hour under way or an hour before the first for read.                   *)
CoverageIsBounded ==
  \A acc \in Accounts :
    IF watermark[acc] = NoHour THEN coverageStart[acc] = NoHour /\ windows[acc] = {}
    ELSE /\ watermark[acc] <= clock
         /\ watermark[acc] - 1 \in fetched[acc] /\ coverageStart[acc] \in fetched[acc]
         /\ windows[acc] \subseteq coverageStart[acc] .. (watermark[acc] - 1)

(* Reading old hours after new ones never moves a watermark back nor shortens a coverage. *)
CoverageNeverShrinks ==
  [][\A acc \in Accounts : watermark[acc] # NoHour =>
       /\ watermark'[acc] # NoHour /\ watermark'[acc] >= watermark[acc]
       /\ coverageStart'[acc] # NoHour /\ coverageStart'[acc] <= coverageStart[acc]
       /\ windows[acc] \subseteq windows'[acc]]_vars

(* What counts as read was read. *)
CoveredWasFetched == \A acc \in Accounts : windows[acc] \subseteq fetched[acc]

(* Failures of one account or one hour never keep an account from being advanced for good. *)
ForwardCatchesUp ==
  \A hour \in StartHour .. MaxHour :
    clock = hour ~> \A acc \in Accounts : watermark[acc] # NoHour /\ watermark[acc] >= hour

(* An hour an open audit was shipped in, and the hours next to it, count as read in the end. *)
NeededIsCovered ==
  \A need \in 0 .. (MaxHour - 1) : \A hour \in Around(need) \cap 0 .. (MaxHour - 1) :
    (need \in needed /\ need < clock /\ hour < clock)
      ~> (need \notin needed \/ \A acc \in Accounts : hour \in windows[acc])
================================================================================
