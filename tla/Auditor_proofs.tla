----------------------------- MODULE Auditor_proofs -----------------------------
(***************************************************************************)
(* Theorems about what the auditor keeps besides the audits: the index of  *)
(* outbound orders (OutboundSync.tla), for every set of accounts, every    *)
(* lookback and any number of hours, failures and restarts, and the        *)
(* rotation of the tracking queues (TrackingQueue.tla), for every set of   *)
(* audits, every length of a batch and every number of workers.  That an   *)
(* account catches up and no order waits for ever is liveness, which only  *)
(* TLC checks.                                                             *)
(***************************************************************************)
EXTENDS MC_Auditor, FiniteSetTheorems, TLAPS

(* What Check has copied of the clock and of the open audits stays behind the clock. *)
CheckInv ==
  /\ StartHour <= through /\ through <= clock
  /\ \A pair \in todo : pair[1] < through

IInv == TypeOK /\ CoverageIsBounded /\ CheckInv

(* The row of one account. *)
Bounded(acc) ==
  IF watermark[acc] = NoHour THEN coverageStart[acc] = NoHour /\ windows[acc] = {}
  ELSE /\ watermark[acc] <= clock
       /\ watermark[acc] - 1 \in fetched[acc] /\ coverageStart[acc] \in fetched[acc]
       /\ windows[acc] \subseteq coverageStart[acc] .. (watermark[acc] - 1)

TablesType ==
  /\ watermark \in [Accounts -> Hours \cup {NoHour}]
  /\ coverageStart \in [Accounts -> Hours \cup {NoHour}]
  /\ windows \in [Accounts -> SUBSET Hours] /\ fetched \in [Accounts -> SUBSET Hours]

(* How the tables of an account grow. *)
Grows(acc) ==
  watermark[acc] # NoHour =>
    /\ watermark'[acc] # NoHour /\ watermark'[acc] >= watermark[acc]
    /\ coverageStart'[acc] # NoHour /\ coverageStart'[acc] <= coverageStart[acc]
    /\ windows[acc] \subseteq windows'[acc]

--------------------------------------------------------------------------------
LEMMA NoHourIsNone == NoHour \notin Hours
BY NamesAssumption DEF Hours

LEMMA InitInv == Init => IInv
BY TimesAssumption, BoundsAssumption, NamesAssumption
DEF Init, IInv, TypeOK, CoverageIsBounded, CheckInv, Hours

(* Saving a complete hour keeps the tables of every account bounded, and only adds to them. *)
LEMMA SaveStep ==
  ASSUME IInv, NEW acc \in Accounts, NEW hour \in Hours, hour < through,
         SaveWindow(acc, hour), clock' = clock
  PROVE  TablesType' /\ CoverageIsBounded' /\ \A a \in Accounts : Grows(a)
<1> /\ hour + 1 \in Hours /\ hour + 1 <= clock
  BY TimesAssumption DEF IInv, TypeOK, CheckInv, Hours
<1>1. /\ watermark' = [watermark EXCEPT ![acc] = LaterOf(watermark[acc], hour + 1)]
      /\ coverageStart' = [coverageStart EXCEPT ![acc] = EarlierOf(coverageStart[acc], hour)]
      /\ windows' = [windows EXCEPT ![acc] = windows[acc] \cup {hour}]
      /\ fetched' = [fetched EXCEPT ![acc] = fetched[acc] \cup {hour}]
  BY DEF SaveWindow, IInv, TypeOK
<1>2. TablesType'
  BY <1>1 DEF TablesType, LaterOf, EarlierOf, IInv, TypeOK
<1>3. Bounded(acc)' /\ Grows(acc)
  <2>1. CASE watermark[acc] = NoHour
    <3>1. coverageStart[acc] = NoHour /\ windows[acc] = {}
      BY <2>1 DEF IInv, CoverageIsBounded
    <3>2. /\ watermark'[acc] = hour + 1 /\ coverageStart'[acc] = hour
          /\ windows'[acc] = {hour} /\ hour \in fetched'[acc]
      BY <1>1, <2>1, <3>1 DEF LaterOf, EarlierOf, IInv, TypeOK
    <3> QED
      BY <2>1, <3>2, NoHourIsNone DEF Bounded, Grows, Hours
  <2>2. CASE watermark[acc] # NoHour
    <3>1. /\ watermark[acc] \in Hours /\ watermark[acc] <= clock
          /\ watermark[acc] - 1 \in fetched[acc] /\ coverageStart[acc] \in fetched[acc]
          /\ windows[acc] \subseteq coverageStart[acc] .. (watermark[acc] - 1)
      BY <2>2 DEF IInv, TypeOK, CoverageIsBounded
    <3>2. coverageStart[acc] \in Hours /\ coverageStart[acc] # NoHour
      BY <3>1, NoHourIsNone DEF IInv, TypeOK
    <3>3. /\ watermark'[acc] = IF hour + 1 > watermark[acc] THEN hour + 1 ELSE watermark[acc]
          /\ coverageStart'[acc] = IF hour < coverageStart[acc] THEN hour ELSE coverageStart[acc]
          /\ windows'[acc] = windows[acc] \cup {hour} /\ fetched'[acc] = fetched[acc] \cup {hour}
      BY <1>1, <2>2, <3>2 DEF LaterOf, EarlierOf, IInv, TypeOK
    <3>4. /\ watermark'[acc] \in Hours /\ coverageStart'[acc] \in Hours
          /\ watermark'[acc] >= watermark[acc] /\ watermark'[acc] >= hour + 1
          /\ coverageStart'[acc] <= coverageStart[acc] /\ coverageStart'[acc] <= hour
          /\ watermark'[acc] <= clock
      BY <3>1, <3>2, <3>3 DEF Hours, IInv, TypeOK
    <3>5. watermark'[acc] - 1 \in fetched'[acc] /\ coverageStart'[acc] \in fetched'[acc]
      BY <3>1, <3>2, <3>3 DEF Hours
    <3>6. windows'[acc] \subseteq coverageStart'[acc] .. (watermark'[acc] - 1)
      BY <3>1, <3>2, <3>3, <3>4 DEF Hours
    <3>7. watermark'[acc] # NoHour /\ coverageStart'[acc] # NoHour
      BY <3>4, NoHourIsNone
    <3> QED
      BY <3>3, <3>4, <3>5, <3>6, <3>7 DEF Bounded, Grows
  <2> QED
    BY <2>1, <2>2
<1>4. ASSUME NEW a \in Accounts, a # acc  PROVE Bounded(a)' /\ Grows(a)
  <2>1. /\ watermark'[a] = watermark[a] /\ coverageStart'[a] = coverageStart[a]
        /\ windows'[a] = windows[a] /\ fetched'[a] = fetched[a]
    BY <1>1, <1>4 DEF IInv, TypeOK
  <2>2. Bounded(a)
    BY DEF Bounded, IInv, CoverageIsBounded
  <2>3. watermark[a] # NoHour => watermark[a] \in Hours /\ coverageStart[a] \in Hours
    BY <2>2, NoHourIsNone DEF Bounded, IInv, TypeOK
  <2> QED
    BY <2>1, <2>2, <2>3, NoHourIsNone DEF Bounded, Grows, Hours
<1> QED
  BY <1>2, <1>3, <1>4 DEF CoverageIsBounded, Bounded

(* The migration of a restart fills the range up, and adds nothing outside of it. *)
LEMMA RestartStep ==
  ASSUME IInv, Restart
  PROVE  TablesType' /\ CoverageIsBounded' /\ \A a \in Accounts : Grows(a)
<1>1. /\ watermark' = watermark /\ coverageStart' = coverageStart /\ fetched' = fetched
      /\ clock' = clock
      /\ windows' = [acc \in Accounts |-> windows[acc] \cup Seeded(acc)]
  BY DEF Restart, world
<1>2. ASSUME NEW a \in Accounts
      PROVE  Bounded(a)' /\ Grows(a) /\ windows'[a] \subseteq Hours
  <2>1. Bounded(a) /\ windows'[a] = windows[a] \cup Seeded(a)
    BY <1>1 DEF Bounded, IInv, CoverageIsBounded
  <2>2. CASE watermark[a] = NoHour
    BY <1>1, <2>1, <2>2 DEF Bounded, Grows, Seeded
  <2>3. CASE watermark[a] # NoHour
    <3>1. watermark[a] \in Hours /\ coverageStart[a] \in Hours /\ coverageStart[a] # NoHour
      BY <2>1, <2>3, NoHourIsNone DEF Bounded, IInv, TypeOK
    <3>2. Seeded(a) = coverageStart[a] .. (watermark[a] - 1)
      BY <2>3 DEF Seeded
    <3>3. Bounded(a)'
      BY <1>1, <2>1, <2>3, <3>2 DEF Bounded
    <3>4. Grows(a)
      BY <1>1, <2>1, <2>3, <3>1 DEF Grows, Hours
    <3>5. windows'[a] \subseteq Hours
      <4>1. windows[a] \subseteq Hours
        BY DEF IInv, TypeOK
      <4>2. coverageStart[a] .. (watermark[a] - 1) \subseteq Hours
        <5>1. ASSUME NEW low \in Hours, NEW high \in Hours  PROVE low .. (high - 1) \subseteq Hours
          BY TimesAssumption DEF Hours
        <5> QED
          BY <3>1, <5>1
      <4> QED
        BY <2>1, <3>2, <4>1, <4>2
    <3> QED
      BY <3>3, <3>4, <3>5
  <2> QED
    BY <2>2, <2>3
<1> QED
  BY <1>1, <1>2 DEF TablesType, CoverageIsBounded, Bounded, IInv, TypeOK

(* A step that writes no table leaves them bounded while the clock goes on. *)
LEMMA IdleStep ==
  ASSUME IInv, UNCHANGED tables, clock' \in Hours, clock <= clock'
  PROVE  TablesType' /\ CoverageIsBounded' /\ \A a \in Accounts : Grows(a)
<1>1. /\ watermark' = watermark /\ coverageStart' = coverageStart
      /\ windows' = windows /\ fetched' = fetched
  BY DEF tables
<1>2. ASSUME NEW a \in Accounts  PROVE Bounded(a)' /\ Grows(a)
  <2>1. Bounded(a)
    BY DEF Bounded, IInv, CoverageIsBounded
  <2>2. watermark[a] # NoHour => watermark[a] \in Hours /\ coverageStart[a] \in Hours
    BY <2>1, NoHourIsNone DEF Bounded, IInv, TypeOK
  <2> QED
    BY <1>1, <2>1, <2>2, NoHourIsNone DEF Bounded, Grows, Hours, IInv, TypeOK
<1> QED
  BY <1>1, <1>2 DEF TablesType, CoverageIsBounded, Bounded, IInv, TypeOK

--------------------------------------------------------------------------------
(* One step *)

CheckType ==
  /\ phase \in {"idle", "forward", "backfill"}
  /\ through \in Hours /\ left \subseteq Accounts
  /\ current \in Accounts \cup {NoAccount} /\ cursor \in Hours
  /\ todo \subseteq Hours \X Accounts
  /\ failures \in 0 .. MaxFailures /\ restarts \in 0 .. MaxRestarts

LEMMA TableStep ==
  ASSUME IInv, Next
  PROVE  TablesType' /\ CoverageIsBounded' /\ \A a \in Accounts : Grows(a)
<1> clock \in Hours
  BY DEF IInv, TypeOK
<1>1. CASE ForwardWindow
  <2>1. current \in Accounts /\ cursor \in Hours /\ cursor < through /\ clock' = clock
    BY <1>1 DEF ForwardWindow, Advancing, world, IInv, TypeOK
  <2> QED
    BY <1>1, <2>1, SaveStep DEF ForwardWindow
<1>2. ASSUME NEW acc \in Accounts, NEW hour \in Hours, BackfillWindow(hour, acc)
      PROVE  TablesType' /\ CoverageIsBounded' /\ \A a \in Accounts : Grows(a)
  <2>1. <<hour, acc>> \in todo /\ clock' = clock
    BY <1>2 DEF BackfillWindow, Considered, world
  <2>2. hour < through
    BY <2>1 DEF IInv, CheckInv
  <2> QED
    BY <1>2, <2>1, <2>2, SaveStep DEF BackfillWindow
<1>3. CASE Restart
  BY <1>3, RestartStep
<1>4. CASE UNCHANGED tables /\ clock' \in Hours /\ clock <= clock'
  BY <1>4, IdleStep
<1>5. \/ ForwardWindow \/ Restart
      \/ \E acc \in Accounts, hour \in Hours : BackfillWindow(hour, acc)
      \/ UNCHANGED <<tables, clock>>
      \/ Tick
  BY DEF Next, Proceeds, Fails, StartCheck, ReadWatermark, WatermarkUnread, ForwardFails,
         AccountAdvanced, StartBackfill, HoursUnread, SkipCovered, BackfillFails, EndCheck,
         Need, NeedNoMore, world
<1>6. Tick => UNCHANGED tables /\ clock' \in Hours /\ clock <= clock'
  BY TimesAssumption DEF Tick, Hours
<1>7. UNCHANGED <<tables, clock>> => UNCHANGED tables /\ clock' \in Hours /\ clock <= clock'
  BY DEF Hours
<1> QED
  BY <1>1, <1>2, <1>3, <1>4, <1>5, <1>6, <1>7

LEMMA CursorType ==
  ASSUME IInv, NEW acc \in Accounts
  PROVE  Cursor(watermark[acc]) \in Hours
<1>1. CASE watermark[acc] = NoHour
  BY <1>1, TimesAssumption DEF Cursor, IInv, TypeOK, CheckInv, Hours
<1>2. CASE watermark[acc] # NoHour
  <2>1. watermark[acc] - 1 \in fetched[acc]
    BY <1>2 DEF IInv, CoverageIsBounded
  <2> QED
    BY <1>2, <2>1 DEF Cursor, IInv, TypeOK
<1> QED
  BY <1>1, <1>2

LEMMA CheckStep ==
  ASSUME IInv, Next
  PROVE  CheckType' /\ CheckInv' /\ clock' \in Hours /\ needed' \subseteq Hours
<1> USE TimesAssumption, BoundsAssumption
<1>1. CASE StartCheck
  <2>1. todo' = todo /\ through' = clock /\ clock' = clock /\ through <= clock
    BY <1>1 DEF StartCheck, world, IInv, CheckInv
  <2>2. StartHour <= clock /\ \A pair \in todo : pair[1] < clock
    BY <2>1 DEF IInv, CheckInv, TypeOK, Hours
  <2> QED
    BY <1>1, <2>1, <2>2 DEF StartCheck, world, CheckType, IInv, TypeOK, CheckInv, Hours
<1>2. ASSUME NEW acc \in Accounts, ReadWatermark(acc)
      PROVE  CheckType' /\ CheckInv' /\ clock' \in Hours /\ needed' \subseteq Hours
  <2>1. cursor' \in Hours
    BY <1>2, CursorType DEF ReadWatermark
  <2> QED
    BY <1>2, <2>1 DEF ReadWatermark, world, CheckType, IInv, TypeOK, CheckInv
<1>3. ASSUME NEW acc \in Accounts, WatermarkUnread(acc)
      PROVE  CheckType' /\ CheckInv' /\ clock' \in Hours /\ needed' \subseteq Hours
  BY <1>3 DEF WatermarkUnread, Failure, world, CheckType, IInv, TypeOK, CheckInv
<1>4. CASE ForwardWindow
  BY <1>4 DEF ForwardWindow, Advancing, world, CheckType, IInv, TypeOK, CheckInv, Hours
<1>5. CASE ForwardFails \/ HoursUnread \/ AccountAdvanced
  BY <1>5 DEF ForwardFails, HoursUnread, AccountAdvanced, Failure, world, CheckType, IInv,
              TypeOK, CheckInv
<1>6. CASE StartBackfill
  <2>1. Required \subseteq Hours /\ \A hour \in Required : hour < through
    BY DEF Required
  <2> QED
    BY <1>6, <2>1 DEF StartBackfill, world, CheckType, IInv, TypeOK, CheckInv
<1>7. ASSUME NEW acc \in Accounts, NEW hour \in Hours,
             SkipCovered(hour, acc) \/ BackfillWindow(hour, acc) \/ BackfillFails(hour, acc)
      PROVE  CheckType' /\ CheckInv' /\ clock' \in Hours /\ needed' \subseteq Hours
  BY <1>7 DEF SkipCovered, BackfillWindow, BackfillFails, Considered, Failure, world,
              CheckType, IInv, TypeOK, CheckInv
<1>8. CASE EndCheck
  BY <1>8 DEF EndCheck, world, CheckType, IInv, TypeOK, CheckInv
<1>9. CASE Restart
  BY <1>9 DEF Restart, world, CheckType, IInv, TypeOK, CheckInv, Hours
<1>10. CASE Tick
  BY <1>10 DEF Tick, check, CheckType, IInv, TypeOK, CheckInv, Hours
<1>11. ASSUME NEW hour \in Hours, Need(hour) \/ NeedNoMore(hour)
       PROVE  CheckType' /\ CheckInv' /\ clock' \in Hours /\ needed' \subseteq Hours
  BY <1>11 DEF Need, NeedNoMore, check, CheckType, IInv, TypeOK, CheckInv
<1> QED
  BY <1>1, <1>2, <1>3, <1>4, <1>5, <1>6, <1>7, <1>8, <1>9, <1>10, <1>11
  DEF Next, Proceeds, Fails

LEMMA StepInv == IInv /\ [Next]_vars => IInv'
<1>1. CASE Next
  BY <1>1, TableStep, CheckStep DEF IInv, TypeOK, TablesType, CheckType
<1>2. CASE UNCHANGED vars
  BY <1>2 DEF vars, world, tables, check, IInv, TypeOK, CoverageIsBounded, CheckInv
<1> QED
  BY <1>1, <1>2

THEOREM Invariance == Spec => []IInv
BY InitInv, StepInv, PTL DEF Spec

(* Every reachable state is well typed. *)
THEOREM TypeCorrect == Spec => []TypeOK
<1>1. IInv => TypeOK
  BY DEF IInv
<1> QED
  BY <1>1, Invariance, PTL

(* Watermark and coverage start are ends of hours that were read, with every window between. *)
THEOREM CoverageStaysBounded == Spec => []CoverageIsBounded
<1>1. IInv => CoverageIsBounded
  BY DEF IInv
<1> QED
  BY <1>1, Invariance, PTL

(* No window saved late, no failure and no restart moves a watermark back. *)
THEOREM CoverageGrows == Spec => CoverageNeverShrinks
<1>1. IInv /\ [Next]_vars =>
        [\A acc \in Accounts : watermark[acc] # NoHour =>
           /\ watermark'[acc] # NoHour /\ watermark'[acc] >= watermark[acc]
           /\ coverageStart'[acc] # NoHour /\ coverageStart'[acc] <= coverageStart[acc]
           /\ windows[acc] \subseteq windows'[acc]]_vars
  BY TableStep DEF Grows
<1> QED
  BY <1>1, Invariance, PTL DEF Spec, CoverageNeverShrinks

--------------------------------------------------------------------------------
(* The tracking queues *)

(* The types TLC checks, with the membership of the function written out. *)
LEMMA TrackingInit == TrackInit => TrackTypeOK
BY IdsAssumption, LimitsAssumption DEF TrackInit, TrackTypeOK, Queues

LEMMA TrackingStep == TrackTypeOK /\ [TrackNext]_trackVars => TrackTypeOK'
<1> SUFFICES ASSUME TrackTypeOK, [TrackNext]_trackVars PROVE TrackTypeOK'
    OBVIOUS
<1> USE IdsAssumption, LimitsAssumption DEF TrackTypeOK, Queues
<1>1. CASE StartTracking
      BY <1>1 DEF StartTracking
<1>2. CASE ListQueue
      BY <1>2 DEF ListQueue, Candidates, After
<1>3. CASE AdvanceMark
  <2>1. turn \in Queues
        BY <1>3 DEF AdvanceMark, NextQueue, After, MarkMayMove, BatchDone
  <2>2. mark' \in [Queues -> Ids \cup {0}]
        BY <1>3 DEF AdvanceMark, Batch, First
  <2> QED BY <1>3, <2>2 DEF AdvanceMark, NextQueue, After
<1>4. CASE MarkStays
      BY <1>4 DEF MarkStays, NextQueue, After, Fault
<1>5. CASE RefreshTracking
      BY <1>5 DEF RefreshTracking, Refreshed
<1>6. ASSUME NEW i \in Ids, Store(i) PROVE TrackTypeOK'
      BY <1>6 DEF Store
<1>7. CASE ListFails
      BY <1>7 DEF ListFails, Fault, After
<1>8. CASE TrackingRestart
      BY <1>8 DEF TrackingRestart, Fault
<1>9. ASSUME NEW i \in Ids, StoreFails(i) \/ Enter(i) \/ Leave(i) PROVE TrackTypeOK'
  <2>1. CASE StoreFails(i)
        BY <2>1 DEF StoreFails, Fault
  <2>2. CASE Enter(i)
        BY <2>2 DEF Enter
  <2>3. CASE Leave(i)
        BY <2>3 DEF Leave, Fault
  <2> QED BY <1>9, <2>1, <2>2, <2>3
<1>10. CASE ListArchive
      BY <1>10 DEF ListArchive, Refreshed, Fault
<1>11. ASSUME NEW i \in Ids, RefreshStale(i) PROVE TrackTypeOK'
      BY <1>11 DEF RefreshStale, Fault
<1>12. CASE UNCHANGED trackVars
      BY <1>12 DEF trackVars
<1> QED BY <1>1, <1>2, <1>3, <1>4, <1>5, <1>6, <1>7, <1>8, <1>9, <1>10, <1>11, <1>12
       DEF TrackNext, TrackProceeds

(* The state of the queues has its type in every behaviour. *)
THEOREM TrackingTypes == TrackSpec => []TrackTypeOK
BY TrackingInit, TrackingStep, PTL DEF TrackSpec

--------------------------------------------------------------------------------
(* What comes before an order of the batch is in the batch too: the batch is a prefix of  *)
(* the candidates in the order of the rotation.                                           *)
LEMMA BatchIsPrefix ==
  ASSUME TrackTypeOK, turn \in Queues, NEW last \in Batch, NEW i \in listed,
         Before(mark[turn], i, last)
  PROVE  i \in Batch
<1> DEFINE Ahead(k) == {j \in listed : Before(mark[turn], j, k)}
<1>1. mark[turn] \in Int /\ i \in Int /\ last \in Int /\ (\A j \in listed : j \in Int)
  <2>1. last \in listed
        BY DEF Batch, First
  <2>2. \A j \in listed : j \in Int
        BY IdsAssumption DEF TrackTypeOK
  <2>3. mark[turn] \in Ids \cup {0}
        BY DEF TrackTypeOK
  <2>4. mark[turn] \in Int
    <3>1. \A n \in Ids \cup {0} : n \in Int
          BY IdsAssumption
    <3> QED BY <2>3, <3>1
  <2>5. i \in Int
        BY <2>2
  <2> QED BY <2>1, <2>2, <2>4, <2>5
<1>2. Ahead(i) \subseteq Ahead(last)
  <2> SUFFICES ASSUME NEW j \in listed, Before(mark[turn], j, i)
               PROVE  Before(mark[turn], j, last)
      OBVIOUS
  <2> HIDE DEF Ahead
  <2> DEFINE c == mark[turn]
  <2>1. c \in Int /\ j \in Int /\ i \in Int /\ last \in Int
        BY <1>1
  <2>2. Before(c, j, i) /\ Before(c, i, last)
        OBVIOUS
  <2> HIDE DEF c
  <2>3. Before(c, j, last)
        BY <2>1, <2>2 DEF Before
  <2> QED BY <2>3 DEF c
<1>3. IsFiniteSet(Ahead(last))
  <2>1. IsFiniteSet(listed)
        BY IdsAssumption, FS_Subset DEF TrackTypeOK
  <2> QED BY <2>1, FS_Subset
<1>4. /\ Cardinality(Ahead(i)) <= Cardinality(Ahead(last))
      /\ Cardinality(Ahead(i)) \in Nat /\ Cardinality(Ahead(last)) \in Nat
      BY <1>2, <1>3, FS_Subset, FS_CardinalityType
<1>5. CASE Cardinality(listed) <= Limit
      BY <1>5 DEF Batch, First
<1>6. CASE ~(Cardinality(listed) <= Limit)
  <2>1. Cardinality(Ahead(last)) < Limit
        BY <1>6 DEF Batch, First
  <2> QED BY <1>4, <1>6, <2>1, LimitsAssumption DEF Batch, First
<1> QED BY <1>5, <1>6

(* The watermark of a queue passes the candidates whose results were stored and no others: *)
(* what fails to be stored is never skipped.                                               *)
THEOREM MarksAreEarned == TrackSpec => WatermarkIsEarned
<1> DEFINE Earned ==
      \A q \in Queues : mark'[q] # mark[q] =>
        \A i \in listed : (i = mark'[q] \/ Before(mark[q], i, mark'[q])) => i \in stored
<1>1. TrackTypeOK /\ [TrackNext]_trackVars => Earned
  <2> SUFFICES ASSUME TrackTypeOK, [TrackNext]_trackVars,
                      NEW q \in Queues, mark'[q] # mark[q],
                      NEW i \in listed, i = mark'[q] \/ Before(mark[q], i, mark'[q])
               PROVE  i \in stored
      OBVIOUS
  <2>1. AdvanceMark
        BY DEF TrackNext, TrackProceeds, StartTracking, ListQueue, MarkStays, RefreshTracking,
               Store, ListArchive, ListFails, TrackingRestart, StoreFails, RefreshStale, Enter,
               Leave, trackVars
  <2>2. PICK last \in Batch : mark' = [mark EXCEPT ![turn] = last]
        BY <2>1 DEF AdvanceMark
  <2>3. q = turn /\ mark'[q] = last
        BY <2>2 DEF TrackTypeOK
  <2>4. i \in Batch
        BY <2>3, BatchIsPrefix
  <2> QED BY <2>1, <2>4 DEF AdvanceMark, MarkMayMove, BatchDone, Unfinished
<1> QED BY <1>1, TrackingTypes, PTL DEF TrackSpec, WatermarkIsEarned

--------------------------------------------------------------------------------
(* Both parts together, as the runs start them *)

(* The index that rests is one that has read its first hour. *)
LEMMA RestIsBounded == IndexAtRest => IInv
BY TimesAssumption, BoundsAssumption, NamesAssumption
DEF IndexAtRest, IInv, TypeOK, CoverageIsBounded, CheckInv, Hours

(* The index and the queues are well typed in every behaviour about either (service.go,   *)
(* tracking.go).                                                                           *)
THEOREM AuditorTyped == MCSpec => []AuditorTypeOK
<1> DEFINE Inv == IInv /\ TrackTypeOK
<1>1. MCInit => Inv
  BY InitInv, RestIsBounded, TrackingInit DEF MCInit
<1>2. Inv /\ [MCNext]_<<vars, trackVars, part>> => Inv'
  BY StepInv, TrackingStep DEF MCNext
<1>3. Inv => AuditorTypeOK
  BY DEF IInv, AuditorTypeOK
<1> QED
  BY <1>1, <1>2, <1>3, PTL DEF MCSpec
================================================================================
