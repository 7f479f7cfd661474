----------------------- MODULE FulfillmentAudits_proofs -----------------------
(* Theorems about FulfillmentAudits.tla, for every set of audits, outbound records, *)
(* warehouses, tracking numbers and concurrent requests.                            *)
EXTENDS FulfillmentAudits, TLAPS

(* What the statements keep of a row that was resolved by hand. *)
Kept(row, new) ==
  row.terminal => /\ new.terminal /\ ~new.active /\ new.resolved
                  /\ new.oms = row.oms /\ new.order = row.order /\ new.picked = row.picked

(* A statement that finds a row well formed, open or closed, leaves it so. *)
Good(row) == row \in Row /\ OpenOrClosed(row)

IInv == TypeOK /\ ActiveIsOpen

--------------------------------------------------------------------------------
(* The statements that write a row *)

LEMMA UnknownRowGood == Good(UnknownRow)
BY DEF Good, UnknownRow, Row, OpenOrClosed, OMSStatus, Category

LEMMA UpsertedGood ==
  ASSUME NEW row, Good(row), NEW wh \in Warehouses \cup {NoWarehouse},
         NEW number \in Numbers \cup {NoNumber}
  PROVE  Good(Upserted(row, wh, number)) /\ Kept(row, Upserted(row, wh, number))
<1> DEFINE new == Upserted(row, wh, number)
           at == IF wh # NoWarehouse THEN wh ELSE row.wh
           label == IF number # NoNumber THEN number ELSE row.number
           done == row.terminal \/ row.oms = "outbound" \/ row.picked
<1>1. CASE ~row.known
  <2>1. new = [UnknownRow EXCEPT !.known = TRUE, !.active = TRUE, !.wh = wh, !.number = number]
    BY <1>1 DEF Upserted
  <2> QED
    BY ZenonT(60), <2>1, <1>1 DEF Good, Kept, UnknownRow, Row, OpenOrClosed, OMSStatus, Category
<1>2. CASE row.known /\ done
  <2>1. PICK class \in Category :
          new = [row EXCEPT !.wh = at, !.number = label, !.category = class,
                            !.active = FALSE, !.resolved = TRUE]
    <3>1. CASE row.terminal
      <4>1. row.category \in Category
        BY DEF Good, Row
      <4>2. new = [row EXCEPT !.wh = at, !.number = label, !.category = row.category,
                              !.active = FALSE, !.resolved = TRUE]
        BY <3>1, <1>2 DEF Good, Upserted, Row
      <4> QED
        BY <4>1, <4>2
    <3>2. CASE ~row.terminal /\ row.oms = "outbound"
      BY ZenonT(60), <3>2, <1>2 DEF Good, Upserted, Row, Category
    <3>3. CASE ~row.terminal /\ row.oms # "outbound" /\ row.picked
      BY ZenonT(60), <3>3, <1>2 DEF Good, Upserted, Row, Category
    <3> QED
      BY <3>1, <3>2, <3>3, <1>2
  <2> QED
    BY ZenonT(60), <2>1, <1>2 DEF Good, Kept, Row, OpenOrClosed
<1>3. CASE row.known /\ ~done
  <2>1. PICK status \in {row.oms, "pending_query"}, class \in Category,
             checked \in {"never", "recent", "old"} :
          new = [row EXCEPT !.wh = at, !.number = label, !.oms = status, !.checked = checked,
                            !.category = class, !.active = TRUE, !.resolved = FALSE]
    <3>1. CASE wh # NoWarehouse /\ wh # row.wh
      BY <3>1, <1>3 DEF Good, Upserted, Row, Category
    <3>2. CASE ~(wh # NoWarehouse /\ wh # row.wh)
      <4>1. row.category \in Category /\ row.checked \in {"never", "recent", "old"}
        BY DEF Good, Row
      <4>2. new = [row EXCEPT !.wh = at, !.number = label, !.oms = row.oms,
                              !.checked = row.checked, !.category = row.category,
                              !.active = TRUE, !.resolved = FALSE]
        BY <3>2, <1>3 DEF Good, Upserted, Row
      <4>3. row.oms \in {row.oms, "pending_query"}
        OBVIOUS
      <4> HIDE DEF new, at, label
      <4> QED
        BY <4>1, <4>2, <4>3, Zenon
    <3> QED
      BY <3>1, <3>2
  <2>2. row.known /\ ~row.terminal /\ ~row.picked /\ status # "outbound"
    BY <1>3
  <2>3. new \in Row
    BY ZenonT(60), <2>1 DEF Good, Row, OMSStatus
  <2> QED
    BY <2>1, <2>2, <2>3 DEF Good, Kept, Row, OpenOrClosed
<1> QED
  BY <1>1, <1>2, <1>3

LEMMA DelistedGood ==
  ASSUME NEW row, Good(row)
  PROVE  Good(Delisted(row)) /\ Kept(row, Delisted(row))
BY DEF Good, Kept, Delisted, Row, OpenOrClosed

LEMMA UpdatedGood ==
  ASSUME NEW row, Good(row), NEW res \in Resolution
  PROVE  Good(Updated(row, res)) /\ Kept(row, Updated(row, res))
<1> DEFINE new == Updated(row, res)
           at == IF res.wh # NoWarehouse THEN res.wh ELSE row.wh
<1>1. CASE row.terminal
  BY <1>1 DEF Good, Kept, Updated, OpenOrClosed
<1>2. CASE ~row.terminal /\ res.oms = "outbound"
  <2>1. new = [row EXCEPT !.wh = at, !.oms = "outbound", !.order = res.order,
                          !.category = "archived", !.active = FALSE, !.resolved = TRUE,
                          !.checked = "recent"]
    BY <1>2 DEF Good, Updated, Row
  <2> QED
    BY ZenonT(60), <2>1, <1>2 DEF Good, Kept, Row, OpenOrClosed, Resolution, OMSStatus, Category
<1>3. CASE ~row.terminal /\ res.oms # "outbound"
  <2>1. new = [row EXCEPT !.wh = at, !.oms = res.oms, !.order = res.order,
                          !.checked = "recent"]
    BY ZenonT(60), <1>3 DEF Good, Updated, Row
  <2> QED
    BY ZenonT(60), <2>1, <1>3 DEF Good, Kept, Row, OpenOrClosed, Resolution
<1> QED
  BY <1>1, <1>2, <1>3

LEMMA TrackedGood ==
  ASSUME NEW row, Good(row), NEW picked \in BOOLEAN
  PROVE  Good(Tracked(row, picked)) /\ Kept(row, Tracked(row, picked))
<1> DEFINE new == Tracked(row, picked)
<1>1. CASE row.terminal \/ ~(row.active \/ row.oms = "outbound")
  BY <1>1 DEF Good, Kept, Tracked, OpenOrClosed
<1>2. CASE ~row.terminal /\ row.active /\ picked
  <2>1. new = [row EXCEPT !.picked = TRUE, !.category = "platform_picked_up",
                          !.active = FALSE, !.resolved = TRUE]
    BY <1>2 DEF Good, Tracked, Row
  <2> QED
    BY ZenonT(60), <2>1, <1>2 DEF Good, Kept, Row, OpenOrClosed, Category
<1>3. CASE /\ ~row.terminal /\ (row.active \/ row.oms = "outbound")
           /\ ~(row.active /\ picked)
  <2>1. new = [row EXCEPT !.picked = picked]
    BY <1>3 DEF Good, Tracked, Row
  <2> QED
    BY <2>1, <1>3 DEF Good, Kept, Row, OpenOrClosed
<1> QED
  BY <1>1, <1>2, <1>3

LEMMA RecategorisedGood ==
  ASSUME NEW row, Good(row), NEW class \in Category \cup {"keep"}
  PROVE  Good(Recategorised(row, class)) /\ Kept(row, Recategorised(row, class))
<1> DEFINE new == Recategorised(row, class)
<1>1. CASE class = "keep"
  BY <1>1 DEF Good, Kept, Recategorised, OpenOrClosed
<1>2. CASE class \in {"archived", "platform_picked_up"}
  <2>1. new = [row EXCEPT !.category = class, !.active = FALSE, !.resolved = TRUE]
    BY <1>2 DEF Good, Recategorised, Row
  <2> QED
    BY ZenonT(60), <2>1, <1>2 DEF Good, Kept, Row, OpenOrClosed, Category
<1>3. CASE class \in Category \ {"archived", "platform_picked_up"}
  <2>1. new = [row EXCEPT !.category = class]
    BY <1>3 DEF Good, Recategorised, Row, Category
  <2> QED
    BY <2>1, <1>3 DEF Good, Kept, Row, OpenOrClosed, Category
<1> QED
  BY <1>1, <1>2, <1>3 DEF Category

(* The categories a refresh computes are categories. *)
LEMMA ClassesType ==
  ASSUME NEW row \in Row
  PROVE  Classes(row) \subseteq Category \cup {"keep"}
BY DEF Classes, ClassOf, Row, OMSStatus, Category

--------------------------------------------------------------------------------
(* What the sessions copy and conclude *)

LEMMA CopiedType ==
  ASSUME TypeOK, NEW s \in Sessions, NEW A \in SUBSET Audits
  PROVE  Copied(s, A) \in [Sessions -> [Audits -> Item]]
BY DEF TypeOK, Copied, ItemOf, Row, Item

LEMMA NoItemType == NoItem \in Item
BY DEF NoItem, Item, OMSStatus

LEMMA NoPlanType == NoPlan \in Resolution
BY DEF NoPlan, Unmatched, Resolution, OMSStatus

(* Only indexed records are selected. *)
LEMMA SelectedIndexed ==
  ASSUME NEW a, NEW item, NEW r \in Selected(a, item)
  PROVE  r \in Records /\ index[r].status # "none"
BY DEF Selected, ByReference, ByNumber

LEMMA ConclusionsType ==
  ASSUME TypeOK, NEW s \in Sessions, NEW a \in Audits, NEW res \in Conclusions(s, a)
  PROVE  res \in Resolution
<1>1. items[s][a] \in Item
  BY DEF TypeOK
<1>2. CASE Selected(a, items[s][a]) # {}
  <2>1. PICK r \in Selected(a, items[s][a]) : res = FromRecord(r)
    BY <1>2 DEF Conclusions
  <2>2. r \in Records /\ index[r].status # "none" /\ index[r] \in Entry
    BY <2>1, SelectedIndexed DEF TypeOK
  <2> QED
    BY <2>1, <2>2 DEF FromRecord, Resolution, Entry, IndexStatus, OMSStatus
<1>3. CASE Selected(a, items[s][a]) = {}
  BY <1>1, <1>3 DEF Conclusions, FromItem, Unmatched, Resolution, Item, OMSStatus
<1> QED
  BY <1>2, <1>3

--------------------------------------------------------------------------------
(* Type correctness *)

(* Everything but the rows and the history. *)
SessionTypes ==
  /\ index \in [Records -> Entry]
  /\ pc \in [Sessions -> Step]
  /\ todo \in [Sessions -> SUBSET Audits]
  /\ items \in [Sessions -> [Audits -> Item]]
  /\ plan \in [Sessions -> [Audits -> Resolution]]
  /\ classes \in [Sessions -> [Audits -> Category \cup {"keep"}]]
  /\ syncErr \in BOOLEAN
  /\ snapshots \in 0 .. MaxSnapshots /\ failures \in 0 .. MaxFailures

LEMMA InitInv == Init => IInv
<1> SUFFICES ASSUME Init PROVE IInv
  OBVIOUS
<1>1. \A a \in Audits : Good(rows[a])
  BY UnknownRowGood DEF Init
<1>2. index \in [Records -> Entry]
  BY DEF Init, Entry, IndexStatus
<1>3. rows \in [Audits -> Row] /\ ActiveIsOpen
  BY <1>1 DEF Init, ActiveIsOpen, Good
<1>4. /\ items \in [Sessions -> [Audits -> Item]]
      /\ plan \in [Sessions -> [Audits -> Resolution]]
      /\ classes \in [Sessions -> [Audits -> Category \cup {"keep"}]]
  BY NoItemType, NoPlanType DEF Init
<1>5. /\ pc \in [Sessions -> Step] /\ todo \in [Sessions -> SUBSET Audits]
      /\ syncErr \in BOOLEAN /\ settled \subseteq Audits
  BY DEF Init, Step
<1>6. snapshots \in 0 .. MaxSnapshots /\ failures \in 0 .. MaxFailures
  BY NamesAssumption, SMT DEF Init
<1> QED
  BY <1>2, <1>3, <1>4, <1>5, <1>6 DEF IInv, TypeOK

LEMMA ReturnType ==
  ASSUME TypeOK, NEW s \in Sessions, Return(s)
  PROVE  /\ pc' \in [Sessions -> Step]
         /\ todo' \in [Sessions -> SUBSET Audits]
         /\ items' \in [Sessions -> [Audits -> Item]]
         /\ plan' \in [Sessions -> [Audits -> Resolution]]
         /\ classes' \in [Sessions -> [Audits -> Category \cup {"keep"}]]
         /\ syncErr' \in BOOLEAN
<1>1. pc' \in [Sessions -> Step] /\ todo' \in [Sessions -> SUBSET Audits] /\ syncErr' \in BOOLEAN
  BY DEF Return, Goto, TypeOK, Step
<1>2. items' \in [Sessions -> [Audits -> Item]]
  BY NoItemType DEF Return, TypeOK
<1>3. plan' \in [Sessions -> [Audits -> Resolution]]
  BY NoPlanType DEF Return, TypeOK
<1>4. classes' \in [Sessions -> [Audits -> Category \cup {"keep"}]]
  BY DEF Return, TypeOK
<1> QED
  BY <1>1, <1>2, <1>3, <1>4

LEMMA CheckTypes ==
  ASSUME TypeOK, Check
  PROVE  SessionTypes'
<1> Auditor \in Sessions
  BY DEF Sessions
<1>1. CASE StartCheck
  BY <1>1 DEF StartCheck, Goto, TypeOK, SessionTypes, Step
<1>2. CASE SyncFails
  BY <1>2 DEF SyncFails, TypeOK, SessionTypes
<1>3. CASE SyncEnds
  BY <1>3 DEF SyncEnds, Goto, TypeOK, SessionTypes, Step
<1>4. ASSUME NEW r \in Records, IndexRecord(r)  PROVE SessionTypes'
  <2>1. PICK step \in Progress : index' = [index EXCEPT ![r].status = step[2]]
    BY <1>4 DEF IndexRecord
  <2>2. step[2] \in IndexStatus
    BY <2>1 DEF Progress, IndexStatus
  <2>3. index' \in [Records -> Entry]
    BY ZenonT(60), <2>1, <2>2 DEF TypeOK, Entry
  <2> QED
    BY <1>4, <2>3 DEF IndexRecord, sessionVars, TypeOK, SessionTypes
<1>5. CASE ReadStatusCandidates
  <2>1. StatusCandidates \in SUBSET Audits
    BY DEF StatusCandidates
  <2>2. items' \in [Sessions -> [Audits -> Item]]
    BY <1>5, <2>1, CopiedType DEF ReadStatusCandidates
  <2> QED
    BY <1>5, <2>1, <2>2 DEF ReadStatusCandidates, Goto, TypeOK, SessionTypes, Step
<1>6. CASE ReadCandidates
  <2>1. Candidates \in SUBSET Audits
    BY DEF Candidates
  <2>2. items' \in [Sessions -> [Audits -> Item]]
    BY <1>6, <2>1, CopiedType DEF ReadCandidates
  <2> QED
    BY <1>6, <2>1, <2>2 DEF ReadCandidates, Goto, TypeOK, SessionTypes, Step
<1>7. CASE Track
  <2>1. ASSUME NEW due \in SUBSET Audits, NEW work \in {"manualWork", "queueWork"},
               ReadTracking(due, work)
        PROVE  SessionTypes'
    BY <2>1 DEF ReadTracking, Goto, TypeOK, SessionTypes, Step
  <2>2. ASSUME NEW a \in Audits, TrackOrder(a)  PROVE SessionTypes'
    BY <2>2 DEF TrackOrder, TypeOK, SessionTypes
  <2>3. CASE TrackingDone
    <3>1. CASE Return(Auditor)
      BY <2>3, <3>1, ReturnType DEF TrackingDone, TypeOK, SessionTypes
    <3>2. CASE ~Return(Auditor)
      BY <2>3, <3>2 DEF TrackingDone, Goto, TypeOK, SessionTypes, Step
    <3> QED
      BY <3>1, <3>2
  <2> QED
    BY <1>7, <2>1, <2>2, <2>3 DEF Track, ReadManual, ReadQueue, ManualTracking, QueueTracking
<1> QED
  BY <1>1, <1>2, <1>3, <1>4, <1>5, <1>6, <1>7 DEF Check

LEMMA SessionStepTypes ==
  ASSUME TypeOK, NEW s \in Sessions, Session(s) \/ Fail(s)
  PROVE  SessionTypes'
<1>1. CASE Lookup(s)
  <2> DEFINE written == IF s = Auditor THEN todo[s]
                        ELSE {a \in todo[s] : Selected(a, items[s][a]) # {}}
  <2>1. written \subseteq Audits
    BY DEF TypeOK
  <2>2. PICK planned \in [written -> UNION {Conclusions(s, a) : a \in written}] :
          /\ \A a \in written : planned[a] \in Conclusions(s, a)
          /\ plan' = [plan EXCEPT ![s] = [a \in Audits |->
               IF a \in written THEN planned[a] ELSE NoPlan]]
    BY <1>1 DEF Lookup
  <2>3. ASSUME NEW a \in written  PROVE planned[a] \in Resolution
    <3>1. planned[a] \in Conclusions(s, a)
      BY <2>2, <2>3
    <3> QED
      BY <2>1, <2>3, <3>1, ConclusionsType
  <2>4. plan' \in [Sessions -> [Audits -> Resolution]]
    BY <2>1, <2>2, <2>3, NoPlanType DEF TypeOK
  <2>5. items' \in [Sessions -> [Audits -> Item]]
    BY <1>1, NoItemType DEF Lookup, TypeOK
  <2>6. todo' \in [Sessions -> SUBSET Audits]
    BY <1>1, <2>1 DEF Lookup, TypeOK
  <2> QED
    BY <1>1, <2>4, <2>5, <2>6 DEF Lookup, Goto, TypeOK, SessionTypes, Step
<1>2. CASE UpdatesDone(s)
  BY <1>2 DEF UpdatesDone, Goto, TypeOK, SessionTypes, Step
<1>3. CASE Classify(s)
  <2>1. PICK class \in [Audits -> UNION {Classes(rows[a]) : a \in Audits}] :
          /\ \A a \in Audits : class[a] \in Classes(rows[a])
          /\ classes' = [classes EXCEPT ![s] = class]
    BY <1>3 DEF Classify
  <2>2. ASSUME NEW a \in Audits  PROVE class[a] \in Category \cup {"keep"}
    BY <2>1, ClassesType DEF TypeOK
  <2>3. classes' \in [Sessions -> [Audits -> Category \cup {"keep"}]]
    BY <2>1, <2>2 DEF TypeOK
  <2> QED
    BY <1>3, <2>3 DEF Classify, Goto, TypeOK, SessionTypes, Step
<1>4. CASE ApplyClasses(s)
  <2>1. CASE s # Auditor
    BY <1>4, <2>1, ReturnType DEF ApplyClasses, Recategorise, TypeOK, SessionTypes
  <2>2. CASE s = Auditor
    <3>1. classes' \in [Sessions -> [Audits -> Category \cup {"keep"}]]
      <4>1. classes' = [classes EXCEPT ![s] = [a \in Audits |-> "keep"]]
        BY <1>4, <2>2 DEF ApplyClasses
      <4> QED
        BY <4>1 DEF TypeOK
    <3> QED
      BY <1>4, <2>2, <3>1 DEF ApplyClasses, Recategorise, Goto, TypeOK, SessionTypes, Step
  <2> QED
    BY <2>1, <2>2
<1>5. ASSUME NEW a \in Audits, Update(s, a)  PROVE SessionTypes'
  BY <1>5, NoPlanType DEF Update, TypeOK, SessionTypes
<1>6. CASE Fail(s)
  BY <1>6, ReturnType, NamesAssumption DEF Fail, TypeOK, SessionTypes
<1> QED
  BY <1>1, <1>2, <1>3, <1>4, <1>5, <1>6 DEF Session

LEMMA RequestTypes ==
  ASSUME TypeOK, NEW c \in Clients, Snapshot(c) \/ ReadListed(c) \/ ListAudits(c)
  PROVE  SessionTypes'
<1> c \in Sessions
  BY DEF Sessions
<1>1. CASE Snapshot(c)
  BY <1>1, NamesAssumption DEF Snapshot, SyncSnapshot, Goto, TypeOK, SessionTypes, Step
<1>2. CASE ReadListed(c)
  <2> DEFINE found == {a \in todo[c] : rows[a].active}
  <2>1. found \in SUBSET Audits
    BY DEF TypeOK
  <2>2. CASE found = {}
    BY <1>2, <2>2, ReturnType DEF ReadListed, TypeOK, SessionTypes
  <2>3. CASE found # {}
    <3>1. items' \in [Sessions -> [Audits -> Item]]
      BY <1>2, <2>1, <2>3, CopiedType DEF ReadListed
    <3> QED
      BY <1>2, <2>1, <2>3, <3>1 DEF ReadListed, Goto, TypeOK, SessionTypes, Step
  <2> QED
    BY <2>2, <2>3
<1>3. CASE ListAudits(c)
  BY <1>3 DEF ListAudits, Goto, TypeOK, SessionTypes, Step
<1> QED
  BY <1>1, <1>2, <1>3

--------------------------------------------------------------------------------
(* The rows *)

(* Every step leaves the row of an audit alone or writes it with one of the statements. *)
LEMMA RowStep ==
  ASSUME IInv, NextStep
  PROVE  /\ rows' \in [Audits -> Row]
         /\ \A a \in Audits : OpenOrClosed(rows'[a]) /\ Kept(rows[a], rows'[a])
<1> \A a \in Audits : Good(rows[a])
  BY DEF IInv, TypeOK, ActiveIsOpen, Good
<1> SUFFICES ASSUME rows' # rows
             PROVE  /\ rows' \in [Audits -> Row]
                    /\ \A a \in Audits : Good(rows'[a]) /\ Kept(rows[a], rows'[a])
  BY DEF IInv, TypeOK, Good, Kept, OpenOrClosed
<1>1. ASSUME NEW s \in Sessions, NEW a \in Audits, Update(s, a)
      PROVE  /\ rows' \in [Audits -> Row]
             /\ \A b \in Audits : Good(rows'[b]) /\ Kept(rows[b], rows'[b])
  <2>1. plan[s][a] \in Resolution
    BY DEF IInv, TypeOK
  <2>2. Good(Updated(rows[a], plan[s][a])) /\ Kept(rows[a], Updated(rows[a], plan[s][a]))
    BY <2>1, UpdatedGood
  <2>3. rows' = [rows EXCEPT ![a] = Updated(rows[a], plan[s][a])]
    BY <1>1 DEF Update
  <2> QED
    BY <2>2, <2>3 DEF IInv, TypeOK, Good, Kept, OpenOrClosed
<1>2. ASSUME NEW s \in Sessions, Recategorise(s)
      PROVE  /\ rows' \in [Audits -> Row]
             /\ \A a \in Audits : Good(rows'[a]) /\ Kept(rows[a], rows'[a])
  <2>1. rows' = [a \in Audits |-> Recategorised(rows[a], classes[s][a])]
    BY <1>2 DEF Recategorise
  <2>2. ASSUME NEW a \in Audits
        PROVE  Good(Recategorised(rows[a], classes[s][a]))
                 /\ Kept(rows[a], Recategorised(rows[a], classes[s][a]))
    <3>1. classes[s][a] \in Category \cup {"keep"}
      BY DEF IInv, TypeOK
    <3> QED
      BY <3>1, RecategorisedGood
  <2> QED
    BY <2>1, <2>2 DEF Good
<1>3. ASSUME NEW a \in Audits, TrackOrder(a)
      PROVE  /\ rows' \in [Audits -> Row]
             /\ \A b \in Audits : Good(rows'[b]) /\ Kept(rows[b], rows'[b])
  <2>1. PICK picked \in BOOLEAN : rows' = [rows EXCEPT ![a] = Tracked(rows[a], picked)]
    BY <1>3 DEF TrackOrder
  <2>2. Good(Tracked(rows[a], picked)) /\ Kept(rows[a], Tracked(rows[a], picked))
    BY TrackedGood
  <2> QED
    BY <2>1, <2>2 DEF IInv, TypeOK, Good, Kept, OpenOrClosed
<1>4. ASSUME NEW c \in Clients, NEW listed \in SUBSET Audits,
             NEW wh \in [Audits -> Warehouses \cup {NoWarehouse}],
             NEW number \in [Audits -> Numbers \cup {NoNumber}],
             SyncSnapshot(c, listed, wh, number)
      PROVE  /\ rows' \in [Audits -> Row]
             /\ \A a \in Audits : Good(rows'[a]) /\ Kept(rows[a], rows'[a])
  <2>1. rows' = [a \in Audits |->
          IF a \in listed THEN Upserted(rows[a], wh[a], number[a]) ELSE Delisted(rows[a])]
    BY <1>4 DEF SyncSnapshot
  <2>2. ASSUME NEW a \in Audits
        PROVE  Good(rows'[a]) /\ Kept(rows[a], rows'[a])
    <3>1. wh[a] \in Warehouses \cup {NoWarehouse} /\ number[a] \in Numbers \cup {NoNumber}
      OBVIOUS
    <3>2. CASE a \in listed
      BY <2>1, <3>1, <3>2, UpsertedGood
    <3>3. CASE a \notin listed
      BY <2>1, <3>3, DelistedGood
    <3> QED
      BY <3>2, <3>3
  <2> QED
    BY <2>1, <2>2 DEF Good
<1>5. ASSUME NEW a \in Audits, ResolveAudit(a)
      PROVE  /\ rows' \in [Audits -> Row]
             /\ \A b \in Audits : Good(rows'[b]) /\ Kept(rows[b], rows'[b])
  <2> DEFINE new == [rows[a] EXCEPT !.terminal = TRUE, !.active = FALSE, !.resolved = TRUE]
  <2>1. rows' = [rows EXCEPT ![a] = new] /\ rows[a].active /\ ~rows[a].terminal
    BY <1>5 DEF ResolveAudit, IInv, TypeOK
  <2>2. Good(new) /\ Kept(rows[a], new)
    BY ZenonT(60), <2>1 DEF Good, Kept, Row, OpenOrClosed
  <2> QED
    BY <2>1, <2>2 DEF IInv, TypeOK, Good, Kept, OpenOrClosed
<1>6. ASSUME NEW a \in Audits, Age(a)
      PROVE  /\ rows' \in [Audits -> Row]
             /\ \A b \in Audits : Good(rows'[b]) /\ Kept(rows[b], rows'[b])
  <2> DEFINE new == [rows[a] EXCEPT !.checked = "old"]
  <2>1. rows' = [rows EXCEPT ![a] = new]
    BY <1>6 DEF Age, IInv, TypeOK
  <2>2. Good(new) /\ Kept(rows[a], new)
    BY <2>1 DEF Good, Kept, Row, OpenOrClosed
  <2> QED
    BY <2>1, <2>2 DEF IInv, TypeOK, Good, Kept, OpenOrClosed
<1>7. \/ \E s \in Sessions : Recategorise(s) \/ \E a \in Audits : Update(s, a)
      \/ \E a \in Audits : TrackOrder(a) \/ ResolveAudit(a) \/ Age(a)
      \/ \E c \in Clients : Snapshot(c)
  BY DEF NextStep, Check, Track, Session, StartCheck, SyncFails, SyncEnds, IndexRecord,
         ReadStatusCandidates, ReadCandidates, ReadManual, ReadQueue, ReadTracking, TrackingDone,
         Lookup, UpdatesDone, Classify, ApplyClasses, Fail, ReadListed, ListAudits
<1> QED
  BY <1>1, <1>2, <1>3, <1>4, <1>5, <1>6, <1>7 DEF Snapshot

--------------------------------------------------------------------------------
(* Theorems *)

LEMMA StepInv == IInv /\ [Next]_vars => IInv'
<1> SUFFICES ASSUME IInv, [Next]_vars  PROVE IInv'
  OBVIOUS
<1>1. CASE Next
  <2>1. SessionTypes'
    <3>1. CASE Check
      BY <3>1, CheckTypes DEF IInv
    <3>2. ASSUME NEW s \in Sessions, Session(s) \/ Fail(s)  PROVE SessionTypes'
      BY <3>2, SessionStepTypes DEF IInv
    <3>3. ASSUME NEW c \in Clients, Snapshot(c) \/ ReadListed(c) \/ ListAudits(c)
          PROVE  SessionTypes'
      BY <3>3, RequestTypes DEF IInv
    <3>4. ASSUME NEW a \in Audits, ResolveAudit(a) \/ Age(a)  PROVE SessionTypes'
      BY <3>4 DEF ResolveAudit, Age, sessionVars, IInv, TypeOK, SessionTypes
    <3> QED
      BY <1>1, <3>1, <3>2, <3>3, <3>4 DEF Next, NextStep
  <2>2. rows' \in [Audits -> Row] /\ ActiveIsOpen'
    BY <1>1, RowStep DEF Next, ActiveIsOpen
  <2>3. settled' \subseteq Audits
    BY <1>1 DEF Next, IInv, TypeOK
  <2> QED
    BY <2>1, <2>2, <2>3 DEF IInv, TypeOK, SessionTypes
<1>2. CASE UNCHANGED vars
  BY <1>2 DEF vars, stateVars, sessionVars, IInv, TypeOK, ActiveIsOpen
<1> QED
  BY <1>1, <1>2

THEOREM Invariance == Spec => []IInv
BY InitInv, StepInv, PTL DEF Spec

(* Every reachable state is well typed. *)
THEOREM TypeCorrect == Spec => []TypeOK
<1>1. IInv => TypeOK
  BY DEF IInv
<1> QED
  BY <1>1, Invariance, PTL

(* Whichever of the statements wrote an audit last, it is in work and open, or closed. *)
THEOREM AuditsAreOpenOrClosed == Spec => []ActiveIsOpen
<1>1. IInv => ActiveIsOpen
  BY DEF IInv
<1> QED
  BY <1>1, Invariance, PTL

(* What the operator has resolved stays resolved and out of work, and no automatic step  *)
(* gives it another outbound order, status or pickup.                                     *)
THEOREM ResolvedStays == Spec => ResolutionIsFinal
<1>1. IInv /\ [Next]_vars =>
        [\A a \in Audits : rows[a].terminal =>
           /\ rows'[a].terminal /\ ~rows'[a].active /\ rows'[a].resolved
           /\ rows'[a].oms = rows[a].oms /\ rows'[a].order = rows[a].order
           /\ rows'[a].picked = rows[a].picked]_vars
  BY RowStep DEF Next, Kept
<1> QED
  BY <1>1, Invariance, PTL DEF Spec, ResolutionIsFinal

--------------------------------------------------------------------------------
(* An audit is closed for a reason *)

Archive == {"archived", "platform_picked_up"}

(* What is shipped or picked up, or was when a refresh computed its classes, is settled. *)
SettledInv ==
  \A a \in Audits :
    /\ rows[a].oms = "outbound" \/ rows[a].picked => a \in settled
    /\ \A s \in Sessions : classes[s][a] \in Archive => a \in settled

LEMMA ClassesArchive ==
  ASSUME NEW row \in Row, NEW class \in Classes(row), class \in Archive
  PROVE  row.oms = "outbound" \/ row.picked
BY DEF Classes, ClassOf, Archive, Row, OMSStatus

(* No step but a snapshot or the operator's closes an audit that is not settled. *)
LEMMA ClosingStep ==
  ASSUME IInv, SettledInv, Next, NEW a \in Audits, rows[a].active, ~rows'[a].active
  PROVE  a \in settled' \/ rows'[a].terminal \/ snapshots' # snapshots
<1> rows \in [Audits -> Row] /\ rows[a] \in Row
  BY DEF IInv, TypeOK
<1> settled' = settled \cup {b \in Audits : rows'[b].oms = "outbound" \/ rows'[b].picked}
  BY DEF Next
<1>1. ASSUME NEW s \in Sessions, Update(s, a)  PROVE a \in settled'
  <2>1. rows'[a] = Updated(rows[a], plan[s][a])
    BY <1>1 DEF Update
  <2>2. rows'[a].oms = "outbound"
    BY <2>1 DEF Updated, Row
  <2> QED
    BY <2>2
<1>2. ASSUME NEW s \in Sessions, Recategorise(s)  PROVE a \in settled'
  <2>1. rows'[a] = Recategorised(rows[a], classes[s][a])
    BY <1>2 DEF Recategorise
  <2>2. classes[s][a] \in Archive
    BY <2>1 DEF Recategorised, Archive, Row
  <2> QED
    BY <2>2 DEF SettledInv
<1>3. ASSUME NEW b \in Audits, TrackOrder(b)  PROVE a \in settled'
  <2>1. PICK picked \in BOOLEAN : rows' = [rows EXCEPT ![b] = Tracked(rows[b], picked)]
    BY <1>3 DEF TrackOrder
  <2>2. b = a /\ rows'[a] = Tracked(rows[a], picked)
    BY <2>1
  <2>3. rows'[a].picked
    <3>1. picked
      BY <2>2 DEF Tracked, Row
    <3> QED
      BY <2>2, <3>1 DEF Tracked, Row
  <2> QED
    BY <2>3
<1>4. ASSUME NEW c \in Clients, Snapshot(c)  PROVE snapshots' # snapshots
  BY <1>4 DEF Snapshot, SyncSnapshot, IInv, TypeOK
<1>5. ASSUME NEW b \in Audits, ResolveAudit(b)  PROVE rows'[a].terminal
  BY <1>5 DEF ResolveAudit
<1>6. ASSUME NEW b \in Audits, Age(b)  PROVE FALSE
  BY <1>6 DEF Age
<1>7. ASSUME NEW s \in Sessions, NEW b \in Audits, Update(s, b), b # a  PROVE FALSE
  BY <1>7 DEF Update
<1>8. \/ \E s \in Sessions : Recategorise(s) \/ \E b \in Audits : Update(s, b)
      \/ \E b \in Audits : TrackOrder(b) \/ ResolveAudit(b) \/ Age(b)
      \/ \E c \in Clients : Snapshot(c)
  BY DEF Next, NextStep, Check, Track, Session, StartCheck, SyncFails, SyncEnds, IndexRecord,
         ReadStatusCandidates, ReadCandidates, ReadManual, ReadQueue, ReadTracking, TrackingDone,
         Lookup, UpdatesDone, Classify, ApplyClasses, Fail, ReadListed, ListAudits
<1> QED
  BY <1>1, <1>2, <1>3, <1>4, <1>5, <1>6, <1>7, <1>8

LEMMA SettledStep ==
  ASSUME IInv, SettledInv, [Next]_vars
  PROVE  SettledInv'
<1>1. CASE UNCHANGED vars
  BY <1>1 DEF vars, stateVars, sessionVars, SettledInv
<1>2. CASE Next
  <2>1. settled' = settled \cup {b \in Audits : rows'[b].oms = "outbound" \/ rows'[b].picked}
    BY <1>2 DEF Next
  <2>2. ASSUME NEW a \in Audits, NEW s \in Sessions, classes'[s][a] \in Archive
        PROVE  a \in settled
    <3>1. ASSUME NEW t \in Sessions, Classify(t)  PROVE a \in settled
      <4>1. PICK class \in [Audits -> UNION {Classes(rows[b]) : b \in Audits}] :
              /\ \A b \in Audits : class[b] \in Classes(rows[b])
              /\ classes' = [classes EXCEPT ![t] = class]
        BY <3>1 DEF Classify
      <4>2. CASE s = t
        <5>1. class[a] \in Classes(rows[a]) /\ class[a] \in Archive /\ rows[a] \in Row
          BY <2>2, <4>1, <4>2 DEF IInv, TypeOK
        <5> QED
          BY <5>1, ClassesArchive DEF SettledInv
      <4>3. CASE s # t
        BY <2>2, <4>1, <4>3 DEF SettledInv, IInv, TypeOK
      <4> QED
        BY <4>2, <4>3
    <3>2. ASSUME NEW t \in Sessions,
                 classes' = [classes EXCEPT ![t] = [b \in Audits |-> "keep"]]
          PROVE  a \in settled
      <4>1. s # t
        BY <2>2, <3>2 DEF Archive, IInv, TypeOK
      <4> QED
        BY <2>2, <3>2, <4>1 DEF SettledInv, IInv, TypeOK
    <3>3. CASE classes' = classes
      BY <2>2, <3>3 DEF SettledInv
    <3>4. \/ classes' = classes
          \/ \E t \in Sessions :
               Classify(t) \/ classes' = [classes EXCEPT ![t] = [b \in Audits |-> "keep"]]
      <4>1. Auditor \in Sessions /\ Clients \subseteq Sessions
        BY DEF Sessions
      <4> QED
        BY <1>2, <4>1
        DEF Next, NextStep, Check, Track, Session, StartCheck, SyncFails, SyncEnds, IndexRecord,
            ReadStatusCandidates, ReadCandidates, ReadManual, ReadQueue, ReadTracking,
            TrackingDone, TrackOrder, Update, Lookup, UpdatesDone, ApplyClasses, Fail, Return,
            Snapshot, SyncSnapshot, ReadListed, ListAudits, ResolveAudit, Age, sessionVars
    <3> QED
      BY <3>1, <3>2, <3>3, <3>4
  <2> QED
    BY <2>1, <2>2 DEF SettledInv
<1> QED
  BY <1>1, <1>2

(* An order nobody has shipped or picked up is closed by the operator or a snapshot alone. *)
THEOREM ClosedOnlyForAReason == Spec => ClosedForAReason
<1>1. Init => SettledInv
  BY DEF Init, SettledInv, UnknownRow, Archive
<1>2. Spec => []SettledInv
  BY <1>1, SettledStep, Invariance, PTL DEF Spec
<1>3. IInv /\ SettledInv /\ [Next]_vars =>
        [\A a \in Audits : (rows[a].active /\ ~rows'[a].active) =>
           a \in settled' \/ rows'[a].terminal \/ snapshots' # snapshots]_vars
  BY ClosingStep
<1> QED
  BY <1>2, <1>3, Invariance, PTL DEF Spec, ClosedForAReason
================================================================================
