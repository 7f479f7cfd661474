---------------------------- MODULE OutboundMatching ----------------------------
(***************************************************************************)
(* Which of the indexed outbound orders an audit is matched with, computed *)
(* the way the program does: two passes over the records in the order the  *)
(* database lists them, one over those that quote the order number and one *)
(* over those with the tracking number, then a choice between the two.     *)
(* FulfillmentAudits.tla uses the answer without the order of the records. *)
(***************************************************************************)
EXTENDS Naturals, Sequences, SequencesExt

CONSTANTS
  Warehouses,   \* wh_code
  NoWarehouse,  \* an audit whose warehouse is not known
  NoRecord      \* nothing matches

(* The classes of the status codes: 3, 2, 0 and 1, 4 to 7, and any other. *)
Status == {"outbound", "processing", "pending", "exception", "unknown"}

(* A listed record quotes the order number in one of four fields, carries the number of *)
(* its label, or both.                                                                  *)
Record == {r \in [quotes : BOOLEAN, label : BOOLEAN, wh : Warehouses, status : Status] :
             r.quotes \/ r.label}

ASSUME WarehousesAssumption == NoWarehouse \notin Warehouses /\ NoRecord \notin Record

--------------------------------------------------------------------------------
(* outboundStatusPriority *)
Priority(status) ==
  CASE status = "outbound" -> 4
    [] status = "processing" -> 3
    [] status = "pending" -> 2
    [] status = "exception" -> 0
    [] OTHER -> 1

(* Mutant: of two equal records the later one is taken, whatever its warehouse. *)
PreferLater(candidate, selected, wh) == Priority(candidate.status) >= Priority(selected.status)

(* preferOutboundRecord *)
Prefer(candidate, selected, wh) ==
  IF wh # NoWarehouse /\ (candidate.wh = wh) # (selected.wh = wh)
  THEN candidate.wh = wh
  ELSE Priority(candidate.status) > Priority(selected.status)

(* The order of the pass over the tracking numbers. *)
PreferTracking(candidate, selected, wh) ==
  \/ Priority(candidate.status) > Priority(selected.status)
  \/ Priority(candidate.status) = Priority(selected.status) /\ Prefer(candidate, selected, wh)

Quoting == {r \in Record : r.quotes}
Labelled == {r \in Record : r.label}

(* The records of a group as the loop over all of them collects them, in their order. *)
Gathered(records, group) ==
  FoldLeft(LAMBDA gathered, r : IF r \in group THEN Append(gathered, r) ELSE gathered, <<>>, records)

(* preferredOutboundRecord: the first one, unless a later one is preferred to what was selected *)
(* so far.                                                                                       *)
Pass(candidates, wh) ==
  IF candidates = <<>> THEN NoRecord
  ELSE FoldLeft(LAMBDA selected, c : IF Prefer(c, selected, wh) THEN c ELSE selected,
                Head(candidates), Tail(candidates))

(* preferredTrackingOutboundRecord *)
TrackingPass(candidates, wh) ==
  IF candidates = <<>> THEN NoRecord
  ELSE FoldLeft(LAMBDA selected, c : IF PreferTracking(c, selected, wh) THEN c ELSE selected,
                Head(candidates), Tail(candidates))

(* matchIndexedOutboundRecords, for one audit *)
Choose(quoted, labelled, wh) ==
  IF quoted = NoRecord THEN labelled
  ELSE IF labelled = NoRecord THEN quoted
  ELSE IF PreferTracking(labelled, quoted, wh) THEN labelled ELSE quoted

Match(records, wh) ==
  Choose(Pass(Gathered(records, Quoting), wh), TrackingPass(Gathered(records, Labelled), wh), wh)

--------------------------------------------------------------------------------
(* What the answer should be *)

Here(r, wh) == IF r.wh = wh THEN 1 ELSE 0
ByPlace(r, wh) == 5 * Here(r, wh) + Priority(r.status)
ByStatus(r, wh) == 2 * Priority(r.status) + Here(r, wh)

(* The definition FulfillmentAudits.tla uses: the best of the quoting records, unless one of *)
(* the labelled ones is better, each group by its own order.                                 *)
Selected(records, wh) ==
  LET Listed == ToSet(records)
      quoting == {r \in Listed : r.quotes}
      labelled == {r \in Listed : r.label}
      bestQuoting == {r \in quoting : \A q \in quoting : ByPlace(q, wh) <= ByPlace(r, wh)}
      bestLabelled == {r \in labelled : \A q \in labelled : ByStatus(q, wh) <= ByStatus(r, wh)}
  IN {r \in bestQuoting : labelled = {} \/ \E n \in bestLabelled : ByStatus(n, wh) <= ByStatus(r, wh)}
       \cup {n \in bestLabelled : quoting = {} \/ \E r \in bestQuoting : ByStatus(n, wh) > ByStatus(r, wh)}
================================================================================
