------------------------------- MODULE MC_Auditor -------------------------------
(* Small instances of what the auditor keeps besides the audits: the index of    *)
(* outbound orders and the tracking queues.  They share no state, so a behaviour *)
(* is about one of them, chosen at its start; the other one rests.               *)
EXTENDS OutboundSync, TrackingQueue, TLC

CONSTANTS x, y

VARIABLE part

IndexAtRest ==
  /\ clock = StartHour /\ needed = {}
  /\ watermark = [acc \in Accounts |-> StartHour]
  /\ coverageStart = [acc \in Accounts |-> StartHour - 1]
  /\ windows = [acc \in Accounts |-> {StartHour - 1}] /\ fetched = windows
  /\ phase = "idle" /\ through = StartHour
  /\ left = {} /\ current = NoAccount /\ cursor = 0 /\ todo = {}
  /\ failures = 0 /\ restarts = 0

MCInit ==
  /\ TrackInit
  /\ \/ part = "index" /\ Init
     \/ part = "tracking" /\ IndexAtRest

MCNext ==
  /\ UNCHANGED part
  /\ \/ part = "index" /\ Next /\ UNCHANGED trackVars
     \/ part = "tracking" /\ TrackNext /\ UNCHANGED vars

Index == part = "index"
Tracking == part = "tracking"

MCSpec ==
  /\ MCInit /\ [][MCNext]_<<vars, trackVars, part>>
  /\ WF_vars(Index /\ Proceeds) /\ WF_trackVars(Tracking /\ TrackProceeds)

\* The state of both parts has its type.
AuditorTypeOK == TypeOK /\ TrackTypeOK
================================================================================
