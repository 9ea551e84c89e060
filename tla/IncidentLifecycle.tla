-------------------------- MODULE IncidentLifecycle --------------------------
(***************************************************************************)
(* What the closed loop promises about one incident, whatever plan the     *)
(* planner makes and however often a node fails and is run again: it is    *)
(* diagnosed, then acted on, escalated or merely watched; an action is     *)
(* verified; a miss is retried within a budget; only an acted-on incident  *)
(* is closed, and one the system could retry is not given up.              *)
(* IncidentGraph implements this specification.                            *)
(***************************************************************************)
EXTENDS Naturals

CONSTANT MaxReplans  \* attempts after the first, a natural number

VARIABLES
  phase,    \* how far the incident has come
  tier,     \* "AUTO" or "APPROVE" once it is open
  attempts  \* attempts begun after the first

lifecycle == <<phase, tier, attempts>>

Phases == {"none", "quiet", "diagnosing", "awaiting_human", "intervened",
           "watched", "closed", "failed"}

Init == phase = "none" /\ tier = "AUTO" /\ attempts = 0

(* The scan found nothing new. *)
Ignore == phase = "none" /\ phase' = "quiet" /\ UNCHANGED <<tier, attempts>>

Open ==
  /\ phase = "none" /\ phase' = "diagnosing"
  /\ tier' \in {"AUTO", "APPROVE"}
  /\ UNCHANGED attempts

Retry ==
  /\ phase \in {"diagnosing", "intervened"} /\ phase' = "diagnosing"
  /\ attempts < MaxReplans /\ attempts' = attempts + 1
  /\ UNCHANGED tier

(* Autonomous actuation, for a Tier 1 sensor only. *)
Intervene ==
  /\ phase = "diagnosing" /\ tier = "AUTO"
  /\ phase' = "intervened"
  /\ UNCHANGED <<tier, attempts>>

Escalate ==
  /\ phase = "diagnosing" /\ tier = "APPROVE"
  /\ phase' = "awaiting_human"
  /\ UNCHANGED <<tier, attempts>>

HumanApproves ==
  /\ phase = "awaiting_human" /\ phase' = "intervened"
  /\ UNCHANGED <<tier, attempts>>

HumanRejects ==
  /\ phase = "awaiting_human" /\ phase' = "failed"
  /\ UNCHANGED <<tier, attempts>>

(* No actuator in the live world: watched until the reading recovers. *)
Observe ==
  /\ phase = "diagnosing" /\ phase' = "watched"
  /\ UNCHANGED <<tier, attempts>>

Close ==
  /\ phase = "intervened" /\ phase' = "closed"
  /\ UNCHANGED <<tier, attempts>>

(* Out of budget, or no diagnosis at all to put before the human. *)
GiveUp ==
  /\ \/ phase \in {"diagnosing", "intervened"} /\ attempts = MaxReplans
     \/ phase = "diagnosing" /\ tier = "APPROVE"
  /\ phase' = "failed"
  /\ UNCHANGED <<tier, attempts>>

Next ==
  \/ Ignore \/ Open \/ Retry \/ Intervene \/ Escalate \/ HumanApproves
  \/ HumanRejects \/ Observe \/ Close \/ GiveUp

Spec == Init /\ [][Next]_lifecycle
=============================================================================
