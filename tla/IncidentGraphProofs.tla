------------------------- MODULE IncidentGraphProofs -------------------------
(***************************************************************************)
(* Proofs about IncidentGraph, for every set of plans, every number of     *)
(* replans and any number of node failures.  The invariants come in        *)
(* layers; each layer is inductive given the ones before it.               *)
(***************************************************************************)
EXTENDS IncidentGraph, TLAPS

-----------------------------------------------------------------------------
(* Layer 1: types.  replan_count stays in range because the two routes to  *)
(* the replan node check the budget before it.                             *)

BudgetLeft == node = "replan" => replanCount < MaxReplans

TypeInv == TypeOK /\ BudgetLeft

(* A fallback plan is a well-formed plan, whatever sensor it is made for.  *)
LEMMA FallbackPlanType == FallbackPlan \in Seq(Subtask)
<1>1. DomainOf(sensor) \in Domains
  BY DEF DomainOf, SENSOR_DOMAIN, Domains
<1>2. [id |-> "S1", domain |-> DomainOf(sensor), deps |-> {}] \in Subtask
  BY <1>1, ConstantsAssumption DEF Subtask
<1> QED BY <1>2 DEF FallbackPlan

(* The statuses the critic and the verifier can return or write.           *)
LEMMA ResultTypes ==
  /\ \A ok \in BOOLEAN : /\ CriticResult(ok).status \in IncidentStatus
                         /\ CriticResult(ok).write \in IncidentStatus \cup {None}
  /\ \A met \in BOOLEAN : VerifiedStatus(met) \in {"closed", "planning", "failed"}
<1>1. tier_for_sensor(sensor) \in {"AUTO", "APPROVE"}
  BY DEF tier_for_sensor
<1>2. ASSUME NEW ok \in BOOLEAN
      PROVE  /\ CriticResult(ok).status \in IncidentStatus
             /\ CriticResult(ok).write \in IncidentStatus \cup {None}
  <2>1. CASE ~HasPrimary
    BY <2>1 DEF CriticResult, IncidentStatus
  <2>2. CASE HasPrimary /\ ok
    BY <2>2 DEF CriticResult, IncidentStatus
  <2>3. CASE HasPrimary /\ ~ok
    BY <2>3, <1>1 DEF CriticResult, IncidentStatus
  <2> QED BY <2>1, <2>2, <2>3
<1>3. ASSUME NEW met \in BOOLEAN
      PROVE  VerifiedStatus(met) \in {"closed", "planning", "failed"}
  BY DEF VerifiedStatus
<1> QED BY <1>2, <1>3

(* The subtasks of a plan carry ids a plan may use.                        *)
LEMMA PlanIdType ==
  ASSUME plan \in Seq(Subtask), NEW i \in DOMAIN plan
  PROVE  plan[i].id \in SubtaskIds
<1>1. plan[i] \in Subtask
  OBVIOUS
<1> QED BY <1>1 DEF Subtask

(* Writing a ticket keeps the table a table.                               *)
LEMMA WriteTicketType ==
  ASSUME ticket \in [AnomalySensors -> IncidentStatus \cup {None}],
         NEW st \in IncidentStatus \cup {None}, WriteTicket(st)
  PROVE  ticket' \in [AnomalySensors -> IncidentStatus \cup {None}]
BY DEF WriteTicket

(* replan_count is 0 at first and no ticket row is a terminal one.         *)
LEMMA TypeInit == Init => TypeInv
<1> SUFFICES ASSUME Init PROVE TypeInv
  OBVIOUS
<1>1. writes \in [DOMAIN plan -> {"idle", "sent", "failed"} \cup Outcome]
  BY DEF Init
<1>2. plan \in Seq(Subtask) /\ hydrated \subseteq DOMAIN plan
  BY DEF Init
<1>3. ticket \in [AnomalySensors -> IncidentStatus \cup {None}]
  BY DEF Init, IncidentStatus
<1>4. results \in [SubtaskIds -> Outcome \cup {None}]
  BY DEF Init
<1>5. live \in BOOLEAN /\ opened \in BOOLEAN
  BY ConstantsAssumption, Zenon DEF Init
<1>6. /\ replanCount \in 0 .. MaxReplans /\ faults \in 0 .. MaxFaults
      /\ commands \subseteq 0 .. MaxReplans
  BY ConstantsAssumption DEF Init
<1>7. status \in IncidentStatus
  BY DEF Init, IncidentStatus
<1> QED
  BY <1>1, <1>2, <1>3, <1>4, <1>5, <1>6, <1>7, Zenon
  DEF Init, TypeInv, TypeOK, BudgetLeft

(* Rows a scan reconciles and rows it opens stay rows.                     *)
LEMMA ReconciledType ==
  ASSUME ticket \in [AnomalySensors -> IncidentStatus \cup {None}], NEW inBand
  PROVE  /\ Reconciled(inBand) \in [AnomalySensors -> IncidentStatus \cup {None}]
         /\ \A s \in AnomalySensors :
              [Reconciled(inBand) EXCEPT ![s] = "open"]
                \in [AnomalySensors -> IncidentStatus \cup {None}]
<1>1. Reconciled(inBand) \in [AnomalySensors -> IncidentStatus \cup {None}]
  BY DEF Reconciled, IncidentStatus
<1>2. "open" \in IncidentStatus
  BY DEF IncidentStatus
<1> QED BY <1>1, <1>2

(* Every step of the thread keeps the types and the budget.                *)
LEMMA TypeStep == TypeInv /\ [Next]_vars => TypeInv'
<1> SUFFICES ASSUME TypeInv, [Next]_vars PROVE TypeInv'
  OBVIOUS
<1> USE ConstantsAssumption DEF TypeInv, TypeOK, BudgetLeft
<1>1. CASE Monitor
  <2>1. ticket' \in [AnomalySensors -> IncidentStatus \cup {None}]
    BY <1>1, ReconciledType DEF Monitor
  <2>2. /\ node' \in {"planner", END} /\ sensor' \in AnomalySensors \cup {None}
        /\ status' \in IncidentStatus /\ opened' \in BOOLEAN
    BY <1>1 DEF Monitor, IncidentStatus
  <2> QED BY <1>1, <2>1, <2>2 DEF Monitor, attempt, END
<1>2. CASE Planner
  <2>1. plan' \in Seq(Subtask)
    BY <1>2, FallbackPlanType DEF Planner
  <2> QED BY <1>2, <2>1 DEF Planner, effects, world, IncidentStatus, END
<1>3. CASE HydratePlaceholders
  <2>1. _ready_subtasks \subseteq DOMAIN plan
    BY DEF _ready_subtasks
  <2> QED BY <1>3, <2>1 DEF HydratePlaceholders, effects, world, END
<1>4. CASE Dispatch
  <2>1. writes' \in [DOMAIN plan -> {"idle", "sent", "failed"} \cup Outcome]
    BY <1>4 DEF Dispatch
  <2> QED BY <1>4, <2>1 DEF Dispatch, effects, world, END
<1>5. ASSUME NEW i \in DOMAIN plan, SpecialistReturns(i) PROVE TypeInv'
  <2>1. writes' \in [DOMAIN plan -> {"idle", "sent", "failed"} \cup Outcome]
    BY <1>5 DEF SpecialistReturns
  <2> QED BY <1>5, <2>1 DEF SpecialistReturns, effects, world
<1>6. CASE WaveJoins
  <2>1. results' \in [SubtaskIds -> Outcome \cup {None}]
    <3>1. ASSUME NEW id \in SubtaskIds,
                 Latest({i \in Delivered : plan[i].id = id}) # {}
          PROVE  writes[The(Latest({i \in Delivered : plan[i].id = id}))] \in Outcome
      BY <3>1 DEF Latest, The, Delivered
    <3> QED BY <1>6, <3>1 DEF WaveJoins
  <2>2. \A i \in DOMAIN plan : plan[i].id \in SubtaskIds
    BY PlanIdType
  <2>3. first' \in SubtaskIds \cup {None}
    <3>1. Earliest(Delivered) # {} => The(Earliest(Delivered)) \in DOMAIN plan
      BY DEF Earliest, The, Delivered
    <3> QED BY <1>6, <2>2, <3>1 DEF WaveJoins
  <2>4. failed' \subseteq SubtaskIds
    BY <1>6, <2>2 DEF WaveJoins
  <2> QED BY <1>6, <2>1, <2>3, <2>4 DEF WaveJoins, effects, world, END
<1>7. CASE Critic
  <2>1. PICK ok \in BOOLEAN :
          /\ status' = CriticResult(ok).status
          /\ WriteTicket(CriticResult(ok).write)
          /\ node' = _route_after_critic(ok)
    BY <1>7 DEF Critic, Judgements
  <2>2. status' \in IncidentStatus
        /\ ticket' \in [AnomalySensors -> IncidentStatus \cup {None}]
    BY <2>1, ResultTypes, WriteTicketType
  <2>3. /\ node' \in {"advisory", "autonomy_gate", "replan", END}
        /\ node' = "replan" => replans_left(replanCount)
    BY <2>1 DEF _route_after_critic, tier_for_sensor, END
  <2> QED BY <1>7, <2>2, <2>3 DEF Critic, attempt, world, replans_left
<1>8. CASE AutonomyGate
  <2>1. ticket' \in [AnomalySensors -> IncidentStatus \cup {None}]
    BY <1>8, WriteTicketType DEF AutonomyGate, IncidentStatus
  <2>2. /\ node' \in {node, "action"} /\ status' \in {status, "failed"}
        /\ gateAnswer' \in {gateAnswer, None} /\ mode' \in {mode, "parked"}
    BY <1>8 DEF AutonomyGate
  <2> QED BY <1>8, <2>1, <2>2 DEF AutonomyGate, At, attempt, world, IncidentStatus
<1>9. CASE Action
  <2>1. ticket' \in [AnomalySensors -> IncidentStatus \cup {None}]
    BY <1>9, WriteTicketType DEF Action, IncidentStatus
  <2>2. commands' \subseteq 0 .. MaxReplans /\ status' \in IncidentStatus
    BY <1>9 DEF Action, IncidentStatus
  <2> QED BY <1>9, <2>1, <2>2 DEF Action, attempt, world, END
<1>10. CASE Replan
  BY <1>10 DEF Replan, At, reset_attempt_channels, effects, world,
               IncidentStatus, END
<1>11. CASE AdvisoryClose
  <2>1. ticket' \in [AnomalySensors -> IncidentStatus \cup {None}]
    BY <1>11, WriteTicketType DEF AdvisoryClose, IncidentStatus
  <2> QED BY <1>11, <2>1 DEF AdvisoryClose, attempt, world, IncidentStatus, END
<1>12. CASE Verifier
  <2>1. CASE ~HasPrimary
    BY <1>12, <2>1 DEF Verifier, attempt, world, IncidentStatus, END
  <2>2. CASE HasPrimary
    <3>1. PICK met \in BOOLEAN :
            /\ status' = VerifiedStatus(met)
            /\ WriteTicket(VerifiedStatus(met))
            /\ save_trajectory(VerifiedStatus(met))
      BY <1>12, <2>2 DEF Verifier
    <3>2. status' \in {"closed", "planning", "failed"}
      BY <3>1, ResultTypes
    <3>3. ticket' \in [AnomalySensors -> IncidentStatus \cup {None}]
      BY <3>1, <3>2, WriteTicketType DEF IncidentStatus
    <3>4. memory' \in Terminal \cup {None}
      BY <3>1 DEF save_trajectory
    <3>5. status' = "planning" => replanCount < MaxReplans
      BY <3>1 DEF VerifiedStatus, replans_left
    <3>6. node' = IF status' = "planning" THEN "replan" ELSE END
      BY <1>12, <2>2 DEF Verifier
    <3> QED BY <1>12, <3>2, <3>3, <3>4, <3>5, <3>6
            DEF Verifier, attempt, world, IncidentStatus, END
  <2> QED BY <2>1, <2>2
<1>13. CASE VerifierRaises
  BY <1>13 DEF VerifierRaises, checkpoint, effects, world
<1>14. CASE WorldChanges
  BY <1>14 DEF WorldChanges, checkpoint, effects
<1>15. CASE Resume
  BY <1>15 DEF Resume, checkpoint, effects, world
<1>16. ASSUME NEW a \in {"approved", "rejected"}, AnswerGate(a) PROVE TypeInv'
  BY <1>16 DEF AnswerGate, attempt, effects, world
<1>17. CASE NodeFault
  <2>1. ticket' \in [AnomalySensors -> IncidentStatus \cup {None}]
    <3>1. ASSUME NEW st \in IncidentStatus \cup {None}, WriteTicket(st)
          PROVE  ticket' \in [AnomalySensors -> IncidentStatus \cup {None}]
      BY <3>1, WriteTicketType
    <3>2. /\ "awaiting_approval" \in IncidentStatus /\ "verifying" \in IncidentStatus
          /\ "observing" \in IncidentStatus
          /\ {"closed", "planning", "failed"} \subseteq IncidentStatus
      BY DEF IncidentStatus
    <3>3. \/ UNCHANGED ticket
          \/ \E inBand \in SUBSET (AnomalySensors \cap DOMAIN SENSOR_DOMAIN) :
               \/ ticket' = Reconciled(inBand)
               \/ \E s \in AnomalySensors :
                    ticket' = [Reconciled(inBand) EXCEPT ![s] = "open"]
          \/ \E st \in IncidentStatus \cup {None} : WriteTicket(st)
      BY <1>17, <3>2, ResultTypes DEF NodeFault, PartialEffects, effects, Judgements
    <3> QED BY <3>1, <3>3, ReconciledType DEF IncidentStatus
  <2>2. commands' \subseteq 0 .. MaxReplans
    BY <1>17 DEF NodeFault, PartialEffects, effects
  <2>3. memory' \in Terminal \cup {None}
    BY <1>17 DEF NodeFault, PartialEffects, effects, save_trajectory
  <2> QED BY <1>17, <2>1, <2>2, <2>3 DEF NodeFault, checkpoint
<1>18. CASE UNCHANGED vars
  BY <1>18 DEF vars, checkpoint, effects, world
<1> QED
  BY <1>1, <1>2, <1>3, <1>4, <1>5, <1>6, <1>7, <1>8, <1>9, <1>10, <1>11, <1>12,
     <1>13, <1>14, <1>15, <1>16, <1>17, <1>18 DEF Next, GraphStep

(***************************************************************************)
(* Every variable of a thread keeps the shape its Python or SQL            *)
(* counterpart has; replan_count never passes MAX_REPLANS.                 *)
(***************************************************************************)
THEOREM TypeInvariant == Spec => []TypeInv
BY TypeInit, TypeStep, PTL DEF Spec

(* TypeOK, the type invariant TLC checks, is part of it.                   *)
THEOREM TypeCorrect == Spec => []TypeOK
<1>1. TypeInv => TypeOK
  BY DEF TypeInv
<1> QED BY <1>1, TypeInvariant, PTL

(* What is derived from the attempt and the sensor changes only with them. *)
LEMMA DerivedUnchanged ==
  ASSUME UNCHANGED <<sensor, attempt>>
  PROVE  /\ HasPrimary' = HasPrimary /\ PrimaryId' = PrimaryId
         /\ Succeeded' = Succeeded /\ Resolved' = Resolved
         /\ PlanIds' = PlanIds /\ _ready_subtasks' = _ready_subtasks
         /\ tier_for_sensor(sensor)' = tier_for_sensor(sensor)
BY DEF attempt, HasPrimary, PrimaryId, MatchingPositions, Succeeded, Resolved,
       PlanIds, _ready_subtasks

-----------------------------------------------------------------------------
(* Layer 2: the wave loop.  A plan starts with nothing resolved, and the   *)
(* subtasks about to be sent have been hydrated.                           *)

FreshAttempt == node \in {"monitor", "planner"} => Resolved = {}

ReadyIsHydrated == node = "dispatch" => _ready_subtasks \subseteq hydrated

WaveInv ==
  /\ FreshAttempt
  /\ ReadyIsHydrated
  /\ AttemptsAreSeparate
  /\ DependencyClosed

LEMMA WaveInit == Init => WaveInv
<1> SUFFICES ASSUME Init PROVE WaveInv
  OBVIOUS
<1>1. Resolved = {}
  BY DEF Init, Resolved, Succeeded
<1> QED BY <1>1 DEF Init, WaveInv, FreshAttempt, ReadyIsHydrated,
               AttemptsAreSeparate, DependencyClosed

(* A step that leaves the attempt alone and enters none of its nodes.      *)
LEMMA WaveUntouched ==
  ASSUME WaveInv, UNCHANGED <<sensor, attempt>>,
         \/ node' = node
         \/ /\ node' \notin {"monitor", "planner", "hydrate_placeholders",
                              "dispatch", "specialists"}
            /\ node' = "critic" => node = "dispatch"
            /\ node \notin {"monitor", "replan"}
  PROVE  WaveInv'
<1>1. /\ Succeeded' = Succeeded /\ Resolved' = Resolved /\ PlanIds' = PlanIds
      /\ _ready_subtasks' = _ready_subtasks
      /\ plan' = plan /\ hydrated' = hydrated /\ writes' = writes
  BY DerivedUnchanged DEF attempt
<1> QED BY <1>1 DEF WaveInv, FreshAttempt, ReadyIsHydrated,
               AttemptsAreSeparate, DependencyClosed

(* What the barrier adds to the results is what the wave delivered.        *)
LEMMA JoinedResults ==
  ASSUME TypeInv, WaveJoins
  PROVE  /\ Succeeded \subseteq Succeeded'
         /\ \A id \in Succeeded' :
              id \in Succeeded \/ \E i \in Delivered : plan[i].id = id
<1> DEFINE last(id) == Latest({i \in Delivered : plan[i].id = id})
<1>1. ASSUME NEW id \in SubtaskIds
      PROVE  results'[id] = IF last(id) = {} THEN results[id]
                            ELSE writes[The(last(id))]
  BY <1>1 DEF WaveJoins
<1>2. ASSUME NEW id \in SubtaskIds, last(id) # {}
      PROVE  /\ The(last(id)) \in Delivered
             /\ plan[The(last(id))].id = id
             /\ writes[The(last(id))] # None
  <2>1. The(last(id)) \in last(id)
    BY <1>2 DEF The
  <2> QED BY <2>1, ConstantsAssumption DEF Latest, Delivered
<1>3. ASSUME NEW id \in Succeeded PROVE id \in Succeeded'
  BY <1>1, <1>2 DEF Succeeded
<1>4. ASSUME NEW id \in Succeeded'
      PROVE  id \in Succeeded \/ \E i \in Delivered : plan[i].id = id
  <2>1. id \in SubtaskIds /\ results'[id] # None
    BY DEF Succeeded
  <2> QED BY <2>1, <1>1, <1>2 DEF Succeeded
<1> QED BY <1>3, <1>4

LEMMA WaveStep ==
  ASSUME TypeInv, WaveInv, [Next]_vars
  PROVE  WaveInv'
<1> USE DEF At, END
<1>1. CASE Monitor
  <2>1. /\ Succeeded' = Succeeded /\ Resolved' = Resolved
        /\ node = "monitor" /\ node' \in {"planner", END}
    BY <1>1, DerivedUnchanged DEF Monitor, attempt, Succeeded, Resolved
  <2> QED BY <2>1 DEF WaveInv, FreshAttempt, ReadyIsHydrated,
                      AttemptsAreSeparate, DependencyClosed
<1>2. CASE Planner
  <2>1. Resolved = {} /\ Resolved' = Resolved /\ Succeeded' = Succeeded
    BY <1>2 DEF Planner, WaveInv, FreshAttempt, Resolved, Succeeded
  <2>2. \A i \in DOMAIN plan' : writes'[i] = "idle"
    BY <1>2 DEF Planner
  <2> QED BY <1>2, <2>1, <2>2 DEF Planner, WaveInv, FreshAttempt,
          ReadyIsHydrated, AttemptsAreSeparate, DependencyClosed, Resolved
<1>3. CASE HydratePlaceholders
  <2>1. /\ Succeeded' = Succeeded /\ Resolved' = Resolved /\ PlanIds' = PlanIds
        /\ _ready_subtasks' = _ready_subtasks
    BY <1>3 DEF HydratePlaceholders, Succeeded, Resolved, PlanIds, _ready_subtasks
  <2>2. hydrated \subseteq hydrated' /\ _ready_subtasks \subseteq hydrated'
    <3>1. _ready_subtasks \subseteq DOMAIN plan
      BY DEF _ready_subtasks
    <3> QED  BY <1>3, <3>1 DEF HydratePlaceholders
  <2>3. UNCHANGED <<plan, writes>> /\ node = "hydrate_placeholders" /\ node' = "dispatch"
    BY <1>3 DEF HydratePlaceholders, At
  <2> QED BY <2>1, <2>2, <2>3 DEF WaveInv, FreshAttempt,
          ReadyIsHydrated, AttemptsAreSeparate, DependencyClosed
<1>4. CASE Dispatch
  <2>1. /\ Succeeded' = Succeeded /\ Resolved' = Resolved /\ PlanIds' = PlanIds
    BY <1>4 DEF Dispatch, Succeeded, Resolved, PlanIds
  <2>2. CASE _ready_subtasks = {}
    BY <1>4, <2>1, <2>2 DEF Dispatch, WaveInv, FreshAttempt, ReadyIsHydrated,
       AttemptsAreSeparate, DependencyClosed
  <2>3. CASE _ready_subtasks # {}
    <3>1. \A i \in DOMAIN plan' : writes'[i] # "idle" => i \in _ready_subtasks
      BY <1>4, <2>3 DEF Dispatch
    <3>2. \A i \in _ready_subtasks : i \in hydrated /\ plan[i].deps \subseteq Succeeded
      BY <1>4 DEF Dispatch, WaveInv, ReadyIsHydrated, _ready_subtasks
    <3> QED BY <1>4, <2>1, <2>3, <3>1, <3>2 DEF Dispatch, WaveInv, FreshAttempt,
            ReadyIsHydrated, AttemptsAreSeparate, DependencyClosed
  <2> QED BY <2>2, <2>3
<1>5. ASSUME NEW i \in DOMAIN plan, SpecialistReturns(i) PROVE WaveInv'
  <2>1. /\ Succeeded' = Succeeded /\ Resolved' = Resolved /\ PlanIds' = PlanIds
    BY <1>5 DEF SpecialistReturns, Succeeded, Resolved, PlanIds
  <2>2. \A j \in DOMAIN plan : writes'[j] # "idle" => writes[j] # "idle"
    BY <1>5 DEF SpecialistReturns
  <2> QED BY <1>5, <2>1, <2>2 DEF SpecialistReturns, WaveInv, FreshAttempt,
          ReadyIsHydrated, AttemptsAreSeparate, DependencyClosed
<1>6. CASE WaveJoins
  <2>1. /\ node = "specialists" /\ node' = "hydrate_placeholders"
        /\ plan' = plan /\ hydrated' = hydrated /\ PlanIds' = PlanIds
    BY <1>6 DEF WaveJoins, PlanIds
  <2>2. \A i \in Delivered :
          i \in DOMAIN plan /\ i \in hydrated /\ plan[i].deps \subseteq Succeeded
    BY <2>1 DEF Delivered, Outcome, WaveInv, DependencyClosed
  <2>3. Resolved' \subseteq PlanIds
    <3>1. Resolved \subseteq PlanIds
      BY <2>1 DEF WaveInv, AttemptsAreSeparate
    <3>2. Succeeded' \subseteq PlanIds
      BY <1>6, <3>1, <2>2, JoinedResults DEF Resolved, PlanIds
    <3>3. failed' \subseteq PlanIds
      BY <1>6, <3>1 DEF WaveJoins, Resolved, PlanIds
    <3> QED BY <3>2, <3>3 DEF Resolved
  <2>4. \A id \in Succeeded' : \E i \in hydrated :
          plan[i].id = id /\ plan[i].deps \subseteq Succeeded'
    <3>1. \A id \in Succeeded : \E i \in hydrated :
            plan[i].id = id /\ plan[i].deps \subseteq Succeeded
      BY <2>1 DEF WaveInv, DependencyClosed
    <3> QED BY <1>6, <2>2, <3>1, JoinedResults
  <2>5. \A i \in DOMAIN plan' : writes'[i] = "idle"
    BY <1>6 DEF WaveJoins
  <2> QED BY <2>1, <2>3, <2>4, <2>5 DEF WaveInv, FreshAttempt, ReadyIsHydrated,
          AttemptsAreSeparate, DependencyClosed
<1>7. CASE Critic
  <2>1. node' \in {"advisory", "autonomy_gate", "replan", END}
    BY <1>7 DEF Critic, Judgements, _route_after_critic, tier_for_sensor
  <2> QED BY <1>7, <2>1, WaveUntouched DEF Critic
<1>8. CASE AutonomyGate
  <2>1. node' \in {node, "action"}
    BY <1>8 DEF AutonomyGate
  <2> QED BY <1>8, <2>1, WaveUntouched DEF AutonomyGate
<1>9. CASE Action
  BY <1>9, WaveUntouched DEF Action
<1>10. CASE Replan
  <2>1. Resolved' = {}
    BY <1>10 DEF Replan, reset_attempt_channels, Resolved, Succeeded
  <2> QED BY <1>10, <2>1 DEF Replan, WaveInv, FreshAttempt, ReadyIsHydrated,
          AttemptsAreSeparate, DependencyClosed
<1>11. CASE AdvisoryClose
  BY <1>11, WaveUntouched DEF AdvisoryClose
<1>12. CASE Verifier
  <2>1. node' \in {"replan", END}
    BY <1>12 DEF Verifier
  <2> QED BY <1>12, <2>1, WaveUntouched DEF Verifier
<1>13. ASSUME UNCHANGED checkpoint PROVE WaveInv'
  BY <1>13, WaveUntouched DEF checkpoint, attempt
<1>14. ASSUME NEW a \in {"approved", "rejected"}, AnswerGate(a) PROVE WaveInv'
  BY <1>14, WaveUntouched DEF AnswerGate
<1> QED
  BY <1>1, <1>2, <1>3, <1>4, <1>5, <1>6, <1>7, <1>8, <1>9, <1>10, <1>11, <1>12,
     <1>13, <1>14
  DEF Next, GraphStep, VerifierRaises, WorldChanges, Resume, NodeFault, vars

LEMMA WaveInvariant == Spec => []WaveInv
BY TypeInvariant, WaveInit, WaveStep, PTL DEF Spec

(* Nothing one attempt resolved counts as resolved in the next.            *)
THEOREM AttemptsSeparated == Spec => []AttemptsAreSeparate
<1>1. WaveInv => AttemptsAreSeparate
  BY DEF WaveInv
<1> QED BY <1>1, WaveInvariant, PTL

(* Whatever the plan, a diagnosis rests on diagnoses that succeeded.       *)
THEOREM DependenciesRespected == Spec => []DependencyClosed
<1>1. WaveInv => DependencyClosed
  BY DEF WaveInv
<1> QED BY <1>1, WaveInvariant, PTL

-----------------------------------------------------------------------------
(* Layer 3: how a thread ends.  What the nodes past the critic find in the *)
(* checkpoint is what the critic's route let through.                      *)

ThreadOpened ==
  /\ node = "monitor" => ~opened
  /\ node \notin {"monitor", END} => opened
  /\ opened => sensor \in AnomalySensors

(* A thread without any diagnosis gets past the critic only to be escalated *)
(* and its ticket says FAILED already.                                     *)
UndiagnosedHasFailed ==
  node \in {"autonomy_gate", "action", "verifier"} /\ ~HasPrimary =>
    ticket[sensor] = "failed" /\ tier_for_sensor(sensor) = "APPROVE"

(* Only a verifier that ran before it failed can have saved a trajectory.  *)
NothingRemembered ==
  /\ node # END /\ faults = 0 => memory = None
  /\ ~opened => memory = None

EndInv ==
  /\ ThreadOpened
  /\ UndiagnosedHasFailed
  /\ NothingRemembered
  /\ TicketAgreesAtEnd
  /\ BudgetSpentBeforeFailing
  /\ MemoryAgreesAtEnd
  /\ ParkedAfterIntervention

LEMMA EndInit == Init => EndInv
BY ConstantsAssumption
DEF Init, EndInv, ThreadOpened, UndiagnosedHasFailed, NothingRemembered,
    TicketAgreesAtEnd, BudgetSpentBeforeFailing, MemoryAgreesAtEnd,
    ParkedAfterIntervention, END

(* Every step leads a thread towards an end its ticket and memory agree on. *)
LEMMA EndStep == TypeInv /\ EndInv /\ [Next]_vars => EndInv'
<1> SUFFICES ASSUME TypeInv, EndInv, [Next]_vars PROVE EndInv'
  OBVIOUS
<1> DEFINE tierNow == tier_for_sensor(sensor)
<1>a. tierNow \in {"AUTO", "APPROVE"}
  BY DEF tier_for_sensor
<1>b. /\ ticket \in [AnomalySensors -> IncidentStatus \cup {None}]
      /\ replanCount \in 0 .. MaxReplans /\ faults \in Nat
      /\ None \notin IncidentStatus /\ MaxReplans \in Nat
  BY ConstantsAssumption DEF TypeInv, TypeOK
<1>c. ASSUME NEW st \in IncidentStatus, WriteTicket(st), sensor \in AnomalySensors
      PROVE  ticket'[sensor] = st
  BY <1>c, <1>b DEF WriteTicket
<1> USE DEF EndInv, ThreadOpened, UndiagnosedHasFailed, NothingRemembered,
            TicketAgreesAtEnd, BudgetSpentBeforeFailing, MemoryAgreesAtEnd,
            ParkedAfterIntervention, At, END
<1>1. CASE Monitor
  BY <1>1 DEF Monitor, attempt
<1>2. CASE Planner
  BY <1>2 DEF Planner, effects, world
<1>3. CASE HydratePlaceholders
  BY <1>3 DEF HydratePlaceholders, effects, world
<1>4. CASE Dispatch
  <2>1. node' \in {"critic", "specialists"}
    BY <1>4 DEF Dispatch
  <2> QED BY <1>4, <2>1 DEF Dispatch, effects, world
<1>5. ASSUME NEW i \in DOMAIN plan, SpecialistReturns(i) PROVE EndInv'
  BY <1>5 DEF SpecialistReturns, effects, world
<1>6. CASE WaveJoins
  BY <1>6 DEF WaveJoins, effects, world
<1>7. CASE Critic
  <2>1. PICK ok \in Judgements :
          /\ status' = CriticResult(ok).status
          /\ WriteTicket(CriticResult(ok).write)
          /\ node' = _route_after_critic(ok)
    BY <1>7 DEF Critic
  <2>2. HasPrimary' = HasPrimary /\ tier_for_sensor(sensor') = tierNow
    BY <1>7, DerivedUnchanged DEF Critic
  <2>3. ok \in BOOLEAN /\ (ok => HasPrimary)
    BY DEF Judgements
  <2>4. sensor \in AnomalySensors /\ "failed" \in IncidentStatus
    BY <1>7 DEF Critic, IncidentStatus
  <2>5. ~HasPrimary => status' = "failed" /\ ticket'[sensor] = "failed"
    BY <2>1, <2>4, <1>c DEF CriticResult
  <2>6. HasPrimary /\ ~ok /\ tierNow = "AUTO" /\ ~replans_left(replanCount)
          => status' = "failed" /\ ticket'[sensor] = "failed"
    BY <2>1, <2>4, <1>c DEF CriticResult
  <2>7. \/ node' \in {"advisory", "replan"}
        \/ node' = "autonomy_gate" /\ (~HasPrimary => tierNow = "APPROVE")
        \/ node' = END /\ ~ok /\ tierNow = "AUTO" /\ ~replans_left(replanCount)
    BY <2>1, <2>3, <1>a DEF _route_after_critic
  <2>8. ~replans_left(replanCount) => replanCount = MaxReplans
    BY <1>b DEF replans_left
  <2> QED BY <1>7, <1>b, <2>2, <2>3, <2>5, <2>6, <2>7, <2>8
          DEF Critic, Terminal, IncidentStatus, world
<1>8. CASE AutonomyGate
  <2>1. HasPrimary' = HasPrimary /\ tier_for_sensor(sensor') = tierNow
    BY <1>8, DerivedUnchanged DEF AutonomyGate
  <2>2. ~HasPrimary => UNCHANGED ticket
    BY <1>8 DEF AutonomyGate
  <2>3. node' \in {"autonomy_gate", "action"}
    BY <1>8 DEF AutonomyGate
  <2> QED BY <1>8, <2>1, <2>2, <2>3 DEF AutonomyGate, world
<1>9. CASE Action
  <2>1. HasPrimary' = HasPrimary /\ tier_for_sensor(sensor') = tierNow
    BY <1>9, DerivedUnchanged DEF Action
  <2>2. sensor \in AnomalySensors /\ "verifying" \in IncidentStatus
    BY <1>9 DEF Action, IncidentStatus
  <2>3. HasPrimary => replanCount \in commands' /\ ticket'[sensor] = "verifying"
    BY <1>9, <2>2, <1>c DEF Action
  <2>4. ~HasPrimary => status' = "failed" /\ UNCHANGED ticket
    BY <1>9 DEF Action
  <2> QED BY <1>9, <2>1, <2>3, <2>4 DEF Action, world
<1>10. CASE Replan
  BY <1>10 DEF Replan, effects, world
<1>11. CASE AdvisoryClose
  <2>1. sensor \in AnomalySensors /\ "observing" \in IncidentStatus
    BY <1>11 DEF AdvisoryClose, IncidentStatus
  <2>2. ticket'[sensor] = "observing"
    BY <1>11, <2>1, <1>c DEF AdvisoryClose
  <2> QED BY <1>11, <2>2 DEF AdvisoryClose, world
<1>12. CASE Verifier
  <2>1. HasPrimary' = HasPrimary /\ tier_for_sensor(sensor') = tierNow
    BY <1>12, DerivedUnchanged DEF Verifier
  <2>2. CASE ~HasPrimary
    <3>1. status' = "failed" /\ node' = END /\ UNCHANGED <<ticket, memory>>
      BY <1>12, <2>2 DEF Verifier
    <3> QED BY <1>12, <1>b, <2>1, <2>2, <3>1
            DEF Verifier, Terminal, IncidentStatus, world
  <2>3. CASE HasPrimary
    <3>1. PICK met \in BOOLEAN :
            /\ status' = VerifiedStatus(met)
            /\ WriteTicket(VerifiedStatus(met))
            /\ save_trajectory(VerifiedStatus(met))
      BY <1>12, <2>3 DEF Verifier
    <3>2. status' \in {"closed", "planning", "failed"}
      BY <3>1, ResultTypes
    <3>3. sensor \in AnomalySensors /\ status' \in IncidentStatus
      BY <1>12, <3>2 DEF Verifier, IncidentStatus
    <3>4. ticket'[sensor] = status'
      BY <3>1, <3>3, <1>c
    <3>5. status' \in Terminal => memory' = status'
      BY <3>1 DEF save_trajectory
    <3>6. status' = "failed" => replanCount = MaxReplans
      BY <3>1, <1>b DEF VerifiedStatus, replans_left
    <3>7. node' = IF status' = "planning" THEN "replan" ELSE END
      BY <1>12, <2>3 DEF Verifier
    <3>8. status' = "planning" => UNCHANGED memory
      BY <3>1 DEF save_trajectory, Terminal
    <3> QED BY <1>12, <2>1, <3>2, <3>4, <3>5, <3>6, <3>7, <3>8
            DEF Verifier, Terminal, world
  <2> QED BY <2>2, <2>3
<1>13. CASE VerifierRaises
  <2>1. HasPrimary' = HasPrimary /\ tier_for_sensor(sensor') = tierNow
    BY <1>13, DerivedUnchanged DEF VerifierRaises, checkpoint, attempt
  <2> QED BY <1>13, <2>1 DEF VerifierRaises, checkpoint, effects, world
<1>14. CASE WorldChanges
  <2>1. HasPrimary' = HasPrimary /\ tier_for_sensor(sensor') = tierNow
    BY <1>14, DerivedUnchanged DEF WorldChanges, checkpoint, attempt
  <2> QED BY <1>14, <2>1 DEF WorldChanges, checkpoint, effects
<1>15. CASE Resume
  <2>1. HasPrimary' = HasPrimary /\ tier_for_sensor(sensor') = tierNow
    BY <1>15, DerivedUnchanged DEF Resume, checkpoint, attempt
  <2> QED BY <1>15, <2>1 DEF Resume, checkpoint, effects, world
<1>16. ASSUME NEW a \in {"approved", "rejected"}, AnswerGate(a) PROVE EndInv'
  <2>1. HasPrimary' = HasPrimary /\ tier_for_sensor(sensor') = tierNow
    BY <1>16, DerivedUnchanged DEF AnswerGate
  <2> QED BY <1>16, <2>1 DEF AnswerGate, effects, world
<1>17. CASE NodeFault
  <2>1. HasPrimary' = HasPrimary /\ tier_for_sensor(sensor') = tierNow
    BY <1>17, DerivedUnchanged DEF NodeFault, checkpoint, attempt
  <2>2. node \in {"autonomy_gate", "action", "verifier"} /\ ~HasPrimary
          => UNCHANGED ticket
    BY <1>17 DEF NodeFault, PartialEffects, effects
  <2>3. node # "verifier" => UNCHANGED memory
    BY <1>17 DEF NodeFault, PartialEffects, effects
  <2>4. node # END /\ node' = node /\ faults' = faults + 1 /\ mode' = "halted"
    BY <1>17 DEF NodeFault, checkpoint
  <2> QED BY <1>17, <1>b, <2>1, <2>2, <2>3, <2>4 DEF NodeFault, checkpoint
<1>18. CASE UNCHANGED vars
  <2>1. HasPrimary' = HasPrimary /\ tier_for_sensor(sensor') = tierNow
    BY <1>18, DerivedUnchanged DEF vars, checkpoint, attempt
  <2> QED BY <1>18, <2>1 DEF vars, checkpoint, effects, world
<1> QED
  BY <1>1, <1>2, <1>3, <1>4, <1>5, <1>6, <1>7, <1>8, <1>9, <1>10, <1>11, <1>12,
     <1>13, <1>14, <1>15, <1>16, <1>17, <1>18 DEF Next, GraphStep

LEMMA EndInvariant == Spec => []EndInv
BY TypeInvariant, EndInit, EndStep, PTL DEF Spec

(***************************************************************************)
(* However often nodes fail and run again, a thread that ends an incident  *)
(* it opened leaves its ticket with the status of its state.               *)
(***************************************************************************)
THEOREM TicketAgrees == Spec => []TicketAgreesAtEnd
<1>1. EndInv => TicketAgreesAtEnd
  BY DEF EndInv
<1> QED BY <1>1, EndInvariant, PTL

(* A Tier 1 incident fails only after MAX_REPLANS replans.                 *)
THEOREM BudgetSpent == Spec => []BudgetSpentBeforeFailing
<1>1. EndInv => BudgetSpentBeforeFailing
  BY DEF EndInv
<1> QED BY <1>1, EndInvariant, PTL

(* Episodic memory and the ticket tell one story at the end.               *)
THEOREM MemoryAgrees == Spec => []MemoryAgreesAtEnd
<1>1. EndInv => MemoryAgreesAtEnd
  BY DEF EndInv
<1> QED BY <1>1, EndInvariant, PTL

(* A thread suspended before verify has acted, or has failed undiagnosed.  *)
THEOREM ParkedHasActed == Spec => []ParkedAfterIntervention
<1>1. EndInv => ParkedAfterIntervention
  BY DEF EndInv
<1> QED BY <1>1, EndInvariant, PTL

-----------------------------------------------------------------------------
(* Layer 4: who is authorised to act, in the deployment as shipped: no     *)
(* client answers the gate's interrupt().                                  *)

Approved ==
  /\ tier_for_sensor(sensor) = "AUTO"
  /\ verdict = "approved" /\ status = "acting"
  /\ results[PrimaryId] = "sound"

AuthorityInv ==
  /\ gateAnswer = None
  /\ node = "autonomy_gate" /\ HasPrimary /\ tier_for_sensor(sensor) = "AUTO"
       => Approved
  /\ node = "action" /\ HasPrimary => Approved

LEMMA AuthorityInit == Init => AuthorityInv
BY DEF Init, AuthorityInv

(* A checkpoint and what is derived from it move together.                 *)
LEMMA ApprovedUnchanged ==
  ASSUME UNCHANGED <<sensor, attempt, verdict, status>>
  PROVE  Approved' = Approved
BY DerivedUnchanged DEF Approved, attempt

LEMMA AuthorityStep ==
  ASSUME OperatorAnswers = FALSE, TypeInv, AuthorityInv, [Next]_vars
  PROVE  AuthorityInv'
<1> DEFINE tierNow == tier_for_sensor(sensor)
<1>a. tierNow \in {"AUTO", "APPROVE"}
  BY DEF tier_for_sensor
<1> USE DEF AuthorityInv, At, END
<1>1. CASE Monitor
  BY <1>1 DEF Monitor
<1>2. CASE Planner
  BY <1>2 DEF Planner
<1>3. CASE HydratePlaceholders
  BY <1>3 DEF HydratePlaceholders
<1>4. CASE Dispatch
  BY <1>4 DEF Dispatch
<1>5. ASSUME NEW i \in DOMAIN plan, SpecialistReturns(i) PROVE AuthorityInv'
  BY <1>5 DEF SpecialistReturns
<1>6. CASE WaveJoins
  BY <1>6 DEF WaveJoins
<1>7. CASE Critic
  <2>1. PICK ok \in Judgements :
          /\ verdict' = (IF ok THEN "approved" ELSE "disapproved")
          /\ status' = CriticResult(ok).status
          /\ node' = _route_after_critic(ok)
    BY <1>7 DEF Critic
  <2>2. /\ HasPrimary' = HasPrimary /\ PrimaryId' = PrimaryId
        /\ tier_for_sensor(sensor') = tierNow /\ results' = results
    BY <1>7, DerivedUnchanged DEF Critic, attempt
  <2>3. ok \in BOOLEAN /\ (ok => HasPrimary /\ results[PrimaryId] = "sound")
    BY DEF Judgements
  <2>4. /\ node' # "action"
        /\ node' = "autonomy_gate" /\ tierNow = "AUTO" => ok
    BY <2>1, <2>3, <1>a DEF _route_after_critic
  <2>5. ok => status' = "acting" /\ verdict' = "approved"
    BY <2>1, <2>3 DEF CriticResult
  <2> QED BY <1>7, <2>2, <2>3, <2>4, <2>5 DEF Critic, Approved
<1>8. CASE AutonomyGate
  <2>1. HasPrimary' = HasPrimary /\ tier_for_sensor(sensor') = tierNow
    BY <1>8, DerivedUnchanged DEF AutonomyGate
  <2>2. node' = "action" /\ HasPrimary => tierNow = "AUTO" /\ UNCHANGED status
    BY <1>8 DEF AutonomyGate
  <2>3. UNCHANGED <<sensor, attempt, verdict>> /\ gateAnswer' = None
    BY <1>8 DEF AutonomyGate
  <2>4. node' \in {node, "action"} /\ node = "autonomy_gate"
    BY <1>8 DEF AutonomyGate
  <2>5. CASE HasPrimary /\ tierNow = "AUTO"
    BY <1>8, <2>1, <2>2, <2>3, <2>4, <2>5, ApprovedUnchanged DEF AutonomyGate
  <2>6. CASE ~(HasPrimary /\ tierNow = "AUTO")
    BY <2>1, <2>2, <2>3, <2>4, <2>6
  <2> QED BY <2>5, <2>6
<1>9. CASE Action
  BY <1>9 DEF Action
<1>10. CASE Replan
  BY <1>10 DEF Replan
<1>11. CASE AdvisoryClose
  BY <1>11 DEF AdvisoryClose
<1>12. CASE Verifier
  <2>1. node' \in {"replan", END}
    BY <1>12 DEF Verifier
  <2> QED BY <1>12, <2>1 DEF Verifier
<1>13. ASSUME UNCHANGED checkpoint PROVE AuthorityInv'
  BY <1>13, DerivedUnchanged, ApprovedUnchanged DEF checkpoint, attempt
<1>14. ASSUME NEW a \in {"approved", "rejected"}, AnswerGate(a) PROVE FALSE
  BY <1>14 DEF AnswerGate
<1> QED
  BY <1>1, <1>2, <1>3, <1>4, <1>5, <1>6, <1>7, <1>8, <1>9, <1>10, <1>11, <1>12,
     <1>13, <1>14
  DEF Next, GraphStep, VerifierRaises, WorldChanges, Resume, NodeFault, vars

LEMMA AuthorityInvariant ==
  ASSUME OperatorAnswers = FALSE
  PROVE  Spec => []AuthorityInv
BY TypeInvariant, AuthorityInit, AuthorityStep, PTL DEF Spec

(***************************************************************************)
(* The human-only rule (graph.py:183): in the deployment as shipped the    *)
(* actuator is commanded only for a Tier 1 incident whose diagnosis of     *)
(* this attempt passed the numeric floor and the critic.                   *)
(***************************************************************************)
THEOREM ActuationAuthorised ==
  ASSUME OperatorAnswers = FALSE
  PROVE  Spec => OnlyApprovedActuation
<1>1. ASSUME AuthorityInv, [Next]_vars, commands' # commands
      PROVE  /\ tier_for_sensor(sensor) = "AUTO"
             /\ verdict = "approved" /\ status = "acting"
             /\ HasPrimary /\ results[PrimaryId] = "sound"
  <2>1. node = "action" /\ HasPrimary
    BY <1>1 DEF Next, GraphStep, Monitor, Planner, HydratePlaceholders, Dispatch,
       SpecialistReturns, WaveJoins, Critic, AutonomyGate, Action, Replan,
       AdvisoryClose, Verifier, VerifierRaises, WorldChanges, Resume, AnswerGate,
       NodeFault, PartialEffects, effects, vars, At
  <2> QED BY <1>1, <2>1 DEF AuthorityInv, Approved
<1>2. AuthorityInv /\ [Next]_vars =>
        [commands' # commands =>
           /\ tier_for_sensor(sensor) = "AUTO"
           /\ verdict = "approved" /\ status = "acting"
           /\ HasPrimary /\ results[PrimaryId] = "sound"]_vars
  BY <1>1
<1> QED BY <1>2, AuthorityInvariant, PTL DEF Spec, OnlyApprovedActuation

-----------------------------------------------------------------------------
(* Layer 5: the status the nodes past the critic find, on which the phase  *)
(* of the incident depends.                                                *)

StatusPastCritic ==
  /\ node \in {"autonomy_gate", "action", "verifier"} /\ ~HasPrimary
       => status = "failed"
  /\ node = "autonomy_gate" /\ HasPrimary
       => \/ status = "acting"
          \/ status = "awaiting_approval" /\ tier_for_sensor(sensor) = "APPROVE"
  /\ node = "verifier" /\ HasPrimary => status = "verifying"

(* Only a human-only incident awaits approval.                             *)
AwaitsOnlyTier3 ==
  opened /\ ticket[sensor] = "awaiting_approval"
    => tier_for_sensor(sensor) = "APPROVE"

PhaseInv == StatusPastCritic /\ AwaitsOnlyTier3

LEMMA PhaseInit == Init => PhaseInv
BY DEF Init, PhaseInv, StatusPastCritic, AwaitsOnlyTier3

LEMMA PhaseStep ==
  ASSUME OperatorAnswers = FALSE, TypeInv, EndInv, AuthorityInv, PhaseInv,
         [Next]_vars
  PROVE  PhaseInv'
<1> DEFINE tierNow == tier_for_sensor(sensor)
<1>a. tierNow \in {"AUTO", "APPROVE"}
  BY DEF tier_for_sensor
<1>b. ticket \in [AnomalySensors -> IncidentStatus \cup {None}]
  BY DEF TypeInv, TypeOK
<1>c. ASSUME NEW st \in IncidentStatus \cup {None}, WriteTicket(st),
             sensor' = sensor, sensor \in AnomalySensors, opened' = opened,
             st # "awaiting_approval" \/ tierNow = "APPROVE"
      PROVE  AwaitsOnlyTier3'
  BY <1>b, <1>c DEF WriteTicket, PhaseInv, AwaitsOnlyTier3
<1>d. ASSUME UNCHANGED <<sensor, attempt, opened, ticket>> PROVE AwaitsOnlyTier3'
  BY <1>d DEF PhaseInv, AwaitsOnlyTier3
<1>e. node \notin {"monitor", END} => opened /\ sensor \in AnomalySensors
  BY DEF EndInv, ThreadOpened
<1>f. ASSUME UNCHANGED <<sensor, attempt, status, node>> PROVE StatusPastCritic'
  BY <1>f, DerivedUnchanged DEF PhaseInv, StatusPastCritic
<1>g. ASSUME node' \notin {"autonomy_gate", "action", "verifier"}
      PROVE  StatusPastCritic'
  BY <1>g DEF StatusPastCritic
<1>h. None # "awaiting_approval" /\ {"planning", "failed", "closed", "verifying",
          "observing", "awaiting_approval"} \subseteq IncidentStatus
  BY ConstantsAssumption DEF IncidentStatus
<1> USE DEF At, END, PhaseInv
<1>1. CASE Monitor
  <2>1. ASSUME opened' PROVE ticket'[sensor'] = "open"
    <3>1. ~opened
      BY <1>1 DEF Monitor, EndInv, ThreadOpened
    <3>2. PICK inBand \in SUBSET (AnomalySensors \cap DOMAIN SENSOR_DOMAIN),
               s \in AnomalySensors :
            ticket' = [Reconciled(inBand) EXCEPT ![s] = "open"] /\ sensor' = s
      BY <1>1, <2>1, <3>1 DEF Monitor
    <3> QED BY <3>2 DEF Reconciled
  <2>2. node' \in {"planner", END}
    BY <1>1 DEF Monitor
  <2> QED BY <1>g, <2>1, <2>2 DEF AwaitsOnlyTier3
<1>2. CASE Planner
  BY <1>2, <1>g DEF Planner, effects, AwaitsOnlyTier3
<1>3. CASE HydratePlaceholders
  BY <1>3, <1>g DEF HydratePlaceholders, effects, AwaitsOnlyTier3
<1>4. CASE Dispatch
  <2>1. node' \in {"critic", "specialists"}
    BY <1>4 DEF Dispatch
  <2> QED BY <1>4, <2>1, <1>g DEF Dispatch, effects, AwaitsOnlyTier3
<1>5. ASSUME NEW i \in DOMAIN plan, SpecialistReturns(i) PROVE PhaseInv'
  BY <1>5, <1>g DEF SpecialistReturns, effects, AwaitsOnlyTier3
<1>6. CASE WaveJoins
  BY <1>6, <1>g DEF WaveJoins, effects, AwaitsOnlyTier3
<1>7. CASE Critic
  <2>1. PICK ok \in Judgements :
          /\ status' = CriticResult(ok).status
          /\ WriteTicket(CriticResult(ok).write)
          /\ node' = _route_after_critic(ok)
    BY <1>7 DEF Critic
  <2>2. HasPrimary' = HasPrimary /\ tier_for_sensor(sensor') = tierNow
    BY <1>7, DerivedUnchanged DEF Critic
  <2>3. ok \in BOOLEAN /\ (ok => HasPrimary)
    BY DEF Judgements
  <2>4. /\ CriticResult(ok).write \in IncidentStatus \cup {None}
        /\ CriticResult(ok).write # "awaiting_approval" \/ tierNow = "APPROVE"
    BY <2>3, <1>a, <1>h, ResultTypes DEF CriticResult
  <2>5. AwaitsOnlyTier3'
    BY <1>7, <1>c, <1>e, <2>1, <2>4 DEF Critic
  <2>6. /\ node' \notin {"action", "verifier"}
        /\ node' = "autonomy_gate" => ok \/ tierNow = "APPROVE"
    BY <2>1, <2>3, <1>a DEF _route_after_critic
  <2>7. /\ ~HasPrimary => status' = "failed"
        /\ HasPrimary /\ ok => status' = "acting"
        /\ HasPrimary /\ ~ok /\ tierNow = "APPROVE" => status' = "awaiting_approval"
    BY <2>1, <2>3 DEF CriticResult
  <2> QED BY <2>2, <2>3, <2>5, <2>6, <2>7 DEF StatusPastCritic
<1>8. CASE AutonomyGate
  <2>1. HasPrimary' = HasPrimary /\ tier_for_sensor(sensor') = tierNow
    BY <1>8, DerivedUnchanged DEF AutonomyGate
  <2>2. AwaitsOnlyTier3'
    BY <1>8, <1>c, <1>d, <1>e, <1>h DEF AutonomyGate
  <2>3. /\ ~HasPrimary => status' = "failed" /\ node' = "action"
        /\ HasPrimary /\ tierNow = "AUTO" => node' = "action"
        /\ HasPrimary /\ tierNow = "APPROVE" =>
             node' = "autonomy_gate" /\ UNCHANGED status
    BY <1>8 DEF AutonomyGate, AuthorityInv
  <2> QED BY <1>8, <1>a, <2>1, <2>2, <2>3 DEF AutonomyGate, StatusPastCritic
<1>9. CASE Action
  <2>1. HasPrimary' = HasPrimary
    BY <1>9, DerivedUnchanged DEF Action
  <2>2. AwaitsOnlyTier3'
    BY <1>9, <1>c, <1>d, <1>e, <1>h DEF Action
  <2> QED BY <1>9, <2>1, <2>2 DEF Action, StatusPastCritic
<1>10. CASE Replan
  BY <1>10, <1>g DEF Replan, effects, AwaitsOnlyTier3
<1>11. CASE AdvisoryClose
  BY <1>11, <1>c, <1>e, <1>g, <1>h DEF AdvisoryClose
<1>12. CASE Verifier
  <2>1. node' \in {"replan", END}
    BY <1>12 DEF Verifier
  <2>2. AwaitsOnlyTier3'
    BY <1>12, <1>c, <1>d, <1>e, <1>h, ResultTypes DEF Verifier
  <2> QED BY <2>1, <2>2, <1>g
<1>13. ASSUME UNCHANGED <<checkpoint, ticket>> PROVE PhaseInv'
  BY <1>13, <1>d, <1>f DEF checkpoint, attempt
<1>14. ASSUME NEW a \in {"approved", "rejected"}, AnswerGate(a) PROVE FALSE
  BY <1>14 DEF AnswerGate
<1>15. CASE NodeFault
  <2>1. AwaitsOnlyTier3'
    <3>1. CASE node = "monitor"
      BY <1>15, <3>1 DEF NodeFault, checkpoint, EndInv, ThreadOpened, AwaitsOnlyTier3
    <3>2. CASE node = "critic"
      <4>1. CASE UNCHANGED ticket
        BY <1>15, <4>1, <1>d DEF NodeFault, checkpoint, attempt
      <4>2. CASE \E ok \in Judgements : WriteTicket(CriticResult(ok).write)
        <5>1. PICK ok \in BOOLEAN :
                WriteTicket(CriticResult(ok).write) /\ (ok => HasPrimary)
          BY <4>2 DEF Judgements
        <5>2. /\ CriticResult(ok).write \in IncidentStatus \cup {None}
              /\ CriticResult(ok).write # "awaiting_approval" \/ tierNow = "APPROVE"
          BY <5>1, <1>a, <1>h, ResultTypes DEF CriticResult
        <5> QED BY <1>15, <3>2, <5>1, <5>2, <1>c, <1>e DEF NodeFault, checkpoint
      <4> QED BY <1>15, <3>2, <4>1, <4>2 DEF NodeFault, PartialEffects, effects
    <3>3. CASE node \notin {"monitor", "critic"}
      <4>1. node # END /\ UNCHANGED <<sensor, attempt, opened>>
        BY <1>15 DEF NodeFault, checkpoint, attempt
      <4>2. \/ UNCHANGED ticket
            \/ WriteTicket("awaiting_approval") /\ tierNow = "APPROVE"
            \/ WriteTicket("verifying")
            \/ WriteTicket("observing")
            \/ \E met \in BOOLEAN : WriteTicket(VerifiedStatus(met))
        BY <1>15, <3>3 DEF NodeFault, PartialEffects, effects
      <4> QED BY <3>3, <4>1, <4>2, <1>c, <1>d, <1>e, <1>h, ResultTypes
    <3> QED BY <3>1, <3>2, <3>3
  <2> QED BY <1>15, <2>1, <1>f DEF NodeFault, checkpoint, attempt
<1> QED
  BY <1>1, <1>2, <1>3, <1>4, <1>5, <1>6, <1>7, <1>8, <1>9, <1>10, <1>11, <1>12,
     <1>13, <1>14, <1>15
  DEF Next, GraphStep, VerifierRaises, WorldChanges, Resume, vars, effects

LEMMA PhaseInvariant ==
  ASSUME OperatorAnswers = FALSE
  PROVE  Spec => []PhaseInv
BY TypeInvariant, EndInvariant, AuthorityInvariant, PhaseInit, PhaseStep, PTL
DEF Spec

-----------------------------------------------------------------------------
(* The thread implements IncidentLifecycle.                                *)

DiagnosingNodes == {"planner", "hydrate_placeholders", "dispatch", "specialists",
                    "critic", "replan", "advisory"}

(* The phase, read off the status at each node.                            *)
PhaseFacts ==
  /\ ~opened /\ node # END => phase = "none"
  /\ ~opened /\ node = END => phase = "quiet"
  /\ opened /\ node \in DiagnosingNodes => phase = "diagnosing"
  /\ opened /\ node \in {"autonomy_gate", "action", "verifier", END} =>
       /\ status = "failed" => phase = "failed"
       /\ status = "verifying" => phase = "intervened"
       /\ status = "closed" => phase = "closed"
       /\ status = "observing" => phase = "watched"
       /\ status = "awaiting_approval" => phase = "awaiting_human"
       /\ status = "acting" /\ ticket[sensor] = "awaiting_approval"
            => phase = "awaiting_human"
       /\ status = "acting" /\ ticket[sensor] # "awaiting_approval"
            => phase = "diagnosing"

LEMMA PhaseValues == PhaseFacts
<1>1. ~opened => phase = IF node = END THEN "quiet" ELSE "none"
  BY DEF phase
<1>2. ASSUME opened, node \in DiagnosingNodes PROVE phase = "diagnosing"
  BY <1>2 DEF phase, DiagnosingNodes, END
<1>3. ASSUME opened, node \in {"autonomy_gate", "action", "verifier", END}
      PROVE  phase =
               CASE status = "failed" -> "failed"
                 [] status = "verifying" -> "intervened"
                 [] status = "closed" -> "closed"
                 [] status = "observing" -> "watched"
                 [] status = "awaiting_approval" -> "awaiting_human"
                 [] status = "acting" ->
                      IF ticket[sensor] = "awaiting_approval" THEN "awaiting_human"
                      ELSE "diagnosing"
  BY <1>3 DEF phase, END
<1> QED BY <1>1, <1>2, <1>3 DEF PhaseFacts

(* Steps that do not tell on the phase.                                    *)
LEMMA PhaseUnchanged ==
  ASSUME UNCHANGED <<node, status, opened, sensor, replanCount>>,
         (ticket'[sensor] = "awaiting_approval") <=>
           (ticket[sensor] = "awaiting_approval")
  PROVE  UNCHANGED <<phase, tier, attempts>>
BY DEF phase, tier, attempts

LEMMA LifecycleInit == Init => Lifecycle!Init
<1> SUFFICES ASSUME Init PROVE Lifecycle!Init
  OBVIOUS
<1>1. phase = "none"
  BY PhaseValues DEF PhaseFacts, Init, END
<1> QED BY <1>1 DEF Init, Lifecycle!Init, tier, attempts

LEMMA LifecycleStep ==
  ASSUME OperatorAnswers = FALSE, TypeInv, EndInv, EndInv', AuthorityInv, PhaseInv,
         PhaseInv', [Next]_vars
  PROVE  [Lifecycle!Next]_(Lifecycle!lifecycle)
<1> DEFINE tierNow == tier_for_sensor(sensor)
           Stutter == UNCHANGED <<phase, tier, attempts>>
<1>a. tierNow \in {"AUTO", "APPROVE"} /\ tier_for_sensor(sensor') \in {"AUTO", "APPROVE"}
  BY DEF tier_for_sensor
<1>b. PhaseFacts /\ PhaseFacts'
  BY PhaseValues, PTL
<1>c. node \notin {"monitor", END} => opened /\ sensor \in AnomalySensors
  BY DEF EndInv, ThreadOpened
<1>d. ticket \in [AnomalySensors -> IncidentStatus \cup {None}]
  BY DEF TypeInv, TypeOK
<1>e. ASSUME NEW st \in IncidentStatus, WriteTicket(st), sensor \in AnomalySensors
      PROVE  ticket'[sensor] = st
  BY <1>e, <1>d, ConstantsAssumption DEF WriteTicket
<1>f. {"planning", "failed", "closed", "verifying", "observing",
       "awaiting_approval"} \subseteq IncidentStatus
  BY DEF IncidentStatus
<1>g. ASSUME opened, opened', sensor' = sensor, replanCount' = replanCount,
             node \in DiagnosingNodes \ {"replan"},
             node' \in DiagnosingNodes \ {"replan"}
      PROVE  Stutter
  BY <1>b, <1>g DEF PhaseFacts, tier, attempts
<1>h. Stutter => [Lifecycle!Next]_(Lifecycle!lifecycle)
  BY DEF Lifecycle!lifecycle
<1> USE DEF At, END
<1>1. CASE Monitor
  <2>1. ~opened /\ phase = "none" /\ tier = "AUTO" /\ replanCount' = replanCount
    BY <1>1, <1>b DEF Monitor, PhaseFacts, EndInv, ThreadOpened, tier
  <2>2. CASE opened' /\ node' = "planner"
    <3>1. phase' = "diagnosing" /\ tier' \in {"AUTO", "APPROVE"} /\ attempts' = attempts
      BY <1>1, <1>a, <1>b, <2>1, <2>2
      DEF Monitor, PhaseFacts, DiagnosingNodes, tier, attempts
    <3> QED BY <2>1, <3>1 DEF Lifecycle!Next, Lifecycle!Open
  <2>3. CASE ~opened' /\ node' = END
    <3>1. phase' = "quiet" /\ UNCHANGED <<tier, attempts>>
      BY <1>1, <1>b, <2>1, <2>3 DEF Monitor, PhaseFacts, tier, attempts
    <3> QED BY <2>1, <3>1 DEF Lifecycle!Next, Lifecycle!Ignore
  <2> QED BY <1>1, <2>1, <2>2, <2>3 DEF Monitor
<1>2. CASE Planner
  BY <1>2, <1>c, <1>g, <1>h DEF Planner, DiagnosingNodes
<1>3. CASE HydratePlaceholders
  BY <1>3, <1>c, <1>g, <1>h DEF HydratePlaceholders, DiagnosingNodes
<1>4. CASE Dispatch
  <2>1. node' \in {"critic", "specialists"}
    BY <1>4 DEF Dispatch
  <2> QED BY <1>4, <2>1, <1>c, <1>g, <1>h DEF Dispatch, DiagnosingNodes
<1>5. ASSUME NEW i \in DOMAIN plan, SpecialistReturns(i) PROVE Stutter
  BY <1>5, <1>c, <1>g DEF SpecialistReturns, DiagnosingNodes
<1>6. CASE WaveJoins
  BY <1>6, <1>c, <1>g, <1>h DEF WaveJoins, DiagnosingNodes
<1>7. CASE Critic
  <2>1. PICK ok \in Judgements :
          /\ status' = CriticResult(ok).status
          /\ WriteTicket(CriticResult(ok).write)
          /\ node' = _route_after_critic(ok)
    BY <1>7 DEF Critic
  <2>2. ok \in BOOLEAN /\ (ok => HasPrimary)
    BY DEF Judgements
  <2>3. /\ opened /\ opened' /\ sensor \in AnomalySensors
        /\ UNCHANGED <<sensor, replanCount>>
        /\ phase = "diagnosing" /\ tier = tierNow /\ tier' = tier
        /\ attempts = replanCount
    BY <1>7, <1>b, <1>c DEF Critic, PhaseFacts, DiagnosingNodes, tier, attempts
  <2>4. CASE node' = "advisory"
    BY <1>7, <2>3, <2>4, <1>g, <1>h DEF Critic, DiagnosingNodes
  <2>5. CASE node' = "replan" /\ replans_left(replanCount)
    <3>1. phase' = "diagnosing" /\ attempts' = attempts + 1
      BY <2>3, <2>5, <1>b DEF PhaseFacts, DiagnosingNodes, attempts
    <3> QED BY <2>3, <2>5, <3>1 DEF Lifecycle!Next, Lifecycle!Retry, replans_left
  <2>6. CASE node' = END /\ ~ok /\ tierNow = "AUTO" /\ ~replans_left(replanCount)
    <3>1. status' = "failed"
      BY <2>1, <2>6 DEF CriticResult
    <3>2. phase' = "failed" /\ attempts' = attempts
      BY <2>3, <2>6, <3>1, <1>b DEF PhaseFacts, attempts
    <3>3. attempts = MaxReplans
      BY <2>3, <2>6, ConstantsAssumption DEF TypeInv, TypeOK, replans_left
    <3> QED BY <2>3, <3>2, <3>3 DEF Lifecycle!Next, Lifecycle!GiveUp
  <2>7. CASE node' = "autonomy_gate" /\ (ok \/ tierNow = "APPROVE")
    <3>1. attempts' = attempts
      BY <2>3, <2>7 DEF attempts
    <3>2. CASE ~HasPrimary
      <4>1. status' = "failed"
        BY <2>1, <3>2 DEF CriticResult
      <4>2. phase' = "failed"
        BY <2>3, <2>7, <4>1, <1>b DEF PhaseFacts
      <4> QED BY <2>2, <2>3, <2>7, <3>1, <3>2, <4>2
              DEF Lifecycle!Next, Lifecycle!GiveUp
    <3>3. CASE HasPrimary /\ ok
      <4>1. status' = "acting"
        BY <2>1, <3>3 DEF CriticResult
      <4>2. CASE ticket'[sensor'] = "awaiting_approval"
        <5>1. tierNow = "APPROVE" /\ phase' = "awaiting_human"
          BY <2>3, <2>7, <4>1, <4>2, <1>b DEF PhaseFacts, PhaseInv, AwaitsOnlyTier3
        <5> QED BY <2>3, <3>1, <5>1 DEF Lifecycle!Next, Lifecycle!Escalate
      <4>3. CASE ticket'[sensor'] # "awaiting_approval"
        <5>1. phase' = "diagnosing"
          BY <2>3, <2>7, <4>1, <4>3, <1>b DEF PhaseFacts
        <5> QED BY <2>3, <3>1, <5>1, <1>h
      <4> QED BY <4>2, <4>3
    <3>4. CASE HasPrimary /\ ~ok
      <4>1. status' = "awaiting_approval" /\ tierNow = "APPROVE"
        BY <2>1, <2>7, <3>4 DEF CriticResult
      <4>2. phase' = "awaiting_human"
        BY <2>3, <2>7, <4>1, <1>b DEF PhaseFacts
      <4> QED BY <2>3, <3>1, <4>1, <4>2 DEF Lifecycle!Next, Lifecycle!Escalate
    <3> QED BY <3>2, <3>3, <3>4
  <2>8. \/ node' = "advisory"
        \/ node' = "replan" /\ replans_left(replanCount)
        \/ node' = END /\ ~ok /\ tierNow = "AUTO" /\ ~replans_left(replanCount)
        \/ node' = "autonomy_gate" /\ (ok \/ tierNow = "APPROVE")
    BY <2>1, <2>2, <1>a DEF _route_after_critic
  <2> QED BY <2>4, <2>5, <2>6, <2>7, <2>8
<1>8. CASE AutonomyGate
  <2>1. /\ opened /\ opened' /\ sensor \in AnomalySensors
        /\ UNCHANGED <<sensor, replanCount>> /\ tier = tierNow /\ tier' = tier
        /\ attempts' = attempts /\ node = "autonomy_gate"
    <3>1. opened /\ UNCHANGED <<sensor, opened, replanCount>>
          /\ node = "autonomy_gate" /\ node' \in {"autonomy_gate", "action"}
      BY <1>8, <1>c DEF AutonomyGate
    <3> QED BY <1>c, <3>1 DEF tier, attempts
  <2>2. CASE ~HasPrimary
    <3>1. status = "failed" /\ status' = "failed" /\ node' = "action"
      BY <1>8, <2>2 DEF AutonomyGate, PhaseInv, StatusPastCritic
    <3>2. phase = "failed" /\ phase' = "failed"
      BY <2>1, <3>1, <1>b DEF PhaseFacts
    <3> QED BY <2>1, <3>2, <1>h
  <2>3. CASE HasPrimary /\ tierNow = "AUTO"
    <3>1. node' = "action" /\ UNCHANGED <<status, ticket>> /\ status = "acting"
      BY <1>8, <2>3 DEF AutonomyGate, AuthorityInv, Approved
    <3>2. phase' = phase
      BY <2>1, <3>1, <1>b DEF PhaseFacts
    <3> QED BY <2>1, <3>2, <1>h
  <2>4. CASE HasPrimary /\ tierNow = "APPROVE"
    <3>1. /\ node' = "autonomy_gate" /\ UNCHANGED status
          /\ WriteTicket("awaiting_approval")
      BY <1>8, <2>4 DEF AutonomyGate, AuthorityInv
    <3>2. status \in {"acting", "awaiting_approval"}
      BY <2>1, <2>4 DEF PhaseInv, StatusPastCritic
    <3>3. ticket'[sensor] = "awaiting_approval"
      BY <2>1, <3>1, <1>e, <1>f
    <3>4. phase' = "awaiting_human" /\ phase \in {"diagnosing", "awaiting_human"}
      BY <2>1, <3>1, <3>2, <3>3, <1>b DEF PhaseFacts
    <3> QED BY <2>1, <2>4, <3>4, <1>h DEF Lifecycle!Next, Lifecycle!Escalate
  <2> QED BY <1>a, <2>2, <2>3, <2>4
<1>9. CASE Action
  <2>1. /\ opened /\ opened' /\ sensor \in AnomalySensors
        /\ UNCHANGED <<sensor, replanCount>> /\ tier = tierNow /\ tier' = tier
        /\ attempts' = attempts /\ node = "action" /\ node' = "verifier"
    BY <1>9, <1>c DEF Action, tier, attempts
  <2>2. CASE ~HasPrimary
    <3>1. status = "failed" /\ status' = "failed"
      BY <1>9, <2>2 DEF Action, PhaseInv, StatusPastCritic
    <3>2. phase = "failed" /\ phase' = "failed"
      BY <2>1, <3>1, <1>b DEF PhaseFacts
    <3> QED BY <2>1, <3>2, <1>h
  <2>3. CASE HasPrimary
    <3>1. status' = "verifying" /\ status = "acting" /\ tierNow = "AUTO"
      BY <1>9, <2>3 DEF Action, AuthorityInv, Approved
    <3>2. ticket[sensor] # "awaiting_approval"
      BY <2>1, <3>1 DEF PhaseInv, AwaitsOnlyTier3
    <3>3. phase = "diagnosing" /\ phase' = "intervened"
      BY <2>1, <3>1, <3>2, <1>b DEF PhaseFacts
    <3> QED BY <2>1, <3>1, <3>3 DEF Lifecycle!Next, Lifecycle!Intervene
  <2> QED BY <2>2, <2>3
<1>10. CASE Replan
  <2>1. phase = "diagnosing" /\ phase' = "diagnosing"
    BY <1>10, <1>b, <1>c DEF Replan, PhaseFacts, DiagnosingNodes
  <2>2. UNCHANGED <<tier, attempts>>
    BY <1>10 DEF Replan, tier, attempts
  <2> QED BY <2>1, <2>2, <1>h
<1>11. CASE AdvisoryClose
  <2>1. phase = "diagnosing" /\ phase' = "watched"
    BY <1>11, <1>b, <1>c DEF AdvisoryClose, PhaseFacts, DiagnosingNodes
  <2>2. UNCHANGED <<tier, attempts>>
    BY <1>11 DEF AdvisoryClose, tier, attempts
  <2> QED BY <2>1, <2>2 DEF Lifecycle!Next, Lifecycle!Observe
<1>12. CASE Verifier
  <2>1. /\ opened /\ opened' /\ UNCHANGED <<sensor, replanCount>>
        /\ tier' = tier /\ node = "verifier" /\ attempts = replanCount
    BY <1>12, <1>c DEF Verifier, tier, attempts
  <2>2. CASE ~HasPrimary
    <3>1. status = "failed" /\ status' = "failed" /\ node' = END
      BY <1>12, <2>2 DEF Verifier, PhaseInv, StatusPastCritic
    <3>2. phase = "failed" /\ phase' = "failed" /\ attempts' = attempts
      BY <2>1, <3>1, <1>b DEF PhaseFacts, attempts
    <3> QED BY <2>1, <3>2, <1>h
  <2>3. CASE HasPrimary
    <3>1. PICK met \in BOOLEAN : status' = VerifiedStatus(met)
      BY <1>12, <2>3 DEF Verifier
    <3>2. node' = IF status' = "planning" THEN "replan" ELSE END
      BY <1>12, <2>3 DEF Verifier
    <3>3. phase = "intervened"
      BY <2>1, <2>3, <1>b DEF PhaseFacts, PhaseInv, StatusPastCritic
    <3>4. CASE status' = "closed"
      <4>1. phase' = "closed" /\ attempts' = attempts
        BY <2>1, <3>2, <3>4, <1>b DEF PhaseFacts, attempts
      <4> QED BY <2>1, <3>3, <4>1 DEF Lifecycle!Next, Lifecycle!Close
    <3>5. CASE status' = "planning"
      <4>1. attempts < MaxReplans
        BY <2>1, <3>1, <3>5 DEF VerifiedStatus, replans_left
      <4>2. phase' = "diagnosing" /\ attempts' = attempts + 1
        BY <2>1, <3>2, <3>5, <1>b DEF PhaseFacts, DiagnosingNodes, attempts
      <4> QED BY <2>1, <3>3, <4>1, <4>2 DEF Lifecycle!Next, Lifecycle!Retry
    <3>6. CASE status' = "failed"
      <4>1. attempts = MaxReplans
        BY <2>1, <3>1, <3>6, ConstantsAssumption
        DEF VerifiedStatus, replans_left, TypeInv, TypeOK
      <4>2. phase' = "failed" /\ attempts' = attempts
        BY <2>1, <3>2, <3>6, <1>b DEF PhaseFacts, attempts
      <4> QED BY <2>1, <3>3, <4>1, <4>2 DEF Lifecycle!Next, Lifecycle!GiveUp
    <3> QED BY <3>1, <3>4, <3>5, <3>6, ResultTypes
  <2> QED BY <2>2, <2>3
<1>13. ASSUME UNCHANGED <<checkpoint, ticket>> PROVE Stutter
  BY <1>13, PhaseUnchanged DEF checkpoint
<1>14. ASSUME NEW a \in {"approved", "rejected"}, AnswerGate(a) PROVE FALSE
  BY <1>14 DEF AnswerGate
<1>15. CASE NodeFault
  <2>1. /\ UNCHANGED <<node, status, opened, sensor, replanCount>> /\ node # END
        /\ UNCHANGED <<tier, attempts>>
    BY <1>15 DEF NodeFault, checkpoint, tier, attempts
  <2>2. CASE node = "monitor" \/ node \in DiagnosingNodes
    BY <2>1, <2>2, <1>b, <1>c, <1>h DEF PhaseFacts, EndInv, ThreadOpened,
       DiagnosingNodes
  <2>3. CASE node = "autonomy_gate"
    <3>1. \/ UNCHANGED ticket
          \/ /\ HasPrimary /\ tierNow = "APPROVE"
             /\ WriteTicket("awaiting_approval")
      BY <1>15, <2>3 DEF NodeFault, PartialEffects, effects
    <3>2. CASE UNCHANGED ticket
      BY <2>1, <3>2, <1>h, PhaseUnchanged
    <3>3. CASE HasPrimary /\ tierNow = "APPROVE" /\ WriteTicket("awaiting_approval")
      <4>1. ticket'[sensor] = "awaiting_approval" /\ opened
        BY <2>3, <3>3, <1>c, <1>e, <1>f
      <4>2. status \in {"acting", "awaiting_approval"}
        BY <2>3, <3>3 DEF PhaseInv, StatusPastCritic
      <4>3. phase' = "awaiting_human" /\ phase \in {"diagnosing", "awaiting_human"}
        BY <2>1, <2>3, <4>1, <4>2, <1>b DEF PhaseFacts
      <4>4. tier = "APPROVE"
        BY <3>3, <4>1 DEF tier
      <4> QED BY <2>1, <4>3, <4>4, <1>h DEF Lifecycle!Next, Lifecycle!Escalate
    <3> QED BY <3>1, <3>2, <3>3
  <2>4. CASE node = "action"
    <3>1. \/ UNCHANGED ticket
          \/ HasPrimary /\ WriteTicket("verifying")
      BY <1>15, <2>4 DEF NodeFault, PartialEffects, effects
    <3>2. CASE UNCHANGED ticket
      BY <2>1, <3>2, <1>h, PhaseUnchanged
    <3>3. CASE HasPrimary /\ WriteTicket("verifying")
      <4>1. ticket'[sensor] = "verifying" /\ opened
        BY <2>4, <3>3, <1>c, <1>e, <1>f
      <4>2. ticket[sensor] # "awaiting_approval"
        BY <2>4, <3>3, <4>1
        DEF AuthorityInv, Approved, PhaseInv, AwaitsOnlyTier3
      <4> QED BY <2>1, <4>1, <4>2, <1>h, PhaseUnchanged
    <3> QED BY <3>1, <3>2, <3>3
  <2>5. CASE node = "verifier"
    <3>1. opened /\ status \in {"failed", "verifying"}
      BY <2>5, <1>c DEF PhaseInv, StatusPastCritic
    <3>2. phase' = phase
      BY <2>1, <2>5, <3>1, <1>b DEF PhaseFacts
    <3> QED BY <2>1, <3>2, <1>h
  <2> QED BY <2>1, <2>2, <2>3, <2>4, <2>5 DEF TypeInv, TypeOK, DiagnosingNodes
<1> QED
  BY <1>1, <1>2, <1>3, <1>4, <1>5, <1>6, <1>7, <1>8, <1>9, <1>10, <1>11, <1>12,
     <1>13, <1>14, <1>15, <1>h
  DEF Next, GraphStep, VerifierRaises, WorldChanges, Resume, vars, effects

(***************************************************************************)
(* The closed loop (README "Monitor -> ... -> Verifier"): seen through its *)
(* phase, tier and attempts, a thread of the graph is an IncidentLifecycle *)
(* whatever its plans and however often its nodes fail and run again, as   *)
(* long as nobody answers the gate's interrupt().                          *)
(***************************************************************************)
THEOREM ImplementsLifecycle ==
  ASSUME OperatorAnswers = FALSE
  PROVE  Spec => LifecycleSpec
<1>1. TypeInv /\ EndInv /\ EndInv' /\ AuthorityInv /\ PhaseInv /\ PhaseInv'
        /\ [Next]_vars => [Lifecycle!Next]_(Lifecycle!lifecycle)
  BY LifecycleStep
<1> QED
  BY <1>1, LifecycleInit, TypeInvariant, EndInvariant, AuthorityInvariant,
     PhaseInvariant, PTL DEF Spec, LifecycleSpec, Lifecycle!Spec
==============================================================================
