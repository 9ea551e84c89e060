---------------------------- MODULE IncidentGraph ----------------------------
(***************************************************************************)
(* One thread of MainIncidentGraph (core/graph.py), node by node: the      *)
(* checkpointed MainIncidentState, the position of the graph, the ticket   *)
(* rows its nodes write, and the outside world they read.                  *)
(*                                                                         *)
(* One action is one LangGraph superstep: a node together with the         *)
(* conditional edge evaluated on its result.  The specialist wave is the   *)
(* exception, since its branches run in parallel: each branch returns in a *)
(* step of its own and WaveJoins merges their writes at the barrier.  A    *)
(* node that raises (or a process that dies) leaves the checkpoint as it   *)
(* was but keeps the external writes the node had already made: NodeFault. *)
(***************************************************************************)
EXTENDS Integers, Sequences

CONSTANTS
  SubtaskIds,      \* subtask ids a plan may use or refer to
  Plans,           \* the plans the planner's LLM may return
  AnomalySensors,  \* the sensor names the Monitor's LLM may report
  MaxReplans,      \* MAX_REPLANS
  Hardware,        \* sensor_source = "hardware": the world may be live
  OperatorAnswers, \* some client answers the gate's interrupt()
  MaxFaults,       \* bound on node failures in a behaviour
  None             \* Python's None

END == "end"

SENSOR_DOMAIN == [co2 |-> "airquality", temperature |-> "thermal",
                  humidity |-> "thermal", lux |-> "lighting",
                  noise_db |-> "acoustic"]

Domains == {"airquality", "thermal", "lighting", "acoustic"}

(***************************************************************************)
(* A subtask's domain is whatever the LLM wrote, "other" for a name no     *)
(* specialist has: it is clamped when it is sent but keeps its name.       *)
(***************************************************************************)
Subtask == [id : SubtaskIds, domain : Domains \cup {"other"},
            deps : SUBSET SubtaskIds]

(***************************************************************************)
(* What a specialist's ExpectedOutcome is to the critic's numeric floor:   *)
(* within the plausible range, outside it, or about an unknown metric.     *)
(***************************************************************************)
Outcome == {"sound", "implausible", "unknown_metric"}

IncidentStatus == {"open", "planning", "diagnosing", "awaiting_approval",
                   "acting", "verifying", "observing", "closed", "failed"}

Terminal == {"closed", "failed"}

ASSUME ConstantsAssumption ==
  /\ MaxReplans \in Nat
  /\ MaxFaults \in Nat
  /\ Hardware \in BOOLEAN
  /\ OperatorAnswers \in BOOLEAN
  /\ Plans \subseteq Seq(Subtask) \ {<<>>}
  /\ "S1" \in SubtaskIds
  /\ None \notin SubtaskIds \cup Outcome \cup IncidentStatus \cup AnomalySensors

VARIABLES
  node,         \* the node the checkpoint would run next
  mode,         \* "running", or how invoke() left: "parked" or "halted"
  status,       \* MainIncidentState.status
  sensor,       \* anomaly.sensor
  opened,       \* incident_id is set
  plan,         \* current_plan.subtasks
  hydrated,     \* positions of the plan whose hydrated_goal is set
  replanCount,  \* replan_count
  results,      \* subtask_results: id -> outcome
  first,        \* the first key of subtask_results
  failed,       \* failed_subtasks
  writes,       \* the wave in flight: position -> its pending write
  verdict,      \* critic_verdict
  gateAnswer,   \* the resume value of the gate's interrupt()
  ticket,       \* incidents: the newest row of each sensor
  commands,     \* attempts in which the actuator was commanded
  memory,       \* episodic point of this incident
  live,         \* is_live_world()
  faults        \* node failures so far

checkpoint == <<node, status, sensor, opened, plan, hydrated, replanCount,
                results, first, failed, writes, verdict, gateAnswer>>
effects == <<ticket, commands, memory>>
world == <<live, faults>>
attempt == <<plan, hydrated, results, first, failed, writes>>
vars == <<checkpoint, mode, effects, world>>

-----------------------------------------------------------------------------
(* core/state.py *)

DomainOf(s) == IF s \in DOMAIN SENSOR_DOMAIN THEN SENSOR_DOMAIN[s]
               ELSE "airquality"

tier_for_sensor(s) == IF DomainOf(s) = "airquality" THEN "AUTO" ELSE "APPROVE"

(* A mutation of replans_left, off by one. *)
OffByOneReplansLeft(c) == c <= MaxReplans
replans_left(c) == c < MaxReplans

(* The smallest and the largest of a set of positions, as singletons. *)
Earliest(S) == {i \in S : \A j \in S : i <= j}
Latest(S) == {i \in S : \A j \in S : j <= i}
The(S) == CHOOSE x \in S : TRUE

Succeeded == {id \in SubtaskIds : results[id] # None}

(***************************************************************************)
(* primary_result(): the first subtask of the sensor's domain that has a   *)
(* result, else the first result there is.                                 *)
(***************************************************************************)
MatchingPositions ==
  {i \in DOMAIN plan : /\ sensor \in DOMAIN SENSOR_DOMAIN
                       /\ plan[i].domain = SENSOR_DOMAIN[sensor]
                       /\ plan[i].id \in Succeeded}

HasPrimary == Succeeded # {}

PrimaryId == IF MatchingPositions # {}
             THEN plan[The(Earliest(MatchingPositions))].id
             ELSE first

-----------------------------------------------------------------------------
(* Ticket server, as the nodes use it *)

Active(t, s) == t[s] \notin Terminal \cup {None}

WriteTicket(st) ==
  IF st = None THEN UNCHANGED ticket
  ELSE ticket' = [ticket EXCEPT ![sensor] = st]

-----------------------------------------------------------------------------
Init ==
  /\ node = "monitor" /\ mode = "running" /\ status = "open"
  /\ sensor = None /\ opened = FALSE
  /\ plan = <<>> /\ hydrated = {} /\ replanCount = 0
  /\ results = [id \in SubtaskIds |-> None] /\ first = None
  /\ failed = {} /\ writes = <<>>
  /\ verdict = None /\ gateAnswer = None
  /\ ticket \in [AnomalySensors -> {None, "observing"}]
  /\ commands = {} /\ memory = None
  /\ live \in {FALSE, Hardware} /\ faults = 0

(***************************************************************************)
(* An injection arms the override, or the override is cleared or expires.  *)
(***************************************************************************)
WorldChanges ==
  /\ Hardware
  /\ live' = ~live
  /\ UNCHANGED <<checkpoint, mode, effects, faults>>

At(n) == mode = "running" /\ node = n

-----------------------------------------------------------------------------
(* agents/monitor.py *)

(***************************************************************************)
(* The rows after _reconcile_recovered: in the live world every active     *)
(* incident whose sensor is back in band is closed.                        *)
(***************************************************************************)
Reconciled(inBand) ==
  [s \in AnomalySensors |->
     IF live /\ s \in inBand /\ Active(ticket, s) THEN "closed" ELSE ticket[s]]

Monitor ==
  /\ At("monitor")
  /\ \E inBand \in SUBSET (AnomalySensors \cap DOMAIN SENSOR_DOMAIN) :
       LET rows == Reconciled(inBand) IN
       \/ /\ status' = "closed" /\ node' = END        \* no anomaly
          /\ ticket' = rows
          /\ UNCHANGED <<sensor, opened>>
       \/ \E s \in AnomalySensors :                   \* deduplicated
            /\ Active(rows, s)
            /\ sensor' = s /\ node' = END
            /\ ticket' = rows
            /\ UNCHANGED <<status, opened>>
       \/ \E s \in AnomalySensors :                   \* a new incident
            /\ ~Active(rows, s)
            /\ ticket' = [rows EXCEPT ![s] = "open"]
            /\ sensor' = s /\ opened' = TRUE
            /\ status' = "planning" /\ node' = "planner"
  /\ UNCHANGED <<attempt, replanCount, verdict, gateAnswer, mode, commands,
                 memory, live, faults>>

-----------------------------------------------------------------------------
(* agents/planner.py and the infra nodes of core/graph.py *)

FallbackPlan == <<[id |-> "S1", domain |-> DomainOf(sensor), deps |-> {}]>>

Planner ==
  /\ At("planner")
  /\ plan' \in Plans \cup {FallbackPlan}
  /\ hydrated' = {}
  /\ writes' = [i \in DOMAIN plan' |-> "idle"]
  /\ status' = "diagnosing" /\ node' = "hydrate_placeholders"
  /\ UNCHANGED <<sensor, opened, replanCount, results, first, failed, verdict,
                 gateAnswer, mode, effects, world>>

(* Mutations of _ready_subtasks: a failed dependency unblocks its dependents; *)
(* a failed subtask is ready again.                                        *)
DependenciesResolved ==
  {i \in DOMAIN plan : /\ plan[i].id \notin Succeeded \cup failed
                       /\ plan[i].deps \subseteq Succeeded \cup failed}
RetryingFailures ==
  {i \in DOMAIN plan : /\ plan[i].id \notin Succeeded
                       /\ plan[i].deps \subseteq Succeeded}
_ready_subtasks ==
  {i \in DOMAIN plan : /\ plan[i].id \notin Succeeded \cup failed
                       /\ plan[i].deps \subseteq Succeeded}

(* By id: of two subtasks with one id, both goals are hydrated. *)
HydratePlaceholders ==
  /\ At("hydrate_placeholders")
  /\ hydrated' = hydrated \cup
       {i \in DOMAIN plan : \E k \in _ready_subtasks : plan[k].id = plan[i].id}
  /\ node' = "dispatch"
  /\ UNCHANGED <<status, sensor, opened, plan, replanCount, results, first,
                 failed, writes, verdict, gateAnswer, mode, effects, world>>

Dispatch ==
  /\ At("dispatch")
  /\ IF _ready_subtasks = {} THEN node' = "critic" /\ UNCHANGED writes
     ELSE /\ node' = "specialists"
          /\ writes' = [i \in DOMAIN plan |->
                          IF i \in _ready_subtasks THEN "sent" ELSE "idle"]
  /\ UNCHANGED <<status, sensor, opened, plan, hydrated, replanCount, results,
                 first, failed, verdict, gateAnswer, mode, effects, world>>

(***************************************************************************)
(* One branch of the fan-out returns a result or a failed_subtasks entry.  *)
(***************************************************************************)
SpecialistReturns(i) ==
  /\ At("specialists")
  /\ writes[i] = "sent"
  /\ \E w \in Outcome \cup {"failed"} : writes' = [writes EXCEPT ![i] = w]
  /\ UNCHANGED <<node, status, sensor, opened, plan, hydrated, replanCount,
                 results, first, failed, verdict, gateAnswer, mode, effects,
                 world>>

Delivered == {i \in DOMAIN plan : writes[i] \in Outcome}

(***************************************************************************)
(* The barrier: _merge_results and _append_failed take the branches'       *)
(* writes in Send order, so of two branches with one id the later wins.    *)
(***************************************************************************)
WaveJoins ==
  /\ At("specialists")
  /\ \A i \in DOMAIN plan : writes[i] # "sent"
  /\ results' = [id \in SubtaskIds |->
       LET last == Latest({i \in Delivered : plan[i].id = id}) IN
       IF last = {} THEN results[id] ELSE writes[The(last)]]
  /\ first' = IF first # None \/ Earliest(Delivered) = {} THEN first
              ELSE plan[The(Earliest(Delivered))].id
  /\ failed' = failed \cup
       {plan[i].id : i \in {j \in DOMAIN plan : writes[j] = "failed"}}
  /\ writes' = [i \in DOMAIN plan |-> "idle"]
  /\ node' = "hydrate_placeholders"
  /\ UNCHANGED <<status, sensor, opened, plan, hydrated, replanCount, verdict,
                 gateAnswer, mode, effects, world>>

-----------------------------------------------------------------------------
(* agents/critic.py and _route_after_critic *)

(* A mutation of CriticResult: the terminal failure misses the ticket. *)
UnrecordedFailure(ok) ==
  [status |-> CASE ~HasPrimary -> "failed"
                [] HasPrimary /\ ok -> "acting"
                [] HasPrimary /\ ~ok -> "planning",
   write |-> None]
(***************************************************************************)
(* The status the critic returns and the one it writes to the ticket, given *)
(* whether it approves.                                                    *)
(***************************************************************************)
CriticResult(ok) ==
  CASE ~HasPrimary
         -> [status |-> "failed", write |-> "failed"]
    [] HasPrimary /\ ok
         -> [status |-> "acting", write |-> None]
    [] HasPrimary /\ ~ok /\ tier_for_sensor(sensor) = "APPROVE"
         -> [status |-> "awaiting_approval", write |-> "awaiting_approval"]
    [] HasPrimary /\ ~ok /\ tier_for_sensor(sensor) = "AUTO"
         -> IF replans_left(replanCount)
            THEN [status |-> "planning", write |-> None]
            ELSE [status |-> "failed", write |-> "failed"]

(* A mutation of Judgements: the LLM overrides the floor. *)
NoFloor == {ok \in BOOLEAN : ok => HasPrimary}
(***************************************************************************)
(* The LLM may approve only what the deterministic floor lets through.     *)
(***************************************************************************)
Judgements == {ok \in BOOLEAN :
                 ok => HasPrimary /\ results[PrimaryId] = "sound"}

_route_after_critic(ok) ==
  CASE live -> "advisory"
    [] ~live /\ (ok \/ tier_for_sensor(sensor) = "APPROVE") -> "autonomy_gate"
    [] ~live /\ ~ok /\ tier_for_sensor(sensor) = "AUTO" ->
         IF replans_left(replanCount) THEN "replan" ELSE END

Critic ==
  /\ At("critic")
  /\ \E ok \in Judgements :
       /\ verdict' = IF ok THEN "approved" ELSE "disapproved"
       /\ status' = CriticResult(ok).status
       /\ WriteTicket(CriticResult(ok).write)
       /\ node' = _route_after_critic(ok)
  /\ UNCHANGED <<sensor, opened, attempt, replanCount, gateAnswer, mode,
                 commands, memory, world>>

-----------------------------------------------------------------------------
(* core/graph.py: autonomy_gate, action, replan, advisory_close *)

(***************************************************************************)
(* Tier 3 writes the ticket, then interrupt() parks the thread until a     *)
(* resume value arrives; the node runs again from its start on every       *)
(* invoke(None).  The edge to action is unconditional.                     *)
(***************************************************************************)
AutonomyGate ==
  /\ At("autonomy_gate")
  /\ \/ /\ ~HasPrimary
        /\ status' = "failed" /\ node' = "action"
        /\ UNCHANGED <<ticket, gateAnswer, mode>>
     \/ /\ HasPrimary /\ tier_for_sensor(sensor) = "AUTO"
        /\ node' = "action"
        /\ UNCHANGED <<status, ticket, gateAnswer, mode>>
     \/ /\ HasPrimary /\ tier_for_sensor(sensor) = "APPROVE"
        /\ WriteTicket("awaiting_approval")
        /\ IF gateAnswer = None
           THEN mode' = "parked" /\ UNCHANGED <<node, status, gateAnswer>>
           ELSE /\ status' = IF gateAnswer = "approved" THEN status ELSE "failed"
                /\ gateAnswer' = None /\ node' = "action"
                /\ UNCHANGED mode
  /\ UNCHANGED <<sensor, opened, attempt, replanCount, verdict, commands,
                 memory, world>>

(* A mutation of Action: the ticket is left as it was. *)
ActionUnrecorded ==
  /\ At("action")
  /\ IF HasPrimary
     THEN commands' = commands \cup {replanCount} /\ status' = "verifying"
     ELSE status' = "failed" /\ UNCHANGED commands
  /\ node' = "verifier" /\ mode' = "parked"
  /\ UNCHANGED <<sensor, opened, attempt, replanCount, verdict, gateAnswer,
                 ticket, memory, world>>

(***************************************************************************)
(* The compiled interrupt_before parks the thread in front of verifier.    *)
(***************************************************************************)
Action ==
  /\ At("action")
  /\ IF HasPrimary
     THEN /\ commands' = commands \cup {replanCount}
          /\ WriteTicket("verifying") /\ status' = "verifying"
     ELSE status' = "failed" /\ UNCHANGED <<commands, ticket>>
  /\ node' = "verifier" /\ mode' = "parked"
  /\ UNCHANGED <<sensor, opened, attempt, replanCount, verdict, gateAnswer,
                 memory, world>>

(* A mutation of reset_attempt_channels that misses one channel. *)
KeepingFailures ==
  /\ results' = [id \in SubtaskIds |-> None] /\ first' = None
  /\ UNCHANGED failed
reset_attempt_channels ==
  /\ results' = [id \in SubtaskIds |-> None] /\ first' = None
  /\ failed' = {}

(* A mutation of Replan: the attempt is not counted. *)
UncountedReplan ==
  /\ At("replan")
  /\ reset_attempt_channels
  /\ status' = "planning" /\ node' = "planner"
  /\ UNCHANGED <<sensor, opened, plan, hydrated, replanCount, writes, verdict,
                 gateAnswer, mode, effects, world>>

Replan ==
  /\ At("replan")
  /\ reset_attempt_channels
  /\ replanCount' = replanCount + 1
  /\ status' = "planning" /\ node' = "planner"
  /\ UNCHANGED <<sensor, opened, plan, hydrated, writes, verdict, gateAnswer,
                 mode, effects, world>>

AdvisoryClose ==
  /\ At("advisory")
  /\ WriteTicket("observing")
  /\ status' = "observing" /\ node' = END
  /\ UNCHANGED <<sensor, opened, attempt, replanCount, verdict, gateAnswer,
                 mode, commands, memory, world>>

-----------------------------------------------------------------------------
(* agents/verifier.py and _route_after_verifier *)

(* A mutation of VerifiedStatus: no retry after a miss. *)
FailOnFirstMiss(met) == IF met THEN "closed" ELSE "failed"
VerifiedStatus(met) ==
  CASE met -> "closed"
    [] ~met /\ replans_left(replanCount) -> "planning"
    [] ~met /\ ~replans_left(replanCount) -> "failed"

(* A mutation of save_trajectory: only bad outcomes are remembered. *)
RememberFailuresOnly(st) ==
  IF st = "failed" THEN memory' = st ELSE UNCHANGED memory
save_trajectory(st) ==
  IF st \in Terminal THEN memory' = st ELSE UNCHANGED memory

(***************************************************************************)
(* Reading an unknown target_metric raises KeyError: see VerifierRaises.   *)
(***************************************************************************)
Verifier ==
  /\ At("verifier")
  /\ \/ /\ ~HasPrimary
        /\ status' = "failed" /\ node' = END
        /\ UNCHANGED <<ticket, memory>>
     \/ /\ HasPrimary /\ results[PrimaryId] # "unknown_metric"
        /\ \E met \in BOOLEAN :
             /\ status' = VerifiedStatus(met)
             /\ WriteTicket(VerifiedStatus(met))
             /\ save_trajectory(VerifiedStatus(met))
        /\ node' = IF status' = "planning" THEN "replan" ELSE END
  /\ UNCHANGED <<sensor, opened, attempt, replanCount, verdict, gateAnswer,
                 mode, commands, world>>

VerifierRaises ==
  /\ At("verifier")
  /\ HasPrimary /\ results[PrimaryId] = "unknown_metric"
  /\ mode' = "halted"
  /\ UNCHANGED <<checkpoint, effects, world>>

-----------------------------------------------------------------------------
(* Drivers: scheduler.resume_tick and run_incident.do_resume *)

(***************************************************************************)
(* invoke(None) on a checkpoint with a next node.                          *)
(***************************************************************************)
Resume ==
  /\ mode \in {"parked", "halted"}
  /\ mode' = "running"
  /\ UNCHANGED <<checkpoint, effects, world>>

AnswerGate(a) ==
  /\ OperatorAnswers
  /\ mode = "parked" /\ node = "autonomy_gate"
  /\ gateAnswer' = a /\ mode' = "running"
  /\ UNCHANGED <<node, status, sensor, opened, attempt, replanCount, verdict,
                 effects, world>>

(***************************************************************************)
(* The external writes a node may have made when it fails, in the order    *)
(* its code makes them; the node's own return value is lost.               *)
(***************************************************************************)
PartialEffects ==
  \/ UNCHANGED effects
  \/ /\ node = "monitor"
     /\ \E inBand \in SUBSET (AnomalySensors \cap DOMAIN SENSOR_DOMAIN) :
          LET rows == Reconciled(inBand) IN
          \/ ticket' = rows
          \/ \E s \in AnomalySensors :
               ~Active(rows, s) /\ ticket' = [rows EXCEPT ![s] = "open"]
     /\ UNCHANGED <<commands, memory>>
  \/ /\ node = "critic"
     /\ \E ok \in Judgements : WriteTicket(CriticResult(ok).write)
     /\ UNCHANGED <<commands, memory>>
  \/ /\ node = "autonomy_gate"
     /\ HasPrimary /\ tier_for_sensor(sensor) = "APPROVE"
     /\ WriteTicket("awaiting_approval")
     /\ UNCHANGED <<commands, memory>>
  \/ /\ node = "action" /\ HasPrimary
     /\ commands' = commands \cup {replanCount}
     /\ UNCHANGED ticket \/ WriteTicket("verifying")
     /\ UNCHANGED memory
  \/ /\ node = "advisory"
     /\ WriteTicket("observing")
     /\ UNCHANGED <<commands, memory>>
  \/ /\ node = "verifier"
     /\ HasPrimary /\ results[PrimaryId] # "unknown_metric"
     /\ \E met \in BOOLEAN :
          /\ WriteTicket(VerifiedStatus(met))
          /\ UNCHANGED memory \/ save_trajectory(VerifiedStatus(met))
     /\ UNCHANGED commands

NodeFault ==
  /\ mode = "running" /\ node # END
  /\ faults < MaxFaults /\ faults' = faults + 1
  /\ mode' = "halted"
  /\ PartialEffects
  /\ UNCHANGED <<checkpoint, live>>

-----------------------------------------------------------------------------
GraphStep ==
  \/ Monitor \/ Planner \/ HydratePlaceholders \/ Dispatch
  \/ \E i \in DOMAIN plan : SpecialistReturns(i)
  \/ WaveJoins \/ Critic \/ AutonomyGate \/ Action \/ Replan
  \/ AdvisoryClose \/ Verifier \/ VerifierRaises

Next ==
  \/ GraphStep
  \/ WorldChanges
  \/ Resume
  \/ \E a \in {"approved", "rejected"} : AnswerGate(a)
  \/ NodeFault

Spec == Init /\ [][Next]_vars

(***************************************************************************)
(* A running invoke() takes its next superstep, and the scheduler's resume *)
(* job invokes every registered (parked) thread again.  Nothing promises   *)
(* that a halted thread is ever resumed.                                   *)
(***************************************************************************)
FairSpec ==
  /\ Spec
  /\ WF_vars(GraphStep)
  /\ WF_vars(mode = "parked" /\ Resume)


-----------------------------------------------------------------------------
(* Properties *)

Resolved == Succeeded \cup failed

PlanIds == {plan[i].id : i \in DOMAIN plan}

(* Every variable keeps the shape its Python or SQL counterpart has. *)
TypeOK ==
  /\ node \in {"monitor", "planner", "hydrate_placeholders", "dispatch",
               "specialists", "critic", "autonomy_gate", "action", "replan",
               "advisory", "verifier", END}
  /\ mode \in {"running", "parked", "halted"}
  /\ status \in IncidentStatus
  /\ sensor \in AnomalySensors \cup {None}
  /\ opened \in BOOLEAN
  /\ plan \in Seq(Subtask)
  /\ hydrated \subseteq DOMAIN plan
  /\ replanCount \in 0 .. MaxReplans
  /\ results \in [SubtaskIds -> Outcome \cup {None}]
  /\ first \in SubtaskIds \cup {None}
  /\ failed \subseteq SubtaskIds
  /\ writes \in [DOMAIN plan -> {"idle", "sent", "failed"} \cup Outcome]
  /\ verdict \in {None, "approved", "disapproved"}
  /\ gateAnswer \in {None, "approved", "rejected"}
  /\ ticket \in [AnomalySensors -> IncidentStatus \cup {None}]
  /\ commands \subseteq 0 .. MaxReplans
  /\ memory \in Terminal \cup {None}
  /\ live \in BOOLEAN
  /\ faults \in 0 .. MaxFaults

(***************************************************************************)
(* The actuator is commanded only on a Tier 1 incident whose diagnosis of  *)
(* this very attempt passed the numeric floor and the critic, however      *)
(* often the nodes in between failed and were run again.                   *)
(***************************************************************************)
OnlyApprovedActuation ==
  [][commands' # commands =>
       /\ tier_for_sensor(sensor) = "AUTO"
       /\ verdict = "approved" /\ status = "acting"
       /\ HasPrimary /\ results[PrimaryId] = "sound"]_vars

(***************************************************************************)
(* What counts as resolved belongs to the plan in force: nothing an        *)
(* earlier attempt concluded, or failed at, leaks into the next one.       *)
(***************************************************************************)
AttemptsAreSeparate ==
  node \notin {"replan", "monitor"} => Resolved \subseteq PlanIds

(***************************************************************************)
(* The wave loop respects the ReWOO dependencies: every diagnosis rests on *)
(* diagnoses that succeeded, its goal having been hydrated from them.      *)
(***************************************************************************)
DependencyClosed ==
  node \in {"hydrate_placeholders", "dispatch", "specialists", "critic"} =>
    /\ \A id \in Succeeded : \E i \in hydrated :
         plan[i].id = id /\ plan[i].deps \subseteq Succeeded
    /\ \A i \in DOMAIN plan : writes[i] # "idle" =>
         /\ i \in hydrated
         /\ plan[i].deps \subseteq Succeeded

(***************************************************************************)
(* When the graph ends an incident it opened, its ticket says so, and says *)
(* what the state says: the writes of critic, advisory and verifier agree  *)
(* with the routes that lead to END.                                       *)
(***************************************************************************)
TicketAgreesAtEnd ==
  node = END /\ opened =>
    ticket[sensor] = status /\ status \in Terminal \cup {"observing"}

(***************************************************************************)
(* A Tier 1 incident is given up only after the whole replan budget: the   *)
(* critic's, the verifier's and the router's checks see the same count.    *)
(***************************************************************************)
BudgetSpentBeforeFailing ==
  node = END /\ opened /\ status = "failed" /\ tier_for_sensor(sensor) = "AUTO"
    => replanCount = MaxReplans

(***************************************************************************)
(* Episodic memory and the ticket tell one story when the thread ends: a   *)
(* closed incident is remembered as closed, also when the verifier had to  *)
(* run again, and a failed one is not, unless a verifier that failed after *)
(* saving its verdict judged otherwise when it ran again.                  *)
(***************************************************************************)
MemoryAgreesAtEnd ==
  node = END =>
    /\ opened /\ status = "closed" => memory = "closed"
    /\ opened /\ status = "failed" /\ faults = 0 => memory # "closed"
    /\ ~opened => memory = None

(***************************************************************************)
(* A thread parked in front of the verifier has acted in this attempt and  *)
(* its ticket says VERIFYING; the one exception is the incident without    *)
(* any diagnosis, which is FAILED already.                                 *)
(***************************************************************************)
ParkedAfterIntervention ==
  mode = "parked" /\ node = "verifier" =>
    \/ replanCount \in commands /\ ticket[sensor] = "verifying"
    \/ ~HasPrimary /\ status = "failed" /\ ticket[sensor] = "failed"

(***************************************************************************)
(* Whatever plan the LLM returns (cycles, dangling or duplicate ids), the  *)
(* wave loop reaches the critic unless a node fails for good.              *)
(***************************************************************************)
WavesTerminate == node = "planner" ~> node = "critic" \/ mode = "halted"

(***************************************************************************)
(* Every thread settles: it ends, waits for a human at the gate, or stays  *)
(* where a failing node leaves it (the verifier of an unknown metric fails *)
(* on every resume).  It does not replan for ever.                         *)
(***************************************************************************)
ThreadSettles ==
  <>[](\/ node \in {END, "autonomy_gate"}
       \/ /\ node = "verifier" /\ HasPrimary
          /\ results[PrimaryId] = "unknown_metric"
       \/ mode = "halted")

-----------------------------------------------------------------------------
(* Refinement: the phases of IncidentLifecycle as a function of the state  *)

phase ==
  CASE ~opened -> IF node = END THEN "quiet" ELSE "none"
    [] opened /\ node \notin {"autonomy_gate", "action", "verifier", END} ->
         "diagnosing"
    [] opened /\ node \in {"autonomy_gate", "action", "verifier", END} ->
         CASE status = "failed" -> "failed"
           [] status = "verifying" -> "intervened"
           [] status = "closed" -> "closed"
           [] status = "observing" -> "watched"
           [] status = "awaiting_approval" -> "awaiting_human"
           [] status = "acting" ->
                IF ticket[sensor] = "awaiting_approval" THEN "awaiting_human"
                ELSE "diagnosing"

tier == IF opened THEN tier_for_sensor(sensor) ELSE "AUTO"

attempts == IF node = "replan" THEN replanCount + 1 ELSE replanCount

Lifecycle ==
  INSTANCE IncidentLifecycle
    WITH MaxReplans <- MaxReplans, phase <- phase, tier <- tier, attempts <- attempts
LifecycleSpec == Lifecycle!Spec

-----------------------------------------------------------------------------
(* What the repository says and the code does not do *)

(***************************************************************************)
(* core/graph.py:183 "Tier 3 blocks on interrupt() until a human approves  *)
(* (Hard Constraint #2 - never bypassed)": no command after a rejection.   *)
(***************************************************************************)
RejectionStopsActuation == [][commands' # commands => status # "failed"]_vars

(***************************************************************************)
(* core/graph.py:364 "A terminal verdict (CLOSED on met ...) ends the      *)
(* incident": a ticket of this thread that was CLOSED is not reopened.     *)
(***************************************************************************)
ClosedIsFinal ==
  [][opened /\ ticket[sensor] = "closed" => ticket'[sensor] = "closed"]_vars

=============================================================================
