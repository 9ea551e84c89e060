-------------------------- MODULE IncidentDeployment --------------------------
(***************************************************************************)
(* The deployed system around MainIncidentGraph: the scheduler process     *)
(* with its heartbeat scan and its resume job (ops/scheduler.py), the web  *)
(* process with injected scans and the operator's decisions                *)
(* (frontend/api/ops.py), and what they share: the ticket rows, the        *)
(* checkpoints, the registry of suspended threads, the scan's advisory     *)
(* lock and the injection override.  Either process may die, and any job   *)
(* may raise, between two steps.                                           *)
(*                                                                         *)
(* A thread is its incident here, and of the graph's nodes only those are  *)
(* kept that write shared state: "diagnose" stands for planner to critic,  *)
(* the Tier 1 gate is passed through, and "blank" is the suspension before *)
(* the verifier of a thread without any diagnosis.  A node writes its      *)
(* ticket row in one step and its checkpoint in the next.                  *)
(***************************************************************************)
EXTENDS Integers

CONSTANTS
  AutoSensors,     \* sensors whose incidents are Tier 1
  ApproveSensors,  \* sensors whose incidents are Tier 3
  Hardware,        \* sensor_source = "hardware"
  MaxReplans,      \* MAX_REPLANS
  MaxIncidents,    \* bound on the incidents opened
  MaxInjections,   \* bound on the presenter's injections
  MaxFaults,       \* bound on the jobs that raise and processes that die
  None             \* Python's None

Sensors == AutoSensors \cup ApproveSensors

(* Incidents, with their threads, in the order of their creation. *)
Incidents == 1 .. MaxIncidents

Terminal == {"closed", "failed"}

Status == {"open", "planning", "awaiting_approval", "verifying", "observing"}
            \cup Terminal

(* Where invoke() leaves a thread suspended. *)
Suspended == {"gate", "verifier", "blank"}

Position == {"diagnose", "action", "advisory", "end"} \cup Suspended

Scans == {"heartbeat", "web"}
Jobs == Scans \cup {"resume"}

ASSUME DeploymentAssumption ==
  /\ AutoSensors \cap ApproveSensors = {}
  /\ Hardware \in BOOLEAN
  /\ MaxReplans \in Nat /\ MaxIncidents \in Nat
  /\ MaxInjections \in Nat /\ MaxFaults \in Nat
  /\ None \notin Sensors /\ None \notin Incidents
  /\ None \notin Status \cup Position \cup Scans \cup {"monitor", "replan"}

VARIABLES
  sensor,      \* incidents.sensor
  ticket,      \* incidents.status, None for a row not yet inserted
  checkpoint,  \* the node a thread would run next, None without checkpoint
  replans,     \* replan_count
  window,      \* suspended_threads: "absent", "waiting" or "due"
  lock,        \* holder of the scan's advisory lock
  job,         \* the heartbeat scan, the injected scan and the resume job
  pending,     \* the resume job's list of due threads still to visit
  decision,    \* the operator's request being handled
  override,    \* the sensor of the injection override, or None
  injections,  \* injections so far
  faults,      \* faults so far
  ended,       \* history: incidents whose row was terminal at some time
  orphaned,    \* history: unregistered threads whose driver failed
  decided      \* history: incidents an operator decided

rows == <<sensor, ticket>>
threads == <<checkpoint, replans, window>>
bounds == <<injections, faults>>
history == <<ended, orphaned, decided>>
vars == <<rows, threads, lock, job, pending, decision, override, bounds, history>>

Idle == [pc |-> "idle", incident |-> None, sensor |-> None, node |-> None,
         next |-> None]
NoDecision == [pc |-> "idle", incident |-> None, verdict |-> None]

Init ==
  /\ sensor = [i \in Incidents |-> None]
  /\ ticket = [i \in Incidents |-> None]
  /\ checkpoint = [i \in Incidents |-> None]
  /\ replans = [i \in Incidents |-> 0]
  /\ window = [i \in Incidents |-> "absent"]
  /\ lock = None
  /\ job = [j \in Jobs |-> Idle]
  /\ pending = {}
  /\ decision = NoDecision
  /\ override = None
  /\ injections = 0 /\ faults = 0
  /\ ended = {} /\ orphaned = {} /\ decided = {}

-----------------------------------------------------------------------------
(* Ticket server *)

Active(t, i) == t[i] \notin Terminal \cup {None}

ActiveOf(t, s) == {i \in Incidents : sensor[i] = s /\ Active(t, i)}

Newest(S) == {i \in S : \A k \in S : k <= i}

Opened == {i \in Incidents : ticket[i] # None}

SetTicket(i, st) ==
  /\ ticket' = [ticket EXCEPT ![i] = st]
  /\ ended' = IF st \in Terminal THEN ended \cup {i} ELSE ended

-----------------------------------------------------------------------------
(* sensing/override.py *)

is_live_world == Hardware /\ override = None

(***************************************************************************)
(* Whether the override is older than the grace window is left open.       *)
(***************************************************************************)
clear_if_resolved ==
  \/ UNCHANGED override
  \/ /\ override # None /\ ActiveOf(ticket, override) = {}
     /\ override' = None

(* is_active() past its TTL. *)
OverrideExpires ==
  /\ override # None /\ override' = None
  /\ UNCHANGED <<rows, threads, lock, job, pending, decision, bounds, history>>

-----------------------------------------------------------------------------
(* The graph, as far as it writes shared state: see IncidentGraph *)

(* A mutation of replans_left, off by one. *)
OffByOneReplansLeft(i) == replans[i] <= MaxReplans
replans_left(i) == replans[i] < MaxReplans

CriticWrite(i, judgement) ==
  CASE judgement = "no_diagnosis" -> "failed"
    [] judgement = "approved" -> None
    [] judgement = "disapproved" /\ sensor[i] \in ApproveSensors -> "awaiting_approval"
    [] judgement = "disapproved" /\ sensor[i] \in AutoSensors ->
         IF replans_left(i) THEN None ELSE "failed"

(* The next node that matters after the critic's route. *)
CriticRoute(i, judgement) ==
  CASE is_live_world -> "advisory"
    [] ~is_live_world /\ sensor[i] \in ApproveSensors ->
         IF judgement = "no_diagnosis" THEN "blank" ELSE "gate"
    [] ~is_live_world /\ sensor[i] \in AutoSensors ->
         IF judgement = "approved" THEN "action"
         ELSE IF replans_left(i) THEN "replan" ELSE "end"

(***************************************************************************)
(* What a node may do: the status it writes to the ticket, if any, and the *)
(* node that comes next.                                                   *)
(***************************************************************************)
Effects(i, node) ==
  CASE node = "diagnose" ->
         {[write |-> CriticWrite(i, j), next |-> CriticRoute(i, j)] :
            j \in {"approved", "disapproved", "no_diagnosis"}}
    [] node = "gate" -> {[write |-> "awaiting_approval", next |-> "gate"]}
    [] node = "action" -> {[write |-> "verifying", next |-> "verifier"]}
    [] node = "advisory" -> {[write |-> "observing", next |-> "end"]}
    [] node = "blank" -> {[write |-> None, next |-> "end"]}
    [] node = "verifier" ->
         {[write |-> "closed", next |-> "end"],
          IF replans_left(i) THEN [write |-> "planning", next |-> "replan"]
          ELSE [write |-> "failed", next |-> "end"]}

NodeRuns(j) ==
  /\ job[j].pc = "run"
  /\ \E e \in Effects(job[j].incident, job[j].node) :
       /\ IF e.write = None THEN UNCHANGED <<ticket, ended>>
          ELSE SetTicket(job[j].incident, e.write)
       /\ job' = [job EXCEPT ![j].pc = "commit", ![j].next = e.next]
  /\ UNCHANGED <<sensor, threads, lock, pending, decision, override, bounds,
                 orphaned, decided>>

(* A mutation of Replans: the attempt is not counted. *)
UncountedReplans(i, next) == replans
(* replan_count after the superstep. *)
Replans(i, next) ==
  IF next = "replan" THEN [replans EXCEPT ![i] = @ + 1] ELSE replans

(***************************************************************************)
(* The superstep's checkpoint.  interrupt() in the gate only adds to the   *)
(* checkpoint that is there: it does not bring a deleted one back.         *)
(***************************************************************************)
NodeCommits(j) ==
  LET i == job[j].incident
      parks == job[j].node = "gate" \/ job[j].next \in {"verifier", "blank", "end"}
      next == IF job[j].next = "replan" THEN "diagnose" ELSE job[j].next
  IN
  /\ job[j].pc = "commit"
  /\ replans' = Replans(i, job[j].next)
  /\ checkpoint' = IF job[j].node = "gate" THEN checkpoint
                   ELSE [checkpoint EXCEPT ![i] = next]
  /\ job' = [job EXCEPT ![j].pc = IF parks THEN "returned" ELSE "run",
                        ![j].node = IF parks THEN None ELSE next,
                        ![j].next = None]
  /\ UNCHANGED <<rows, window, lock, pending, decision, override, bounds, history>>

-----------------------------------------------------------------------------
(* ops/scheduler.py: scan_tick, from the heartbeat and from an injection   *)

(* A mutation of HeartbeatStarts: no single flight. *)
HeartbeatIgnoresLock ==
  /\ job["heartbeat"].pc = "idle"
  /\ lock' = "heartbeat"
  /\ job' = [job EXCEPT !["heartbeat"].pc = "monitor"]
  /\ UNCHANGED <<rows, threads, pending, decision, override, bounds, history>>

(***************************************************************************)
(* pg_try_advisory_lock: a contended tick is skipped.                      *)
(***************************************************************************)
HeartbeatStarts ==
  /\ job["heartbeat"].pc = "idle"
  /\ lock = None /\ lock' = "heartbeat"
  /\ job' = [job EXCEPT !["heartbeat"].pc = "monitor"]
  /\ UNCHANGED <<rows, threads, pending, decision, override, bounds, history>>

(***************************************************************************)
(* inject(): the override is armed; a thread starts a scan unless another  *)
(* one of this process holds _scan_lock.                                   *)
(***************************************************************************)
Inject(s) ==
  /\ injections < MaxInjections /\ injections' = injections + 1
  /\ override' = s
  /\ job' = IF job["web"].pc = "idle" THEN [job EXCEPT !["web"].pc = "waiting"]
            ELSE job
  /\ UNCHANGED <<rows, threads, lock, pending, decision, faults, history>>

(* pg_advisory_lock: the injected scan blocks until the lock is free. *)
InjectedScanLocks ==
  /\ job["web"].pc = "waiting"
  /\ lock = None /\ lock' = "web"
  /\ job' = [job EXCEPT !["web"].pc = "monitor"]
  /\ UNCHANGED <<rows, threads, pending, decision, override, bounds, history>>

(* The rows after _reconcile_recovered, in the live world. *)
Reconciled(inBand) ==
  [i \in Incidents |->
     IF is_live_world /\ i \in UNION {Newest(ActiveOf(ticket, s)) : s \in inBand}
     THEN "closed" ELSE ticket[i]]

(***************************************************************************)
(* The Monitor up to its deduplication.  Without an anomaly, or with one   *)
(* that has an active incident already, the thread ends without incident.  *)
(***************************************************************************)
Monitor(j) ==
  /\ job[j].pc = "monitor"
  /\ \E inBand \in SUBSET Sensors :
       LET after == Reconciled(inBand) IN
       /\ ticket' = after
       /\ ended' = ended \cup {i \in Incidents : after[i] \in Terminal}
       /\ \/ job' = [job EXCEPT ![j].pc = "clear"]
          \/ \E s \in Sensors :
               /\ ActiveOf(after, s) = {} /\ Opened # Incidents
               /\ job' = [job EXCEPT ![j].pc = "create", ![j].sensor = s]
  /\ UNCHANGED <<sensor, threads, lock, pending, decision, override, bounds,
                 orphaned, decided>>

Create(j) ==
  /\ job[j].pc = "create"
  /\ \E i \in Incidents \ Opened :
       /\ \A k \in Incidents : k < i => k \in Opened
       /\ sensor' = [sensor EXCEPT ![i] = job[j].sensor]
       /\ ticket' = [ticket EXCEPT ![i] = "open"]
       /\ job' = [job EXCEPT ![j] = [pc |-> "commit", incident |-> i, sensor |-> None,
                                     node |-> "monitor", next |-> "diagnose"]]
  /\ UNCHANGED <<threads, lock, pending, decision, override, bounds, history>>

(***************************************************************************)
(* After invoke(): a suspended thread is registered and the lock released, *)
(* a finished one is purged first.                                         *)
(***************************************************************************)
ScanReturns(j) ==
  LET i == job[j].incident IN
  /\ job[j].pc = "returned"
  /\ IF checkpoint[i] \in Suspended
     THEN /\ window' = [window EXCEPT ![i] = "waiting"]
          /\ lock' = None
          /\ job' = [job EXCEPT ![j] = Idle]
          /\ UNCHANGED checkpoint
     ELSE /\ checkpoint' = [checkpoint EXCEPT ![i] = None]
          /\ job' = [job EXCEPT ![j].pc = "clear", ![j].incident = None]
          /\ UNCHANGED <<window, lock>>
  /\ UNCHANGED <<rows, replans, pending, decision, override, bounds, history>>

ScanClears(j) ==
  /\ job[j].pc = "clear"
  /\ clear_if_resolved
  /\ lock' = None
  /\ job' = [job EXCEPT ![j] = Idle]
  /\ UNCHANGED <<rows, threads, pending, decision, bounds, history>>

-----------------------------------------------------------------------------
(* ops/scheduler.py: resume_tick *)

WindowElapses(i) ==
  /\ window[i] = "waiting"
  /\ window' = [window EXCEPT ![i] = "due"]
  /\ UNCHANGED <<rows, checkpoint, replans, lock, job, pending, decision,
                 override, bounds, history>>

Due == {i \in Incidents : window[i] = "due"}

At(pc) == job["resume"].pc = pc

ResumeStarts ==
  /\ At("idle") /\ Due # {}
  /\ pending' = Due
  /\ job' = [job EXCEPT !["resume"].pc = "next"]
  /\ UNCHANGED <<rows, threads, lock, decision, override, bounds, history>>

(***************************************************************************)
(* The next thread of the list, in the order of resume_at, which depends   *)
(* on the incidents' windows: any order.  A thread with a next node is     *)
(* resumed, one that was advanced elsewhere only cleaned up.               *)
(***************************************************************************)
ResumeVisits(i) ==
  /\ At("next") /\ i \in pending
  /\ pending' = pending \ {i}
  /\ job' = [job EXCEPT !["resume"].incident = i,
                        !["resume"].pc = IF checkpoint[i] \in {None, "end"}
                                         THEN "discard" ELSE "invoke"]
  /\ UNCHANGED <<rows, threads, lock, decision, override, bounds, history>>

ResumeEnds ==
  /\ At("next") /\ pending = {}
  /\ job' = [job EXCEPT !["resume"] = Idle]
  /\ UNCHANGED <<rows, threads, lock, pending, decision, override, bounds, history>>

(***************************************************************************)
(* invoke(None) loads the checkpoint; without one it raises, which ends    *)
(* the tick.                                                               *)
(***************************************************************************)
ResumeInvokes ==
  LET i == job["resume"].incident IN
  /\ At("invoke")
  /\ IF checkpoint[i] = None
     THEN job' = [job EXCEPT !["resume"] = Idle] /\ pending' = {}
     ELSE /\ job' = [job EXCEPT !["resume"].pc = "run",
                                !["resume"].node = checkpoint[i]]
          /\ UNCHANGED pending
  /\ UNCHANGED <<rows, threads, lock, decision, override, bounds, history>>

(* A mutation of ResumeReturns: only a thread that is terminal is expected. *)
AlwaysDiscards ==
  /\ At("returned")
  /\ job' = [job EXCEPT !["resume"].pc = "discard"]
  /\ UNCHANGED <<rows, threads, lock, pending, decision, override, bounds, history>>

ResumeReturns ==
  /\ At("returned")
  /\ job' = [job EXCEPT !["resume"].pc =
               IF checkpoint[job["resume"].incident] \in {None, "end"}
               THEN "discard" ELSE "register"]
  /\ UNCHANGED <<rows, threads, lock, pending, decision, override, bounds, history>>

(* Suspended again: a fresh window, also for a row deleted meanwhile. *)
ResumeRegisters ==
  /\ At("register")
  /\ window' = [window EXCEPT ![job["resume"].incident] = "waiting"]
  /\ job' = [job EXCEPT !["resume"].pc = "next", !["resume"].incident = None]
  /\ UNCHANGED <<rows, checkpoint, replans, lock, pending, decision, override,
                 bounds, history>>

ResumeDiscards ==
  /\ At("discard")
  /\ window' = [window EXCEPT ![job["resume"].incident] = "absent"]
  /\ job' = [job EXCEPT !["resume"].pc = "purge"]
  /\ UNCHANGED <<rows, checkpoint, replans, lock, pending, decision, override,
                 bounds, history>>

(* A mutation of ResumePurges: the checkpoint is left behind. *)
KeepsCheckpoint ==
  /\ At("purge")
  /\ job' = [job EXCEPT !["resume"].pc = "clear", !["resume"].incident = None]
  /\ UNCHANGED <<rows, threads, lock, pending, decision, override, bounds, history>>

ResumePurges ==
  /\ At("purge")
  /\ checkpoint' = [checkpoint EXCEPT ![job["resume"].incident] = None]
  /\ job' = [job EXCEPT !["resume"].pc = "clear", !["resume"].incident = None]
  /\ UNCHANGED <<rows, replans, window, lock, pending, decision, override,
                 bounds, history>>

ResumeClears ==
  /\ At("clear")
  /\ clear_if_resolved
  /\ job' = [job EXCEPT !["resume"].pc = "next"]
  /\ UNCHANGED <<rows, threads, lock, pending, decision, bounds, history>>

-----------------------------------------------------------------------------
(* frontend/api/ops.py: decide *)

DecisionRead(i, v) ==
  /\ decision.pc = "idle"
  /\ ticket[i] = "awaiting_approval"
  /\ decision' = [pc |-> "write", incident |-> i, verdict |-> v]
  /\ UNCHANGED <<rows, threads, lock, job, pending, override, bounds, history>>

DecisionWritten ==
  /\ decision.pc = "write"
  /\ SetTicket(decision.incident, decision.verdict)
  /\ decided' = decided \cup {decision.incident}
  /\ decision' = [decision EXCEPT !.pc = "drop"]
  /\ UNCHANGED <<sensor, threads, lock, job, pending, override, bounds, orphaned>>

(* thread_for_incident, then delete_thread. *)
DecisionDropsThread ==
  /\ decision.pc = "drop"
  /\ IF window[decision.incident] = "absent"
     THEN decision' = [decision EXCEPT !.pc = "deactivate"] /\ UNCHANGED checkpoint
     ELSE /\ checkpoint' = [checkpoint EXCEPT ![decision.incident] = None]
          /\ decision' = [decision EXCEPT !.pc = "discard"]
  /\ UNCHANGED <<rows, replans, window, lock, job, pending, override, bounds,
                 history>>

(* delete_thread failed: logged, and the row is discarded all the same. *)
DecisionKeepsCheckpoint ==
  /\ decision.pc = "drop" /\ window[decision.incident] # "absent"
  /\ faults < MaxFaults /\ faults' = faults + 1
  /\ decision' = [decision EXCEPT !.pc = "discard"]
  /\ orphaned' = orphaned \cup {decision.incident}
  /\ UNCHANGED <<rows, threads, lock, job, pending, override, injections, ended,
                 decided>>

DecisionDiscards ==
  /\ decision.pc = "discard"
  /\ window' = [window EXCEPT ![decision.incident] = "absent"]
  /\ decision' = [decision EXCEPT !.pc = "deactivate"]
  /\ UNCHANGED <<rows, checkpoint, replans, lock, job, pending, override, bounds,
                 history>>

DecisionDeactivates ==
  /\ decision.pc = "deactivate"
  /\ override' = None
  /\ decision' = NoDecision
  /\ UNCHANGED <<rows, threads, lock, job, pending, bounds, history>>

-----------------------------------------------------------------------------
(* Faults *)

(* The threads that jobs J were driving and nothing else knows of. *)
Dropped(J) == {job[j].incident : j \in J} \cap {i \in Incidents : window[i] = "absent"}

(* A mutation of JobsStop: the lock outlives the scan (a connection that   *)
(* goes back to its pool keeps a session lock).                            *)
LockSurvives(J) ==
  /\ faults < MaxFaults /\ faults' = faults + 1
  /\ job' = [j \in Jobs |-> IF j \in J THEN Idle ELSE job[j]]
  /\ pending' = IF "resume" \in J THEN {} ELSE pending
  /\ orphaned' = orphaned \cup Dropped(J)
  /\ UNCHANGED <<rows, threads, lock, override, injections, ended, decided>>

JobsStop(J) ==
  /\ faults < MaxFaults /\ faults' = faults + 1
  /\ job' = [j \in Jobs |-> IF j \in J THEN Idle ELSE job[j]]
  /\ lock' = IF lock \in J THEN None ELSE lock
  /\ pending' = IF "resume" \in J THEN {} ELSE pending
  /\ orphaned' = orphaned \cup Dropped(J)
  /\ UNCHANGED <<rows, threads, override, injections, ended, decided>>

(* A step of a job raises: the scan's or the whole tick's rest is skipped. *)
JobRaises(j) ==
  /\ job[j].pc # "idle"
  /\ JobsStop({j})
  /\ UNCHANGED decision

(* A request that raises is answered with an error where it stands. *)
DecisionRaises ==
  /\ decision.pc # "idle" /\ decision' = NoDecision
  /\ faults < MaxFaults /\ faults' = faults + 1
  /\ UNCHANGED <<rows, threads, lock, job, pending, override, injections, history>>

SchedulerDies ==
  /\ JobsStop({"heartbeat", "resume"})
  /\ UNCHANGED decision

WebDies ==
  /\ JobsStop({"web"})
  /\ decision' = NoDecision

-----------------------------------------------------------------------------
GraphStep(j) == NodeRuns(j) \/ NodeCommits(j)

ScanStep(j) ==
  Monitor(j) \/ Create(j) \/ GraphStep(j) \/ ScanReturns(j)
    \/ ScanClears(j)

ResumeStep ==
  \/ ResumeStarts \/ (\E i \in Incidents : ResumeVisits(i)) \/ ResumeEnds
  \/ ResumeInvokes \/ GraphStep("resume") \/ ResumeReturns \/ ResumeRegisters
  \/ ResumeDiscards \/ ResumePurges \/ ResumeClears

DecisionStep ==
  DecisionWritten \/ DecisionDropsThread \/ DecisionKeepsCheckpoint
    \/ DecisionDiscards \/ DecisionDeactivates \/ DecisionRaises

Next ==
  \/ HeartbeatStarts
  \/ \E s \in Sensors : Inject(s)
  \/ InjectedScanLocks
  \/ \E j \in Scans : ScanStep(j)
  \/ \E i \in Incidents : WindowElapses(i)
  \/ ResumeStep
  \/ \E i \in Incidents, v \in Terminal : DecisionRead(i, v)
  \/ DecisionStep
  \/ OverrideExpires
  \/ \E j \in Jobs : JobRaises(j)
  \/ SchedulerDies
  \/ WebDies

Spec == Init /\ [][Next]_vars

(***************************************************************************)
(* A job that runs takes its next step, APScheduler starts the resume job  *)
(* whenever a window has elapsed, and Postgres grants a released lock to   *)
(* the session that waits for it before a later try can have it.           *)
(***************************************************************************)
FairSpec ==
  /\ Spec
  /\ \A j \in Scans : WF_vars(ScanStep(j))
  /\ WF_vars(ResumeStep)
  /\ \A i \in Incidents : WF_vars(WindowElapses(i))
  /\ SF_vars(InjectedScanLocks)

-----------------------------------------------------------------------------
(* Properties *)

Driven == {job[j].incident : j \in Jobs}

Registered == {i \in Incidents : window[i] # "absent"}

(* Every variable keeps the shape of the row, file or frame it stands for. *)
TypeOK ==
  /\ sensor \in [Incidents -> Sensors \cup {None}]
  /\ ticket \in [Incidents -> Status \cup {None}]
  /\ checkpoint \in [Incidents -> Position \cup {None}]
  /\ replans \in [Incidents -> 0 .. MaxReplans]
  /\ window \in [Incidents -> {"absent", "waiting", "due"}]
  /\ lock \in Scans \cup {None}
  /\ job \in [Jobs ->
       [pc : {"idle", "waiting", "monitor", "create", "run", "commit", "returned",
              "next", "invoke", "register", "discard", "purge", "clear"},
        incident : Incidents \cup {None},
        sensor : Sensors \cup {None},
        node : Position \cup {"monitor", None},
        next : Position \cup {"replan", None}]]
  /\ pending \subseteq Incidents
  /\ decision \in [pc : {"idle", "write", "drop", "discard", "deactivate"},
                   incident : Incidents \cup {None}, verdict : Terminal \cup {None}]
  /\ override \in Sensors \cup {None}
  /\ injections \in 0 .. MaxInjections /\ faults \in 0 .. MaxFaults
  /\ ended \cup orphaned \cup decided \subseteq Incidents

(***************************************************************************)
(* Two incidents of one sensor are active at once only if the older one    *)
(* had been ended before: the scans of the two processes never both find   *)
(* the sensor free.                                                        *)
(***************************************************************************)
OneActiveUnlessReopened ==
  \A i, k \in Incidents :
    i < k /\ sensor[i] = sensor[k] /\ Active(ticket, i) /\ Active(ticket, k)
      => i \in ended

(***************************************************************************)
(* No incident is forgotten: as long as its row is active and not merely   *)
(* watched, a job drives its thread or the registry knows it, unless the   *)
(* driver failed before it could register it or an operator has decided.   *)
(***************************************************************************)
NothingForgotten ==
  \A i \in Incidents :
    Active(ticket, i) /\ ticket[i] # "observing" =>
      i \in Driven \cup Registered \cup orphaned \cup decided

(* Who holds a thread, read off the frames, the registry and the resume    *)
(* job's list; one that a failure left behind with its checkpoint is lost. *)
Custody(i) ==
  IF ticket[i] = None THEN "none"
  ELSE IF i \in {job["heartbeat"].incident, job["web"].incident} THEN "scan"
  ELSE IF job["resume"].incident = i THEN "resume"
  ELSE IF window[i] # "absent" \/ i \in pending THEN "registry"
  ELSE IF i \in orphaned /\ checkpoint[i] # None THEN "lost"
  ELSE "done"

(***************************************************************************)
(* From its creation to its purge a thread passes from holder to holder,   *)
(* is advanced only by the job that holds it, and leaves no checkpoint     *)
(* behind unless a failure lost it; once nobody holds it, whatever the     *)
(* operator, the resume job's stale list or a failure did, no job drives   *)
(* it or writes its checkpoint again.                                      *)
(***************************************************************************)
Threads ==
  INSTANCE ThreadCustody
    WITH Threads <- Incidents, Positions <- Position, None <- None,
         custody <- [i \in Incidents |-> Custody(i)], checkpoint <- checkpoint
CustodySpec == Threads!Spec

(***************************************************************************)
(* The resume job gets every Tier 1 thread to its end: after finitely many *)
(* faults none stays in the registry.                                      *)
(***************************************************************************)
RegistryDrains ==
  <>[](\A i \in Registered : sensor[i] \in ApproveSensors)

(***************************************************************************)
(* "never dropping a presenter's click": an injected scan that waits for   *)
(* the lock gets it, whatever happens to the scan that holds it.           *)
(***************************************************************************)
ClickIsServed == job["web"].pc = "waiting" ~> job["web"].pc # "waiting"

-----------------------------------------------------------------------------
(* What the repository says and the code does not do *)

(***************************************************************************)
(* ops/scheduler.py:7 "Monitor dedups (no duplicate incident for an        *)
(* ongoing anomaly)": one active incident for a sensor.                    *)
(***************************************************************************)
NoDuplicateIncident ==
  \A i, k \in Incidents :
    sensor[i] = sensor[k] /\ Active(ticket, i) /\ Active(ticket, k) => i = k

(***************************************************************************)
(* frontend/api/ops.py:188 "Dropping the thread is what stops the          *)
(* scheduler's resume_tick from later auto-failing it over the operator's  *)
(* verdict": the resume job leaves a row alone that an operator decided.   *)
(***************************************************************************)
HumanVerdictStands ==
  [][\A i \in Incidents :
       i \in decided /\ ticket[i] \in Terminal /\ job["resume"].incident = i
         => ticket'[i] \in Terminal]_vars
=============================================================================
