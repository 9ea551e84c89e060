# IEQ-Ops: TLA+ models, model checking and proofs

IEQ-Ops watches the indoor environment of one room. A scheduled scan finds an
anomaly, a graph of agents diagnoses it, acts on it (or asks a human), waits for
a settle window, verifies the effect with the sensors, and either closes the
incident or replans. This directory holds formal models of that closed loop and
of the parts around it (the specialists with their retrieval, the simulated room
and its injections, the weekly reflection, the spoken dialogue), the TLC
configurations that check them and TLAPS proofs about them. All paths below
are relative to the repository's `src/`.

```
tlasany M.tla                              parse a module
tlc -workers 2 -config X.cfg M             model-check module M with X.cfg
tlapm IncidentGraphProofs.tla              check the proofs of a module
```

## 1. The system

### Parts, state and operations

| Part | State it keeps | Operations |
| --- | --- | --- |
| Incident graph, `core/graph.py`, `core/state.py` | `MainIncidentState`: status, anomaly, plan, per-subtask results and failures, replan count, critic verdict | 14 nodes (four of them specialists) and 4 conditional edges of a LangGraph state machine; parallel fan-out of specialists; `interrupt()` for human approval; `interrupt_before` the verifier |
| Closed-loop agents, `agents/{monitor,planner,critic,verifier}.py` | none of their own; they write tickets and memory | anomaly choice and deduplication, plan generation, judgement under a numeric floor, verification |
| Specialist subgraph, `agents/specialists/builder.py` | local state of one subtask | decompose, retrieve, grade, rewrite, generate |
| Checkpointer, `core/checkpointer.py` | one checkpoint per thread, in Postgres | save after each superstep, load, `delete_thread` |
| Ticket server, `mcp_servers/ticket/` | `incidents`, `incident_steps` | create, update (an unconditional patch), active incident of a sensor |
| Scheduler and registry, `ops/scheduler.py`, `core/suspend.py` | `suspended_threads(thread, incident, resume_at)`, a session advisory lock | `scan_tick`, `resume_tick`, register, due, discard |
| Operator pages, `frontend/api/ops.py` | `_scan_lock` of the web process | inject a scenario, decide an incident |
| Injection override, `sensing/override.py` | one JSON file shared by all processes | activate, is_active (TTL), clear_if_resolved, deactivate |
| Room simulator, `sensing/simulator/` | a per-process cache of one JSON file | arm a scenario, step the ODE, set ventilation, fast-forward |
| Sensor pipeline, `sensing/` | latest reading per channel | ingest MQTT frames, calibrate, threshold tests |
| Memory, `memory/`, and reflection, `core/reflection.py` | episodic points, semantic facts, SOPs with a life cycle | save, recall, consolidate, approve/reject/retire |
| LLM router, `core/router.py` | none | complete and stream with a fallback chain |
| Retrieval, `rag/`, `mcp_servers/rag/` | vector collection, one lazily built stack per process with two locks | ingest, hybrid search, rank fusion, rerank |
| Voice gateway, `voice/`, `frontend/api/main.py` | synthesis session, audio queue, event bus | recognition with retries, synthesis with a driver and a feeder thread |
| Conversational agent, dashboard pages, firmware, evaluation, infrastructure | | see section 7 |

### How they interact

The scheduler process runs two APScheduler jobs: the heartbeat scan and the
resume job. The web process starts further scans from threads (injection) and
answers the operator's decisions. Both invoke the same graph. They share, in
stores with no common transaction: the ticket rows, the checkpoints, the registry
of suspended threads, the scan's advisory lock, the override file and the room
file. A node of the graph writes its ticket row directly; its own state reaches
the checkpoint only when the superstep ends. A thread that is suspended (before
the verifier, or at the human gate) returns from `invoke()`; only then is it
registered, and only the registry brings it back.

Parallel branches of a wave run the same compiled subgraph in threads of one
process and share its retrieval stack; a prewarm thread uses it too, and an
ingest in another process rebuilds the collection under it. The reflection is a
process of its own, started weekly or by hand, that writes two memory tiers
humans review. A spoken question has four parties: the request's generator, the
thread that drives the synthesis, the thread that feeds it and the callbacks of
the service.

### What is hard

- **Re-execution.** A node that fails, or whose process dies, is run again from
  its start, with fresh readings, after its ticket or actuator writes were
  already made.
- **Two stores, two codes, one verdict.** Critic and router each derive the next
  status from the same state in different functions; verifier and ticket, ticket
  and memory, registry and checkpoint have to agree without a transaction.
- **A plan nobody wrote.** The planner's LLM may return cycles, dangling
  dependencies or repeated ids, and a replan reuses ids of the attempt before.
- **Interleaving.** Scans of two processes, the resume job (which takes no lock)
  and a human decision work on the same rows; each is check-then-act.
- **Crashes** between `invoke()` and `register()`, between `discard()` and
  `delete_thread()`, between the decision's four writes.
- **A world that changes** from live to simulated between two nodes, by two
  files that two processes read and write without a lock.
- **Copies that go stale.** Every process caches the room and writes its whole
  copy back; every process keeps the index it read at its first retrieval.
- **Ids minted by counting**, by passes nothing keeps apart.
- **A stream that changes hands.** The first token of an answer is pulled by one
  thread, the rest by another, the end is signalled by a third.

`PROJECT.json` lists each hazard at its line, with the properties that cover it
or the reason why none does yet.

### What makes each part correct

Incident graph: every wave ends at the critic; a diagnosis rests only on
diagnoses of this attempt that succeeded; the actuator moves only on an approved
Tier 1 diagnosis; the ticket, the state and the memory agree at the end; Tier 1
gives up only with its replan budget spent. Scheduler, registry and operator
pages: one active incident per sensor; no active incident that nobody will
resume; no checkpoint without a thread; every suspended Tier 1 thread is
eventually finished; an operator's verdict is final; a click is never dropped.
Specialists and retrieval: one stack and one forward pass at a time; evidence of
the right domain; a branch that ends. Room and override: a demo is ended by
nobody but its own end, its lifetime or its operator; a scenario or a recovery is
lost only to a race; the exhibit returns to real data. Reflection: no fact lost
by passes that do not race, no draft dropped, nothing active that no human saw.
Voice: one model's answer, whole or visibly not, and a request that ends.

## 2. Modules

| Module | What it is |
| --- | --- |
| `IncidentGraph` | one thread of the graph, superstep by superstep, with its ticket, actuator, memory and world |
| `IncidentLifecycle` | the abstract specification: what the closed loop promises about one incident |
| `IncidentGraphProofs` | TLAPS proofs about `IncidentGraph`, including that it implements `IncidentLifecycle` |
| `IncidentDeployment` | the two processes around the graph and everything they share |
| `ThreadCustody` | the abstract specification: who holds a suspended thread |
| `IncidentDeploymentProofs` | TLAPS proofs about `IncidentDeployment`: frames and deduplication, the stores, that it implements `ThreadCustody` |
| `StandardsCorpus`, `StandardsCorpusProofs` | the pure part of the retrieval: what an ingest writes, how rankings are fused and cut; TLAPS proofs about its operators |
| `SpecialistSubgraph` | the specialists of one process on their shared retrieval stack, beside an ingest |
| `SubtaskContract` | the abstract specification: what the main graph relies on in a subtask |
| `SpecialistSubgraphProofs` | TLAPS proofs about `SpecialistSubgraph`: its locks, that it implements `SubtaskContract`, what it retrieves |
| `SimulatedWorld` | the override file and the room file between scans, resume job, presenter and operator |
| `SimulatedWorldProofs`, `InjectionOverrideProofs` | TLAPS proofs about `SimulatedWorld`: types and rooms, then the override |
| `Reflection`, `ReflectionProofs` | concurrent reflection passes and the reviewers; TLAPS proofs about them |
| `VoiceStream`, `VoiceStreamProofs` | one spoken question through its threads, queues and callbacks; TLAPS proofs about it |
| `MC*` | the instances TLC checks: plan sets, a corpus of two documents, two weeks of one year |

### IncidentGraph

State. `node`, `status`, `sensor`, `opened`, `plan`, `hydrated`, `replanCount`,
`results`, `first`, `failed`, `verdict` and `gateAnswer` are the checkpoint:
`MainIncidentState` and the position LangGraph stores with it. `writes` holds the
pending writes of a wave in flight. `mode` says whether an `invoke()` is running,
has parked the thread at an interrupt, or has halted it with an exception.
`ticket` is the newest row of each sensor, `commands` the attempts in which
`set_ventilation` was called, `memory` the episodic point, `live` the value of
`is_live_world()`.

| Action | Code |
| --- | --- |
| `Monitor` | `agents/monitor.py`: `_reconcile_recovered`, the LLM's choice, deduplication, `create_incident`, and the route after it |
| `Planner` | `agents/planner.py`: any plan of `Plans`, or the fallback plan with one subtask |
| `HydratePlaceholders`, `Dispatch` | the infra nodes; `_ready_subtasks` decides between a wave and the critic |
| `SpecialistReturns(i)`, `WaveJoins` | the `Send` fan-out and its barrier: `_merge_results` and `_append_failed` in Send order |
| `Critic` | `agents/critic.py` with its ticket write, and `_route_after_critic` |
| `AutonomyGate`, `AnswerGate` | the three-way gate, `interrupt()`, re-execution on resume, and the unconditional edge to `action` |
| `Action` | actuator, ticket, and the compiled `interrupt_before=["verifier"]` |
| `Verifier`, `VerifierRaises` | `agents/verifier.py`: verdict, ticket, memory, route; an unknown metric raises |
| `Replan`, `AdvisoryClose` | the two small nodes |
| `Resume` | `invoke(None)` by the scheduler or `run_incident` |
| `NodeFault` | a node raises or its process dies, at any point between its external writes (`PartialEffects` lists the prefixes in code order); the checkpoint stays as it was |
| `WorldChanges` | an injection arms the override, or it is cleared or expires |

Abstractions. A diagnosis is what the critic's numeric floor tells apart: sound,
implausible, or about an unknown metric. The LLM is nondeterministic within what
the deterministic guards let through. Only the newest row of a sensor is kept,
since that is the row the graph reads and writes.

### IncidentLifecycle

Three variables (phase, tier, attempts) and ten actions. It says that an
incident is diagnosed, then intervened on autonomously (only Tier 1), escalated
or watched; that only an intervened incident is closed; that a retry costs an
attempt and giving up on a retriable incident takes all of them. The refinement
mapping (`phase`, `tier`, `attempts` at the end of `IncidentGraph`) computes the
phase from the position, the status and the ticket; a node that fails and runs
again is a stuttering step.

### IncidentDeployment

A thread is identified with its incident. Of the graph only the nodes that write
shared state are kept: `diagnose` stands for planner to critic, and a node is two
steps, its ticket write (`NodeRuns`) and its checkpoint (`NodeCommits`), with
every other actor free to move in between. `Effects` is the same case analysis
as `CriticResult`, `_route_after_critic` and `VerifiedStatus` of `IncidentGraph`.

| Actions | Code |
| --- | --- |
| `HeartbeatStarts`, `Inject`, `InjectedScanLocks` | `scan_tick` with `pg_try_advisory_lock` or the blocking `pg_advisory_lock`; `inject` with its non-blocking `_scan_lock` |
| `Monitor`, `Create`, `ScanReturns`, `ScanClears` | the scan's deduplication and creation as two steps, registration or purge after `invoke()`, `clear_if_resolved` |
| `ResumeStarts` .. `ResumeClears` | `resume_tick`, one action for each call it makes |
| `DecisionRead` .. `DecisionDeactivates` | `decide`: check, write, `delete_thread`, `discard`, `deactivate`, each a step |
| `JobRaises`, `SchedulerDies`, `WebDies`, `DecisionRaises`, `DecisionKeepsCheckpoint` | an exception in a job (which ends the tick), a process death (its jobs stop and Postgres drops its session lock), a request that fails midway, a failed `delete_thread` that is only logged |
| `OverrideExpires`, `WindowElapses` | the override's TTL, `resume_at` |

History variables, which no action reads: `ended` (incidents whose row was
terminal once), `orphaned` (threads whose driver failed before the registry knew
them), `decided` (incidents an operator decided). They name exactly the cases in
which the code makes no promise. `orphaned` records a real gap: a crash between
`invoke()` and `register()` leaves an active row nobody resumes.

`ThreadCustody` is what the deployment promises about its threads. A thread is held
by the scan that created it, then by the registry and the resume job by turns,
then by nobody; one scan and one resumed thread at a time; only a holder that is
a job advances the checkpoint; a thread that is done has left none behind; a
failure may take threads back to the registry or lose them; and from "done" and
"lost" no action leads anywhere: no job drives such a thread and nothing writes
its checkpoint. The refinement mapping `Custody` reads the holder off the jobs'
frames, `suspended_threads` and the resume job's list; a thread is lost if
`orphaned` names it and its checkpoint is still stored. The list counts: a thread
that the operator has taken off the registry after `due()` was read is still
going to be visited, so it is done only afterwards.

How these two modules fit: `IncidentGraph` has one thread in full detail and an
unconstrained environment (world changes, resumes and faults at any time);
`IncidentDeployment` has several threads and the real environment, with the
thread reduced to its shared writes. The properties of one thread are checked in
the first, the properties that take several actors in the second. The others
hang on them: `SubtaskContract` says what `SpecialistReturns` of `IncidentGraph`
abstracts, and `SimulatedWorld` is what its `WorldChanges` and the deployment's
`is_live_world` and `clear_if_resolved` abstract.

### StandardsCorpus and SpecialistSubgraph

A caller is a branch of a wave, a sample of the benchmark's pool, or the warm-up
call. Its record is the place of its thread, `SpecialistState` (queries still to
run in this round, rewrites, evidence) and the model the router is trying. The
process has `stack`, `stackLock`, `gpuLock` and the index under construction
(`scroll`); Qdrant has `collection`. `epoch` counts changes of the collection, so
that an index can be compared with what it was read from.

| Actions | Code |
| --- | --- |
| `Prewarms`, `WarmsFirst`, `StartsSubtask`, `StartsSample` | `frontend/api/main.py` `_prewarm_rag`; the warm-up of `eval/runner.py` and its pool; `run_specialist` |
| `RouterFallsBack`, `RouterRaises` | `core/router.py` `complete`: the retryable errors, and those that leave the node |
| `Decompose`, `Grade`, `Rewrite`, `Generate` | `agents/specialists/builder.py`, each with its degradation when no reply is usable |
| `FindsStack`, `MissesStack`, `LocksStack`, `FindsStackLocked`, `LoadStarts`, `ScrollsPage`, `StackBuilt`, `LoadRaises` | `mcp_servers/rag/server.py` `_get_stack` with both checks, and `_load_docs` page by page |
| `EmbedStarts` .. `RerankEnds` | `retrieve_with_stages`: two forward passes under `_gpu_lock`, the search without it |
| `IngestStarts`, `IngestDeletes`, `IngestCreates`, `IngestUpserts`, `IngestDies` | `rag/ingest.py`: each mode, any set of readable PDFs, any outcome of the prefix calls; delete, create and upsert are three calls |

Queries and texts are not distinguished: a ranking is any ranking of the chunks
that path may return, and the reranker chooses as it likes. Reciprocal rank
fusion itself is exact (fractions compared by cross-multiplication).

`SubtaskContract` has three variables and five actions: gather (which may find
nothing), judge, refine at most `MAX_REWRITES` times, answer on what was judged, or
raise. It fixes their order and that evidence is never withdrawn, not how much of it
there is: that is `GroundedUnlessTorn`.

### SimulatedWorld

`room` and `override` are the files; `cache` is the module-level room of each
process. An override is `young` (within the grace window), `settled` or
`expired`. A job is a scan of the web process, a scan of the scheduler or the
resume job; every access of a file is a step of its own.

| Actions | Code |
| --- | --- |
| `InjectArms`, `InjectActivates` | `inject`: `arm` (room and its save), then `activate` and the scan thread |
| `DecisionWrites`, `DecisionDeactivates` | `decide` as far as it concerns the world |
| `ScanStarts`, `DropsCache`, `Hydrates`, `ScanReads` | the scan lock, `reload_room`, `read_sensors` |
| `Reconciles`, `Opens`, `Routes`, `Commands`, `Saves`, `Registers` | the nodes that ask `is_live_world`, `set_ventilation` with its `save_room`, the suspension |
| `ResumeStarts`, `AsksWorld`, `FastForwards`, `Verifies`, `Verdict` | `resume_tick` with `_advance_sim_before_verify` |
| `ChecksGrace`, `ReadsSensor`, `Clears`, `NothingToClear` | `clear_if_resolved`, read by read |
| `UnlinksExpired` | the deletion inside `is_active` |
| `GraceElapses`, `TtlElapses` | time |

The CO2 balance is reduced to what the properties tell apart: with strong
ventilation the room returns to band, without it it stays.

### Reflection

`facts` and `sops` map ids to drafts, an id being its week or year and its
number; a draft is told apart by its pass, its type and its position. `pass` is
each process's place with its drafts and the count it took last, `listing` what
each reviewer saw.

| Actions | Code |
| --- | --- |
| `load_episodes`, `reflect` | `core/reflection.py`: the window's trajectories, one branch per type, reducers that append |
| `ChecksCollection`, `CreatesCollection`, `CountsFacts`, `Upserts`, `SavesNothing` | `save_facts`, call by call |
| `CountsSops`, `Inserts`, `Completes` | `queue_sop` for each draft: count and insert in one transaction that locks nothing, the primary key |
| `list_pending`, `approve_sop`, `reject_sop` | `memory/procedural.py` |
| `Dies` | an error that is not caught, or a kill, at any call |

### VoiceStream

`bus` is the request's queue, `audio_q` and `done` the synthesis's, `llm` the
token stream with the model it comes from, `drive` and `feeder` the two threads.
`stale` counts sessions of failed dials that the service has yet to close.

| Actions | Code |
| --- | --- |
| `TranscribeFails`, `HearsNothing`, `Transcribes` | `transcribe` with its retries, and the refusal of an empty query |
| `Prepares`, `TokenArrives`, `FallsBack`, `Apologises`, `LlmEnds`, `LlmRaises` | `Router.stream` inside `respond_stream` inside `_tee`, pulled by the driver until the first token and by the feeder after it |
| `DialFails`, `Dials`, `PlaysFrame`, `EndsPlay`, `GivesUp`, `Closes`, `Joins`, `Ends` | `synthesize_stream` and `_drive` |
| `Appends`, `FinishesText`, `SendFails` | `_feed` |
| `ServiceSpeaks`, `ServiceEnds`, `StaleCloses` | the callbacks |
| `Takes`, `Leaves` | the generator, and a visitor who goes |

## 3. Runs

| Run | Module, cfg | Question | Distinct states |
| --- | --- | --- | --- |
| `graph_safety` | `MCIncidentGraph` | do waves, routes, ticket, memory and actuator agree, whatever plan and whichever nodes fail; does the thread implement the life cycle | 1.36 million |
| `graph_liveness` | `MCIncidentGraphLive.cfg` | does the wave loop reach the critic for every plan, does a thread settle | small |
| `deployment_safety` | `MCIncidentDeployment` | with two processes, both tiers, faults and an operator: is any incident forgotten; does the deployment implement `ThreadCustody` | 4.0 million |
| `deployment_liveness` | `MCIncidentDeploymentLive.cfg` | with the full replan budget: is any incident opened twice, does the registry drain, is an injected scan served | 0.33 million |
| `specialist_subgraph` | `MCSpecialist` | with callers racing for the stack and ingests under it: one stack, one forward pass, evidence of the right domain, an end, the contract | 0.63 million |
| `simulated_world` | `MCSimulatedWorld` | with two injections: who ends a demo, whose room is lost, what does the verifier read, does the exhibit heal | 1.45 million |
| `reflection` | `MCReflection` | with two passes that race and die: do ids stay contiguous, is a draft or a fact lost, what becomes active | 2.6 million (up to symmetry) |
| `voice_stream` | `MCVoiceStream` | does the page get one model's answer, is what it misses accounted for, does the request end | 0.53 million |
| `finding_*` | `Find*.cfg` | four statements of the repository that the code does not keep (section 5) | |

### The properties

- `AttemptsAreSeparate`: past `replan`, whatever is resolved belongs to the plan
  in force. Violated when `reset_attempt_channels` misses a channel.
- `DependencyClosed`: every dispatched or diagnosed subtask was hydrated, and
  all its dependencies had been diagnosed, not merely resolved.
- `TicketAgreesAtEnd`, `MemoryAgreesAtEnd`, `ParkedAfterIntervention`: state,
  ticket, memory and actuator tell one story, also after nodes ran twice. Memory
  has one honest exception: a verifier that fails after saving may judge
  differently when it runs again, so "failed implies not remembered as closed"
  is claimed only without faults.
- `BudgetSpentBeforeFailing`: a Tier 1 incident fails only with `MAX_REPLANS`
  spent; critic, verifier and router read the counter at different times.
- `OnlyApprovedActuation`: an action property. With `OperatorAnswers = FALSE`,
  the deployment as shipped: no module sends the gate's resume value.
- `WavesTerminate`, `ThreadSettles`: liveness of one thread.
- `OneActiveUnlessReopened`: two active incidents of a sensor only if the older
  one had been ended before (see the finding on duplicates).
- `NothingForgotten`: an active incident that is not merely watched is driven by
  a job or known to the registry, unless its driver failed or a human decided.
- `CustodySpec`: the deployment implements `ThreadCustody`. No thread has two
  drivers though only the scans take a lock, no checkpoint outlives its thread
  unless a failure lost it, and what nobody holds any more is never driven or
  written again.
- `RegistryDrains`, `ClickIsServed`: liveness of the deployment.
- `Serialised`, `OneStack`: mutual exclusion of builders and of forward passes;
  a stack is never exchanged under a search, whoever else was building one.
- `ForeignOnlyWhenStale`, `GroundedUnlessTorn`: what the retrieval promises of
  evidence, with the exact condition under which it does not: the collection
  changed after the index was begun, or the index was read from no complete
  collection. Both conditions are reachable, and both are defects (section 5).
- `PrefixOfOwnDocument`: a contextual prefix speaks of the chunk's own document
  unless another document has the same source tag.
- `BranchesSettle`, `ContractSpec`: a started branch ends, and implements
  `SubtaskContract`.
- `GraceIsRespected`, `DemoKeepsItsWorld`: action properties on the end of an
  override. Besides expiry and the operator they admit one cause: a job that had
  looked at an earlier injection's file and unlinks what is there now.
- `ReloadProtects`: a save undoes a scenario only if it was armed after the job
  reloaded; `RecoveryIsRead`: the verifier reads the old anomaly again only if a
  save raced another job, the override lapsed, or another scenario was armed.
- `SelfHeals`: an override ends, whatever clear was missed.
- `TypeOK` of `SpecialistSubgraph` includes that either lock is held exactly while
  its holder is at a place under it, so that a construction that fails gives
  `_stack_lock` back.
- `IdsAreContiguous`, `OnlyRacesReplaceFacts`: what counted ids do and do not
  guarantee.
- `DraftsKeptUntilPassEnds`: until a pass completes or dies it has all its SOP
  drafts, stored or in hand. An id conflict is such a death and loses the rest of
  them; the property says that only another pass can cause one.
- `ApprovedAsSeen`: an SOP becomes active only as the draft that was seen under its
  id. It rests on reviewers naming only ids they saw listed: `_set_status`
  (`memory/procedural.py:158`) takes any id, and `scripts/run_reflection.py` prints
  the approve command for each one listed. A rejected SOP may still be approved.
- `OneModelSpeaks`, `RequestEnds`: the spoken answer and its end.
- `AnswerAccountedFor`: a finished request has shown the whole answer or an error,
  but for three failures that cut the text short without a word (all dials failed,
  an early end of the session, a failure while feeding; section 5).

`SimulatedWorld` and `VoiceStream` have history variables too (`lost`, `acted`,
`cut` and the fields of a job marked so): no action reads them.

Each property has a mutant: an operator in the module, commented as a mutation or "Mutant",
that changes one mapped definition as a plausible bug would (a missing reset, an
off-by-one budget, an ignored lock, a lock that outlives its session). With it
TLC finds that property violated under the same configuration.

### Bounds, and why they suffice

- `SubtaskIds` of three and `AllPlans`: a chain, two branches in one wave, a
  cycle behind a free subtask, a dangling dependency, and a repeated id with a
  domain no specialist has; each needs at most three ids. The liveness run takes
  the first three (`FewPlans`).
- `AnomalySensors`: one sensor for each kind the code distinguishes: Tier 1,
  Tier 3 with a domain, and a name the Monitor's LLM made up ("window").
- `MaxReplans`: 2 as in the code for `graph_safety` and for `deployment_liveness`,
  whose Tier 1 threads replan beside the scans; 1 in `graph_liveness`, an attempt
  with budget left and one without. `deployment_safety` has 0, since operators, both
  tiers and faults fill its states: the thread that goes back and forth between
  registry and resume job there is Tier 3's. The proofs take any budget.
- `MaxFaults`: two node failures (one can hit the re-execution of the other) in
  `graph_safety`; one in the deployment, where a second would only widen
  `orphaned`.
- `MaxIncidents` = 2: enough for one duplicate and for two threads in one tick.
  An exhausted bound closes only the branch that creates an incident; the scan
  then ends as if it had found nothing.
- `MaxInjections` = 1: the busy branch of `_scan_lock`, a second injection
  during a scan of the web process, is modelled but not reached by the runs.
- `WorldChanges` is unbounded in `IncidentGraph`: the world flips at will.
- `specialist_subgraph`: one branch and the warm-up are two racing callers of
  different domains, which is what every property here takes; the proofs cover
  any number. Two ingests (`MaxIngests`) give an index that is older than the
  collection, and one that was read across both. `PageSize` 2 and three or more
  chunks make the scroll take two pages. `RecallTopK` 2 and one candidate make
  the cuts bite. `MaxSubQueries` 2 and `MAX_REWRITES` 1 reach a second query and
  a second round; the code has 3 and 1.
- `simulated_world`: one sensor the actuator can help and one it cannot, and two
  injections: the second is the one that is lost, undone or cleared.
- `reflection`: two passes, two incidents of two types, one draft of each kind
  per call; two weeks of one year, since fact ids count within a week and SOP
  ids within a year.
- `voice_stream`: two tokens (the first and one pulled by the feeder), two
  frames, and the code's own three attempts.

`CHECK_DEADLOCK FALSE` is set since a thread that has ended, or a deployment
whose bounds are used up and whose rows are settled, stops. The same holds once all
branches, the bounded injections or passes, or the request have ended.

## 4. Fairness

- `IncidentGraph!FairSpec`: weak fairness of the supersteps (a running
  `invoke()` goes on) and of resuming a parked thread (the scheduler's interval
  job visits every registered thread whose window elapsed). Nothing is assumed of
  a halted thread, of faults or of operators.
- `IncidentDeployment!FairSpec`: weak fairness of each scan's and the resume
  job's next step, and of elapsing windows. Heartbeats, injections and decisions
  need not happen. Strong fairness only for `InjectedScanLocks`: Postgres queues
  sessions that block on an advisory lock and grants it to them before a later
  `pg_try_advisory_lock` can succeed; the heartbeat may take the lock infinitely
  often in between.

- `SpecialistSubgraph!Spec`: weak fairness of each caller: its thread runs, and
  the model, LLM and Qdrant calls it makes return or time out. No strong fairness
  is needed for the two locks, since a caller passes each a bounded number of
  times. Ingests need not go on.
- `SimulatedWorld!Spec`: weak fairness of the two scans and of time. The resume
  job and the presenter may rest; the heartbeat alone must heal the exhibit.
- `VoiceStream!Spec`: weak fairness of the driver, the feeder and the request.
  The synthesis service may stay silent for ever, which is what the code's safety
  net is for. An LLM call ends because it has a timeout.
- `Reflection!Spec` states safety only: nothing in the code makes a pass complete.

## 5. What the code does differently from what the repository says

1. **A rejection does not stop the actuator** (`RejectionStopsActuation`,
   `core/graph.py:417`). The gate returns FAILED on a rejection, but its only
   edge leads to `action`, which does not look at the status. Nothing in the
   repository answers the interrupt today, so the path is latent.
2. **A closed incident can be reopened** (`ClosedIsFinal`,
   `agents/verifier.py:72`). The verifier closes the ticket before it saves the
   trajectory; if that fails, it runs again on resume and may judge "missed".
3. **A duplicate incident without any fault** (`NoDuplicateIncident`,
   `agents/critic.py:79`). When an attempt yields no diagnosis the critic writes
   FAILED although the route replans; until the next write a scan finds the
   sensor free, since the resume job holds no scan lock.
4. **A human verdict can be overwritten** (`HumanVerdictStands`,
   `frontend/api/ops.py:196`). A resume job that loaded the thread before the
   decision runs the gate again and writes AWAITING_APPROVAL over it.

Each is a run that expects a violation; TLC prints the trace. The following have
no run of their own: the passing properties name them as the one exception they
admit, so each is reachable there, or they were met while reading.

Retrieval.

- The dense path is "restricted to one domain slice" (`rag/retrieve.py:278`) in
  Qdrant as it is now, but its ids are looked up in the index of the process. After
  a re-ingest, which reuses the ids, chunks of another domain surface
  (`ForeignOnlyWhenStale`).
- An index built before the first ingest, or in the middle of one, leaves the
  process without evidence for as long as it lives (`GroundedUnlessTorn`).
- A contextual prefix situates a chunk "in its document" (`rag/ingest.py:174`), but
  `doc_by_source` (`rag/ingest.py:228`) keeps one document per source tag, and
  four documents of the committed `corpus_manifest.json` share `well-v2`.

Room and override.

- `decide()` (`frontend/api/ops.py:220`) deactivates whatever override is armed,
  also another incident's (`DemoKeepsItsWorld`).
- The grace window of 30 s does not cover an injected scan that waits behind a
  long heartbeat scan: that scan's `clear_if_resolved` then finds no incident of
  the sensor and ends the demo before it began.
- A heartbeat's `reload_room` between the fast-forward and its save loses the
  fast-forward, and the verifier reads a false "missed", which
  `ops/scheduler.py:170` is written to avoid (`RecoveryIsRead`).
- Whole-copy writes of the room file lose updates between processes
  (`ReloadProtects`).
- `_reconcile_recovered` reads the sensors first and asks `is_live_world()` after:
  an override that ends in between lets simulated readings judge real incidents.

Reflection.

- "An exact count is race-free" (`memory/semantic.py:94`) does not hold for two
  passes of one week: the later upsert replaces the earlier one's facts
  (`OnlyRacesReplaceFacts`).
- `core/reflection.py:131` has the ids "assigned without a concurrent-id race", since
  `consolidate` runs serially; that is so within one pass. Two passes of one year can
  count the same number of SOPs, and the primary key turns this into an exception out
  of `queue_sop` (`core/reflection.py:134`) that ends the second pass: the draft in
  hand and those after it are lost, the facts it saved stay
  (`DraftsKeptUntilPassEnds`).
- A pass that dies between `save_facts` and the last `queue_sop` is repeated as a
  whole and adds its facts a second time.
- A rejected SOP "never fires" (`memory/procedural.py:177`), yet `approve_sop` on it
  activates it: `_set_status` has no condition.

Voice.

- When all dials fail the page is to have "text on screen, no voice"
  (`voice/provider.py:234`), but the token stream is dropped after its first token:
  the text stops there (`AnswerAccountedFor`). An early end of the session
  truncates it the same way.
- A model failure in the middle of an answer is pulled by the feeder, which only
  logs it: the page gets "done" with a part of the text and no error.
- All dial attempts share one queue and one event, so a late `on_close` of a
  failed dial ends the session that succeeded.

Documentation: the repository's `README.md:273` still says that replanning is not
wired up, while graph and verifier do replan; the model follows the code.

## 6. What is proved

`IncidentGraphProofs` proves these for every plan set, every set of sensors,
every `MaxReplans` and any number of node failures, from `ConstantsAssumption`
alone (plans are non-empty sequences of subtasks, `None` is none of the values
in use, `"S1"` is a subtask id because the fallback plan uses it).

| Layer | Inductive invariant | Theorems |
| --- | --- | --- |
| 1 | `TypeInv` = `TypeOK` and `BudgetLeft`: before `replan` the count is below the budget. `TypeOK` alone is not inductive, `replanCount` could leave its range | `TypeCorrect` |
| 2 | `WaveInv` adds `FreshAttempt` (nothing is resolved when a plan is made) and `ReadyIsHydrated` (what is about to be sent has been hydrated) | `AttemptsSeparated`, `DependenciesRespected` |
| 3 | `EndInv` adds `ThreadOpened`, `UndiagnosedHasFailed` (a thread without any diagnosis passes the critic only as Tier 3, with its ticket FAILED) and `NothingRemembered` | `TicketAgrees`, `BudgetSpent`, `MemoryAgrees`, `ParkedHasActed` |
| 4 | `AuthorityInv`: what stands before `action` with a diagnosis was approved by critic and floor | `ActuationAuthorised` |
| 5 | `PhaseInv`: the status that the nodes past the critic find, and that only Tier 3 tickets await approval | `ImplementsLifecycle` |

Layers 4 and 5 assume `OperatorAnswers = FALSE`; without it finding 1 refutes
them. Every layer is shown by one lemma with a step for each action, and uses
the layers before it. `ImplementsLifecycle` has one case for each action, most
of them stuttering steps, and uses the invariants on both sides of the step
because the phase is a function of several variables.

`IncidentDeploymentProofs` proves the safety of `IncidentDeployment` for every set of sensors, every budget and any number of
incidents, injections and faults, from `DeploymentAssumption` alone (the tiers
are disjoint, the bounds are naturals, `None` is none of the values in use).

| Layer | Inductive invariant | Theorems |
| --- | --- | --- |
| 1 | `FrameInv`: no two jobs drive one thread although the resume job takes no lock, because a scan drives only its own unregistered thread and the resume job only registered ones; `BudgetLeft` | `DeploymentTypeCorrect`, `DriversApart` |
| 2 | `DedupInv`: the lock's holder is the one scan under way (`HolderScans`), the sensor it chose stays free until its insert (`ChosenSensorIsFree`), and of two incidents of a sensor the older has been ended (`OlderIsEnded`) | `Deduplicated` |
| 3 | `PlaceInv`: a driver is where the checkpoint is (`DriverAtCheckpoint`), and a Tier 3 thread in the resume job's hands is parked or at its end (`PlacesOfTier`) | |
| 4 | `MemoryInv` adds `EndIsSettled` (whoever is about to drop a thread finds its row settled or decided) and `OnlyDecisionsDrop` | `IncidentsRemembered` |
| 5 | `CheckpointInv` adds `WaitsAtGate` (a thread an operator may decide can only repeat the gate, which does not bring a deleted checkpoint back) and `DroppedBeforeDiscarded` | `CheckpointsPurged` |

`ImplementsCustody` uses all layers but the fourth and has a case for each action: `OneDriver`
says that a thread registered by its scan had not been known before,
`HolderScans` that a second scan has no thread, `ResumesOnce` that the resume job
purges only what is off the registry and off its own list, and layer 5 after the
step that a thread taken off the registry is either stored nowhere or was left
behind by a failure. `DriversApart` and `CheckpointsPurged` state the invariants
behind it; the runs check them through `CustodySpec`.

Layers 3 to 5 work with the effect of each driver step (`RunEffect`,
`CommitEffect`, ...), derived once from layer 1. `OneActiveUnlessReopened` alone
is far from inductive: it says nothing of the scan between its check and its
insert.

`StandardsCorpusProofs` proves what the operators of `StandardsCorpus` compute,
from `CorpusAssumption` (the manifest and the samples are sequences of passages
with text, the samples cover every domain, the cut-offs are positive).

- `IngestCovers`: in every mode, whatever PDFs are readable and whichever prefix
  calls fail, an ingest writes chunks of every domain. The lists are built with
  `FlattenSeq`, which the community modules define by choosing a recursive function.
  That this function exists, and that a flattened list has the elements of its
  parts and no others (`Flattened`), takes an induction over the data. The
  induction theorems of the library cannot be used here, so the induction is
  over a set of numbers (`NatSets`), from the least-number principle (`Least`),
  which follows from the strict subset ordering being well-founded.
- `AgreedFirst`: if the recall depth is at most `RRF_K` + 1 (20 and 60 in
  `rag/retrieve.py`), the cut of the fused list never takes a chunk that one path
  recalls and leaves out one that both recall. `UndominatedKept`, without
  that hypothesis: a chunk ranked before another by each path that recalls the
  other is never cut in its favour. Both rest on the arithmetic of the scores as
  fractions, and on the ranks after the ids unknown to the index are dropped.
- `CandidatesExist`: the scores order any finite set of chunks, so that the cut
  exists and no search of the model is stuck for want of it.

`SpecialistSubgraphProofs` proves the safety of `SpecialistSubgraph` for any number
of branches, any corpus and any bounds, from `CorpusAssumption` and
`SubgraphAssumption`.

| Layer | Inductive invariant | Theorems |
| --- | --- | --- |
| 1 | `IInv`: `Shape` (each caller's place and counters) and `LockInv` (a lock is held exactly by the caller at a place inside it, and a caller that is constructing found no stack) | `OneAtATime`, `StackOnce`, `Implements` |
| 2 | `RetrievalInv`: `CallersInv` (types, and what a caller's place says of its queries, rewrites, candidates, evidence and stack), `IndexInv` (what an index read, or half read, has of the collection), `QdrantInv` (what is stored and what an ingest will store) and the types of the locks | `TypeCorrect`, `Grounded`, `PrefixKept`, `ForeignKept` |

`Implements` has a case for each action, most of them a `Gather` or a stutter.
`GroundedUnlessTorn` is far from inductive: that a branch with no evidence has a torn
index needs that an index read within one epoch covers every domain (`Read`),
thus that a half-read one is a prefix of the collection as long as nothing changed
(`PartlyRead`), that a collection with points covers every domain
(`Covers`), that the chunks an ingest is about to upsert do (`ChunksCover`,
from `IngestCovers`), and that a search in an index that covers the caller's
domain finds something, which reranking does not lose (`Found`, `RerankedOf`). A
change of the collection only makes every index an old one (`IngestIndex`).
`ForeignKept` uses that an index of the present epoch is the collection.

`ReflectionProofs` proves all of `Reflection` for any number of processes,
reviewers, weeks, drafts and passes, from `ReflectionAssumption`. The inductive
invariant has five parts: `TypeInv`; `NumberInv`, that the ids of a week and of a
year are 1 to some number and that what a pass has counted is at most that number
(contiguity alone is not inductive: it needs that a stale count can only
overlap); `DraftInv`, that the rows of a pass and its remaining drafts add up;
`ListingInv`, that a row still holds the draft a reviewer saw under its id, since
inserts never replace; and `RivalInv`, that a pass about to insert has counted all
its own rows, so that an id that is taken was taken by another pass. Contiguity rests on `CountOfNewIds`, a bijection with an
interval.

`SimulatedWorldProofs` and `InjectionOverrideProofs` prove the four
action properties of `SimulatedWorld`, and its types, for any sensors and any
number of injections, from `WorldAssumption` (the two kinds of sensors are
disjoint, the bound is a natural, `None` is none of the values in use).

- `CopyInv` is about ages of rooms: some process still holds the scenario that is
  in the file, or would read it; and where a job has reloaded the file, a copy
  newer than its own process's is newer than what it reloaded (`NotUndone`). Every
  step leaves the scenarios alone, arms a new one, drops a copy or saves one
  (`WorldEffect`); `SavesProtected` needs only these four cases.
- `RecInv` is about what a command leaves in the room. As long as a thread waiting
  or resumed was commanded in the latest scenario (`Commanded`), and nothing was
  lost, the file and every copy that may still be saved without a reload have the
  strong ventilation (`StrongInv`); so the fast-forward makes a room in band, and
  the file and the scheduler's copy are in band when the verifier reads
  (`VerifierReads`). A save keeps this because, with nothing lost, no other job is
  under way and the copy written is the one its job made. `RecoveryKept` follows.
- `LookInv` is about what a job has read of the override and not yet used: it is
  of an earlier injection than the file now in place, or of this very file past
  its grace window, and expired if the job is about to delete it as such
  (`Looked`). It needs that a new injection is numbered before its file is
  written (`OverrideArms`) and that no job goes from a save to such a place
  (`Follows`). `GraceKept` and `DemoKept` are its two consequences.

`VoiceStreamProofs` proves all the safety of `VoiceStream` for any number of
attempts, tokens and frames, from `VoiceAssumption`. Every step leaves the bus and
the page alone, puts a token, another event or the end on the bus, or takes one
from it (`StepEffect`). `OneModelSpeaks` is itself inductive with the types;
positions of the bus stand in it for the sequence of its tokens, because a filter of
sequences is out of the prover's reach. `AnswerAccountedFor` needs `FedInv` (who has
the end of the play before him has sent all the text, or the history says it was
cut; before the first token nothing can be lost) and `EndInv`: for each end mark on
the bus, what is in front of it accounts for the answer.

Only model-checked is all liveness (`WavesTerminate`, `ThreadSettles`,
`RegistryDrains`, `ClickIsServed`, `BranchesSettle`, `SelfHeals`, `RequestEnds`),
which is out of TLAPS's reach under fairness. Every safety property of the
passing runs is a theorem.

## 7. What is not modelled

- LLM prompts and answers, embedding, reranking, speech models: model calls,
  nondeterministic here.
- The CO2 ODE and sensor calibration: floating point.
- `incident_steps` and the heartbeat row: display only. Wording and logging.
- Ticket ids: taken as distinct. They have one-second resolution and one code
  for temperature and humidity; a collision makes `create_incident` raise, which
  is a node failure of `IncidentGraph`.
- `clear_if_resolved` is atomic in `IncidentDeployment`; its reads one by one are
  in `SimulatedWorld`. A torn read of either JSON file (a reader in the middle of
  a writer's write) is in neither: the override's reader takes it for an absent
  file, the room's raises.
- The sensor pipeline behind `read_sensors` (calibration, the ingest of frames,
  the sampler): numeric, or rows no part acts on.
- Recall from the semantic and procedural tiers, read-only endpoints, the
  blocking voice and chat endpoints: single calls without shared state.
- The conversational agent beyond its token stream, the browser pages, firmware,
  the metrics and judge of the evaluation, connection pool, logging.

## 8. What could follow

The bounds above are what TLC can exhaust; two extensions remain that would add
to what is known.

1. That `IncidentDeployment` with one incident and no operator implements
   `IncidentLifecycle` for Tier 1, so that the two models of a node's writes are
   compared by a refinement and not only by reading. A thread's outcome is lost
   with its purged checkpoint, so this needs a history variable that keeps it.
2. Two processes in `SpecialistSubgraph`: their indexes are independent, but both
   search the one collection.
