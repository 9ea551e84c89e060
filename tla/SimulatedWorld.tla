--------------------------- MODULE SimulatedWorld ---------------------------
(***************************************************************************)
(* The simulated room and the injection override of the exhibit: two files *)
(* (sensing/simulator/room.py, sensing/override.py) that the web process   *)
(* and the scheduler process read and write without a lock, each with its  *)
(* own cached copy of the room.  A presenter injects scenarios and decides *)
(* Tier 3 incidents in the web process; a scan of either process reads the *)
(* sensors, opens an incident and drives the actuator; the resume job fast *)
(* forwards the room and verifies (frontend/api/ops.py, ops/scheduler.py). *)
(*                                                                         *)
(* The exhibit has a hardware feed, whose readings are in band here, so    *)
(* every anomaly is an injected one.  Of the incident graph only what      *)
(* touches the two files is kept; IncidentGraph and IncidentDeployment     *)
(* have the rest.                                                          *)
(***************************************************************************)
EXTENDS Naturals

CONSTANTS
  AutoSensors,     \* sensors whose scenario the actuator can end
  ApproveSensors,  \* sensors whose incident waits for a human
  MaxInjections,   \* bound on the presenter's injections
  None             \* Python's None

Sensors == AutoSensors \cup ApproveSensors

Processes == {"web", "scheduler"}
Scans == {"injected", "heartbeat"}
Jobs == Scans \cup {"resume"}

Process(j) == IF j = "injected" THEN "web" ELSE "scheduler"

(* A room is the number of the injection that armed it, its sensors out of *)
(* band and whether the ventilation is strong enough to bring them back.   *)
Room == [arm : 0 .. MaxInjections, out : SUBSET Sensors, strong : BOOLEAN]

RoomState == [arm |-> 0, out |-> {}, strong |-> TRUE]

Ages == {"young", "settled", "expired"}
Override == [sensor : Sensors, age : Ages, arm : 1 .. MaxInjections]

ASSUME WorldAssumption ==
  /\ AutoSensors \cap ApproveSensors = {} /\ MaxInjections \in Nat
  /\ None \notin Sensors \cup Scans /\ None \notin Room \cup Override

Pc == {"idle", "waiting", "reload", "hydrate", "advance", "save", "read",
       "reconcile", "open", "act", "command", "register", "world", "verify",
       "verdict", "clear", "resolve", "look_up", "done", "unlink_expired"}

VARIABLES
  room,      \* the room file
  cache,     \* each process's _room, or None
  override,  \* the override file, or None
  scanLock,  \* holder of the machine-wide scan lock
  job,       \* each job's place and local state
  inject,    \* the sensor whose room is armed but not yet its override
  decision,  \* the sensor whose incident the operator has decided
  incident,  \* "none", "open" or "observing" of each sensor
  thread,    \* "none", "verifier" or "gate": where its thread is suspended
  arms,      \* injections so far
  acted,     \* history: the scenario each suspended command was about
  lost       \* history: whether a command or fast-forward was not saved, or
             \* saved while another job was under way, or the fast-forward
             \* left out because no override was in force

files == <<room, override>>
tickets == <<incident, thread>>
requests == <<inject, decision, arms>>
history == <<acted, lost>>
vars == <<files, cache, scanLock, job, tickets, requests, history>>

(* `then` follows a sub-step, `reloaded` is the scenario in the file when  *)
(* the job dropped the cached room (history), `sensor` and `arm` are what  *)
(* it read of the override or works on, `out` its reading, `made` the room *)
(* it has changed and not yet saved (history), `about` the scenario its    *)
(* thread's actuator command was about (history).                          *)
Idle == [pc |-> "idle", then |-> "idle", reloaded |-> 0, about |-> 0, arm |-> 0,
         sensor |-> None, out |-> {}, made |-> None]

Init ==
  /\ room = RoomState /\ override = None
  /\ cache = [p \in Processes |-> None]
  /\ scanLock = None /\ job = [j \in Jobs |-> Idle]
  /\ inject = None /\ decision = None /\ arms = 0
  /\ incident = [s \in Sensors |-> "none"] /\ thread = [s \in Sensors |-> "none"]
  /\ acted = [s \in Sensors |-> 0] /\ lost = FALSE

At(j, pc) == job[j].pc = pc
Put(j, state) == job' = [job EXCEPT ![j] = state]
Goes(j, pc) == Put(j, [job[j] EXCEPT !.pc = pc])

(* A scan returns the lock; the resume job never had it. *)
Finishes(j) ==
  /\ Put(j, Idle)
  /\ scanLock' = IF scanLock = j THEN None ELSE scanLock

-----------------------------------------------------------------------------
(* The override file *)

is_active == override # None /\ override.age # "expired"

(* sensor_source is "hardware" *)
is_live_world == ~is_active

(* Mutant: the file checked and not deleted. *)
AsksOnly(j, next) == Put(j, next)

(* is_active() in a step to `next`: an expired file is found, then deleted. *)
Asks(j, next) ==
  IF override # None /\ ~is_active
  THEN Put(j, [next EXCEPT !.pc = "unlink_expired", !.then = next.pc,
                           !.arm = override.arm])
  ELSE Put(j, next)

UnlinksExpired(j) ==
  /\ At(j, "unlink_expired")
  /\ override' = None
  /\ Put(j, [job[j] EXCEPT !.pc = job[j].then, !.then = "idle", !.arm = 0])
  /\ UNCHANGED <<room, cache, scanLock, tickets, requests, history>>

(* The grace window, then the lifetime, elapses. *)
GraceElapses ==
  /\ override # None /\ override.age = "young"
  /\ override' = [override EXCEPT !.age = "settled"]
  /\ UNCHANGED <<room, cache, scanLock, job, tickets, requests, history>>

TtlElapses ==
  /\ override # None /\ override.age = "settled"
  /\ override' = [override EXCEPT !.age = "expired"]
  /\ UNCHANGED <<room, cache, scanLock, job, tickets, requests, history>>

-----------------------------------------------------------------------------
(* The room file and its caches *)

(* Mutant: a reload that goes on with the process's copy. *)
KeepsCache(j) ==
  /\ At(j, "reload")
  /\ Put(j, [job[j] EXCEPT !.pc = IF j = "resume" THEN "advance" ELSE "hydrate",
                           !.reloaded = room.arm])
  /\ UNCHANGED <<files, cache, scanLock, tickets, requests, history>>

(* reload_room() first drops the process's copy. *)
DropsCache(j) ==
  /\ At(j, "reload")
  /\ cache' = [cache EXCEPT ![Process(j)] = None]
  /\ Put(j, [job[j] EXCEPT !.pc = IF j = "resume" THEN "advance" ELSE "hydrate",
                           !.reloaded = room.arm])
  /\ UNCHANGED <<files, scanLock, tickets, requests, history>>

(* The process's copy, read from the file when there is none. *)
get_room(p) == IF cache[p] = None THEN room ELSE cache[p]

Caches(p, r) == cache' = [cache EXCEPT ![p] = r]

Hydrates(j) ==
  /\ At(j, "hydrate")
  /\ Caches(Process(j), get_room(Process(j)))
  /\ Goes(j, "read")
  /\ UNCHANGED <<files, scanLock, tickets, requests, history>>

(* The CO2 balance: strong ventilation brings the room back into band. *)
advance_minutes(r) == IF r.strong THEN [r EXCEPT !.out = @ \cap ApproveSensors] ELSE r

set_ventilation(r) == [r EXCEPT !.strong = TRUE]

(* A change to the process's copy, to be saved in the next step. *)
Changes(j, new, then, about) ==
  /\ Caches(Process(j), new)
  /\ Put(j, [job[j] EXCEPT !.pc = "save", !.then = then, !.made = new,
                           !.about = about])

(* save_room() writes what is the process's copy by now. *)
Saves(j) ==
  /\ At(j, "save")
  /\ room' = get_room(Process(j))
  /\ lost' = (lost \/ cache[Process(j)] # job[j].made
                   \/ \E k \in Jobs \ {j} : job[k].pc \notin {"idle", "waiting"})
  /\ Put(j, [job[j] EXCEPT !.pc = job[j].then, !.then = "idle", !.made = None])
  /\ UNCHANGED <<override, cache, scanLock, tickets, requests, acted>>

(* read_sensors(): the room during an injection, else the hardware. *)
Reading(j) == IF is_active THEN get_room(Process(j)).out ELSE {}

ReadsSensors(j, from, to) ==
  /\ At(j, from)
  /\ IF is_active THEN Caches(Process(j), get_room(Process(j))) ELSE UNCHANGED cache
  /\ Asks(j, [job[j] EXCEPT !.pc = to, !.out = Reading(j)])
  /\ UNCHANGED <<files, scanLock, tickets, requests, history>>

-----------------------------------------------------------------------------
(* The operator's requests, in the web process *)

(* arm(): co2_spike has weak ventilation, the others are not about it. *)
Scenario(s, n) == [arm |-> n, out |-> {s}, strong |-> s \in ApproveSensors]

(* Bound: MaxInjections. *)
InjectArms(s) ==
  /\ inject = None /\ arms < MaxInjections
  /\ inject' = s /\ arms' = arms + 1
  /\ room' = Scenario(s, arms + 1) /\ Caches("web", Scenario(s, arms + 1))
  /\ UNCHANGED <<override, scanLock, job, tickets, decision, history>>

(* The scan thread it starts gives up while another one is running. *)
InjectActivates ==
  /\ inject # None
  /\ override' = [sensor |-> inject, age |-> "young", arm |-> arms]
  /\ inject' = None
  /\ IF At("injected", "idle") THEN Goes("injected", "waiting") ELSE UNCHANGED job
  /\ UNCHANGED <<room, cache, scanLock, tickets, decision, arms, history>>

DecisionWrites(s) ==
  /\ decision = None
  /\ incident[s] = "open" /\ thread[s] = "gate"
  /\ decision' = s
  /\ incident' = [incident EXCEPT ![s] = "none"]
  /\ thread' = [thread EXCEPT ![s] = "none"]
  /\ UNCHANGED <<files, cache, scanLock, job, inject, arms, history>>

(* Whatever injection is in flight. *)
DecisionDeactivates ==
  /\ decision # None
  /\ decision' = None /\ override' = None
  /\ UNCHANGED <<room, cache, scanLock, job, tickets, inject, arms, history>>

-----------------------------------------------------------------------------
(* The scans *)

(* Mutant: a scan that does not ask for the machine-wide lock. *)
ScanStartsUnlocked(j) ==
  /\ At(j, IF j = "injected" THEN "waiting" ELSE "idle")
  /\ scanLock' = j
  /\ Put(j, [Idle EXCEPT !.pc = "reload"])
  /\ UNCHANGED <<files, cache, tickets, requests, history>>

ScanStarts(j) ==
  /\ At(j, IF j = "injected" THEN "waiting" ELSE "idle")
  /\ scanLock = None /\ scanLock' = j
  /\ Put(j, [Idle EXCEPT !.pc = "reload"])
  /\ UNCHANGED <<files, cache, tickets, requests, history>>

ScanReads(j) == ReadsSensors(j, "read", "reconcile")

(* In the live world an incident whose sensor reads in band is closed. *)
Reconciles(j) ==
  /\ At(j, "reconcile")
  /\ incident' = [s \in Sensors |->
                    IF is_live_world /\ s \notin job[j].out THEN "none" ELSE incident[s]]
  /\ Asks(j, [job[j] EXCEPT !.pc = IF job[j].out = {} THEN "clear" ELSE "open"])
  /\ UNCHANGED <<files, cache, scanLock, thread, requests, history>>

(* The anomaly is suppressed while its sensor has an active incident. *)
Opens(j) ==
  /\ At(j, "open")
  /\ \E s \in job[j].out :
       IF incident[s] # "none"
       THEN Put(j, [Idle EXCEPT !.pc = "clear"]) /\ UNCHANGED incident
       ELSE /\ incident' = [incident EXCEPT ![s] = "open"]
            /\ Put(j, [job[j] EXCEPT !.pc = "act", !.sensor = s, !.out = {}])
  /\ UNCHANGED <<files, cache, scanLock, thread, requests, history>>

(* The route behind the critic: observe in the live world; else the gate,  *)
(* the actuator, or the end of an incident without replans.                *)
Routes(j) ==
  LET s == job[j].sensor
  IN  /\ At(j, "act")
      /\ \E status \in {"open", "none"} :
           /\ incident' = [incident EXCEPT
                             ![s] = IF is_live_world THEN "observing" ELSE status]
           /\ status = "none" => ~is_live_world /\ s \in AutoSensors
           /\ Asks(j, [job[j] EXCEPT
                         !.pc = IF is_live_world \/ status = "none" THEN "clear"
                                ELSE IF s \in AutoSensors THEN "command" ELSE "register"])
           /\ thread' = IF is_live_world \/ status = "none"
                        THEN [thread EXCEPT ![s] = "none"] ELSE thread
      /\ UNCHANGED <<files, cache, scanLock, requests, history>>

Commands(j) ==
  /\ At(j, "command")
  /\ LET r == get_room(Process(j))
     IN  Changes(j, set_ventilation(r), "register", r.arm)
  /\ UNCHANGED <<files, scanLock, tickets, requests, history>>

Registers(j) ==
  /\ At(j, "register")
  /\ thread' = [thread EXCEPT ![job[j].sensor] =
                  IF job[j].sensor \in AutoSensors THEN "verifier" ELSE "gate"]
  /\ acted' = [acted EXCEPT ![job[j].sensor] = job[j].about]
  /\ Finishes(j)
  /\ UNCHANGED <<files, cache, incident, requests, lost>>

-----------------------------------------------------------------------------
(* The resume job *)

ResumeStarts ==
  /\ At("resume", "idle")
  /\ \E s \in Sensors :
       /\ thread[s] = "verifier"
       /\ Put("resume", [Idle EXCEPT !.pc = "world", !.sensor = s, !.about = acted[s]])
  /\ UNCHANGED <<files, cache, scanLock, tickets, requests, history>>

(* Mutant: the choice by the configured source alone, which is hardware. *)
AsksSource ==
  /\ At("resume", "world")
  /\ Goes("resume", "verify")
  /\ UNCHANGED <<files, cache, scanLock, tickets, requests, history>>

AsksWorld ==
  /\ At("resume", "world")
  /\ Asks("resume", [job["resume"] EXCEPT
                       !.pc = IF is_live_world THEN "verify" ELSE "reload"])
  /\ lost' = (lost \/ is_live_world)
  /\ UNCHANGED <<files, cache, scanLock, tickets, requests, acted>>

(* _advance_sim_before_verify *)
FastForwards ==
  /\ At("resume", "advance")
  /\ Changes("resume", advance_minutes(get_room("scheduler")), "verify",
             job["resume"].about)
  /\ UNCHANGED <<files, scanLock, tickets, requests, history>>

Verifies == ReadsSensors("resume", "verify", "verdict")

(* Met or given up, the thread is discarded; a miss may be replanned. *)
Verdict ==
  LET s == job["resume"].sensor
  IN  /\ At("resume", "verdict")
      /\ \/ /\ incident' = [incident EXCEPT ![s] = "none"]
            /\ thread' = [thread EXCEPT ![s] = "none"]
            /\ Put("resume", [Idle EXCEPT !.pc = "clear"])
         \/ /\ s \in job["resume"].out
            /\ incident' = [incident EXCEPT ![s] = "open"]
            /\ Put("resume", [job["resume"] EXCEPT !.pc = "act", !.out = {}])
            /\ UNCHANGED thread
      /\ UNCHANGED <<files, cache, scanLock, requests, history>>

-----------------------------------------------------------------------------
(* clear_if_resolved(), at the end of a scan or of a resumed thread *)

(* Mutant: the override of any age may be resolved. *)
IgnoresGrace(j) ==
  /\ At(j, "clear")
  /\ IF override = None
     THEN Finishes(j)
     ELSE /\ Put(j, [Idle EXCEPT !.pc = "resolve", !.arm = override.arm])
          /\ UNCHANGED scanLock
  /\ UNCHANGED <<files, cache, tickets, requests, history>>

ChecksGrace(j) ==
  /\ At(j, "clear")
  /\ IF override = None \/ override.age = "young"
     THEN Finishes(j)
     ELSE /\ Put(j, [Idle EXCEPT !.pc = "resolve", !.arm = override.arm])
          /\ UNCHANGED scanLock
  /\ UNCHANGED <<files, cache, tickets, requests, history>>

(* active_sensor(): is_active(), then the file once more. *)
ReadsSensor(j) ==
  /\ At(j, "resolve")
  /\ IF override = None THEN Finishes(j)
     ELSE /\ Asks(j, [job[j] EXCEPT !.pc = IF is_active THEN "look_up" ELSE "done",
                                    !.sensor = override.sensor])
          /\ UNCHANGED scanLock
  /\ UNCHANGED <<files, cache, tickets, requests, history>>

(* An expired override was cleared on the way. *)
NothingToClear(j) ==
  /\ At(j, "done") /\ Finishes(j)
  /\ UNCHANGED <<files, cache, tickets, requests, history>>

(* Mutant: the ticket server not asked. *)
ClearsUnasked(j) ==
  /\ At(j, "look_up")
  /\ override' = None
  /\ Finishes(j)
  /\ UNCHANGED <<room, cache, tickets, requests, history>>

(* No active incident of that sensor: whatever file is there goes. *)
Clears(j) ==
  /\ At(j, "look_up")
  /\ override' = IF incident[job[j].sensor] = "none" THEN None ELSE override
  /\ Finishes(j)
  /\ UNCHANGED <<room, cache, tickets, requests, history>>

-----------------------------------------------------------------------------
ScanStep(j) ==
  \/ ScanStarts(j) \/ Hydrates(j) \/ ScanReads(j) \/ Reconciles(j) \/ Opens(j)

ResumeStep == ResumeStarts \/ AsksWorld \/ FastForwards \/ Verifies \/ Verdict

SharedStep(j) ==
  \/ UnlinksExpired(j) \/ DropsCache(j) \/ Saves(j)
  \/ Routes(j) \/ Commands(j) \/ Registers(j)
  \/ ChecksGrace(j) \/ ReadsSensor(j) \/ NothingToClear(j) \/ Clears(j)

JobStep(j) ==
  \/ j \in Scans /\ ScanStep(j)
  \/ j = "resume" /\ ResumeStep
  \/ SharedStep(j)

RequestStep ==
  \/ \E s \in Sensors : InjectArms(s) \/ DecisionWrites(s)
  \/ InjectActivates \/ DecisionDeactivates

TimePasses == GraceElapses \/ TtlElapses

Next == (\E j \in Jobs : JobStep(j)) \/ RequestStep \/ TimePasses

(* The scans run to their end, the heartbeat on its schedule, and time     *)
(* passes; no property needs the resume job to run.                        *)
Spec ==
  /\ Init /\ [][Next]_vars
  /\ \A j \in Scans : WF_vars(JobStep(j))
  /\ WF_vars(TimePasses)

-----------------------------------------------------------------------------
(* Properties *)

(***************************************************************************)
(* Types; a scan past its start has the scan lock, and only one has it.    *)
(***************************************************************************)
TypeOK ==
  /\ room \in Room /\ cache \in [Processes -> Room \cup {None}]
  /\ override \in Override \cup {None}
  /\ scanLock \in Scans \cup {None}
  /\ job \in [Jobs -> [pc : Pc, then : Pc, reloaded : 0 .. MaxInjections, about : 0 .. MaxInjections,
                       arm : 0 .. MaxInjections, sensor : Sensors \cup {None},
                       out : SUBSET Sensors, made : Room \cup {None}]]
  /\ inject \in Sensors \cup {None} /\ decision \in Sensors \cup {None}
  /\ incident \in [Sensors -> {"none", "open", "observing"}]
  /\ thread \in [Sensors -> {"none", "verifier", "gate"}]
  /\ arms \in 0 .. MaxInjections /\ acted \in [Sensors -> 0 .. MaxInjections] /\ lost \in BOOLEAN
  /\ \A j \in Scans : job[j].pc \notin {"idle", "waiting"} => scanLock = j

(***************************************************************************)
(* sensing/override.py:38 "a concurrent terminal scan ... would wrongly    *)
(* deactivate the just-armed override": within its grace window an         *)
(* injection only ends by the operator's decision, or by a job that had    *)
(* looked at an earlier injection's file.                                  *)
(***************************************************************************)
GraceIsRespected ==
  [][override # None /\ override.age = "young" /\ override' = None
       => \/ decision # None
          \/ \E j \in Jobs : /\ job[j].pc \in {"look_up", "unlink_expired"}
                             /\ job[j].arm < override.arm]_vars

(***************************************************************************)
(* sensing/override.py:97 "this never clears mid-demo": while the incident *)
(* of an injection is open its override only ends by its lifetime, by the  *)
(* operator's decision on some incident, or by a job that had looked at an *)
(* earlier injection's file.                                               *)
(***************************************************************************)
DemoKeepsItsWorld ==
  [][override # None /\ override' = None /\ incident[override.sensor] = "open"
       => \/ override.age = "expired" \/ decision # None
          \/ \E j \in Jobs : /\ job[j].pc \in {"look_up", "unlink_expired"}
                             /\ job[j].arm < override.arm]_vars

(***************************************************************************)
(* sensing/override.py:33 the lifetime "guarantees the exhibit self-heals  *)
(* to real data if a terminal-state clear is ever missed".                 *)
(***************************************************************************)
SelfHeals == override # None ~> override = None

(***************************************************************************)
(* sensing/simulator/room.py:143 "the single source of truth across        *)
(* processes": every process writes its whole copy back.  A save may so    *)
(* undo a scenario armed while its job was running, but never one that was *)
(* in the file when the job reloaded it: the room in force is lost to a    *)
(* race, not to a copy left over from an earlier tick.                     *)
(***************************************************************************)
ReloadProtects ==
  [][\A j \in Jobs : At(j, "save") /\ room'.arm < room.arm /\ job'[j] # job[j]
                       => room.arm > job[j].reloaded]_vars

(***************************************************************************)
(* ops/scheduler.py:170 "fast-forward the room so the Verifier reads the   *)
(* post-action recovery ... (else a false missed)": as long as no other    *)
(* scenario was armed since, the verifier reads the anomaly again only if  *)
(* a command or a fast-forward was saved while another job was under way   *)
(* (or replaced by it before the save), or if the override had lapsed when *)
(* the job looked and was renewed before it read.                          *)
(***************************************************************************)
RecoveryIsRead ==
  [][At("resume", "verify") /\ job'["resume"].pc = "verdict"
       => \/ job["resume"].sensor \notin job'["resume"].out
          \/ lost \/ arms # job["resume"].about]_vars
=============================================================================
