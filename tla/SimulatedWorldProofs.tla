------------------------ MODULE SimulatedWorldProofs ------------------------
(***************************************************************************)
(* Proofs about SimulatedWorld, for any sensors and any number of          *)
(* injections: the types, with the scan lock, which scenario a save of a   *)
(* process's copy of the room may undo, and that the verifier reads the    *)
(* recovery unless a command or a fast-forward was exposed to a race.      *)
(***************************************************************************)
EXTENDS SimulatedWorld, TLAPS

-----------------------------------------------------------------------------
(* Types *)

JobState ==
  [pc : Pc, then : Pc, reloaded : 0 .. MaxInjections, about : 0 .. MaxInjections,
   arm : 0 .. MaxInjections, sensor : Sensors \cup {None}, out : SUBSET Sensors,
   made : Room \cup {None}]

FilesTyped ==
  /\ room \in Room /\ cache \in [Processes -> Room \cup {None}]
  /\ override \in Override \cup {None}

RequestsTyped ==
  /\ inject \in Sensors \cup {None} /\ decision \in Sensors \cup {None}
  /\ arms \in 0 .. MaxInjections
  /\ inject # None => arms \in 1 .. MaxInjections

TicketsTyped ==
  /\ incident \in [Sensors -> {"none", "open", "observing"}]
  /\ thread \in [Sensors -> {"none", "verifier", "gate"}]
  /\ acted \in [Sensors -> 0 .. MaxInjections] /\ lost \in BOOLEAN

LockHeld(j) == job[j].pc \notin {"idle", "waiting"} => scanLock = j

JobsTyped ==
  /\ job \in [Jobs -> JobState]
  /\ scanLock \in Scans \cup {None}
  /\ \A j \in Scans : LockHeld(j)

TypeInv == FilesTyped /\ RequestsTyped /\ TicketsTyped /\ JobsTyped

LEMMA TypeInvImpliesTypeOK == TypeInv => TypeOK
BY DEF TypeInv, FilesTyped, RequestsTyped, TicketsTyped, JobsTyped, TypeOK, LockHeld, JobState

LEMMA IdleIsJobState == Idle \in JobState
BY WorldAssumption DEF Idle, JobState, Pc

LEMMA IdleGoes == \A pc \in Pc : [Idle EXCEPT !.pc = pc] \in JobState
BY IdleIsJobState DEF JobState

LEMMA TypeInit == Init => TypeInv
<1> SUFFICES ASSUME Init PROVE TypeInv
  OBVIOUS
<1>1. FilesTyped
  BY WorldAssumption DEF Init, FilesTyped, Room, RoomState
<1>2. RequestsTyped /\ TicketsTyped
  <2>1. 0 \in 0 .. MaxInjections
    BY WorldAssumption
  <2> QED  BY <2>1 DEF Init, RequestsTyped, TicketsTyped
<1>3. JobsTyped
  BY IdleIsJobState DEF Init, JobsTyped, LockHeld, Idle, Scans, Jobs
<1> QED  BY <1>1, <1>2, <1>3 DEF TypeInv

(* A job that stays within the lock, or never needed it. *)
LEMMA JobsPut ==
  ASSUME TypeInv, NEW j \in Jobs, NEW s \in JobState, Put(j, s),
         \/ UNCHANGED scanLock
         \/ scanLock = None /\ scanLock' = j /\ j \in Scans,
         j \in Scans /\ s.pc \notin {"idle", "waiting"} => scanLock' = j
  PROVE  JobsTyped'
<1>1. job' \in [Jobs -> JobState]
  BY DEF TypeInv, JobsTyped, Put
<1>2. ASSUME NEW k \in Scans PROVE LockHeld(k)'
  <2>1. CASE k = j
    BY <2>1 DEF LockHeld, Put, TypeInv, JobsTyped
  <2>2. CASE k # j
    <3>1. job'[k] = job[k]
      BY <2>2 DEF Put, TypeInv, JobsTyped, Jobs
    <3>2. job[k].pc \in {"idle", "waiting"} \/ scanLock = k
      BY DEF LockHeld, TypeInv, JobsTyped
    <3> QED  BY <2>2, <3>1, <3>2, WorldAssumption DEF LockHeld
  <2> QED  BY <2>1, <2>2
<1> QED  BY <1>1, <1>2 DEF TypeInv, JobsTyped

(* A job under way goes on. *)
LEMMA JobGoesOn ==
  ASSUME TypeInv, NEW j \in Jobs, job[j].pc \notin {"idle", "waiting"},
         NEW s \in JobState, Put(j, s), UNCHANGED scanLock
  PROVE  JobsTyped'
<1>1. j \in Scans => scanLock = j
  BY DEF TypeInv, JobsTyped, LockHeld
<1> QED  BY <1>1, JobsPut

LEMMA JobFinishes ==
  ASSUME TypeInv, NEW j \in Jobs, Finishes(j)
  PROVE  JobsTyped'
<1>1. job' \in [Jobs -> JobState] /\ scanLock' \in Scans \cup {None}
  BY IdleIsJobState DEF Finishes, Put, TypeInv, JobsTyped
<1>2. ASSUME NEW k \in Scans PROVE LockHeld(k)'
  <2>1. CASE k = j
    BY <2>1 DEF LockHeld, Finishes, Put, Idle, TypeInv, JobsTyped
  <2>2. CASE k # j
    <3>1. job'[k] = job[k]
      BY <2>2 DEF Finishes, Put, TypeInv, JobsTyped, Jobs
    <3>2. LockHeld(k)
      BY DEF TypeInv, JobsTyped
    <3> QED  BY <2>2, <3>1, <3>2 DEF LockHeld, Finishes
  <2> QED  BY <2>1, <2>2
<1> QED  BY <1>1, <1>2 DEF JobsTyped

(* What is_active() makes of the state it is asked in. *)
LEMMA AsksPuts ==
  ASSUME TypeInv, NEW j \in Jobs, NEW next \in JobState, Asks(j, next)
  PROVE  \E s \in JobState :
           /\ Put(j, s)
           /\ s.reloaded = next.reloaded /\ s.sensor = next.sensor /\ s.about = next.about
           /\ \/ s = next /\ (override = None \/ is_active)
              \/ /\ s.pc = "unlink_expired" /\ s.then = next.pc /\ override # None
                 /\ override.age = "expired" /\ s.arm = override.arm
<1>1. CASE override # None /\ ~is_active
  <2> DEFINE s == [next EXCEPT !.pc = "unlink_expired", !.then = next.pc,
                               !.arm = override.arm]
  <2>1. Put(j, s)
    BY <1>1 DEF Asks
  <2>2. override \in Override /\ override.age = "expired"
    BY <1>1 DEF TypeInv, FilesTyped, is_active
  <2>3. override.arm \in 0 .. MaxInjections
    BY <2>2, WorldAssumption DEF Override
  <2>4. s \in JobState
    BY <2>3 DEF JobState, Pc
  <2>5. s.reloaded = next.reloaded /\ s.sensor = next.sensor /\ s.about = next.about
          /\ s.pc = "unlink_expired"
          /\ s.then = next.pc /\ s.arm = override.arm
    BY DEF JobState
  <2> HIDE DEF s
  <2> QED  BY <1>1, <2>1, <2>2, <2>4, <2>5
<1>2. CASE ~(override # None /\ ~is_active)
  BY <1>2 DEF Asks
<1> QED  BY <1>1, <1>2

LEMMA JobAsks ==
  ASSUME TypeInv, NEW j \in Jobs, job[j].pc \notin {"idle", "waiting"},
         NEW next \in JobState, Asks(j, next), UNCHANGED scanLock
  PROVE  JobsTyped'
BY AsksPuts, JobGoesOn

LEMMA RoomsTyped ==
  ASSUME TypeInv
  PROVE  /\ \A p \in Processes : get_room(p) \in Room
         /\ \A r \in Room : /\ advance_minutes(r) \in Room /\ advance_minutes(r).arm = r.arm
                           /\ set_ventilation(r) \in Room /\ set_ventilation(r).arm = r.arm
<1>1. \A p \in Processes : get_room(p) \in Room
  BY DEF TypeInv, FilesTyped, get_room
<1>2. ASSUME NEW r \in Room
      PROVE  /\ advance_minutes(r) \in Room /\ advance_minutes(r).arm = r.arm
             /\ set_ventilation(r) \in Room /\ set_ventilation(r).arm = r.arm
  BY DEF Room, advance_minutes, set_ventilation
<1> QED  BY <1>1, <1>2

LEMMA CachesTyped ==
  ASSUME TypeInv, NEW p \in Processes, NEW r \in Room, Caches(p, r), UNCHANGED files
  PROVE  FilesTyped'
BY DEF TypeInv, FilesTyped, Caches, files

LEMMA ProcessOfJob == \A j : Process(j) \in Processes
BY DEF Process, Processes

(* The state of a job that goes somewhere. *)
LEMMA StateTyped ==
  ASSUME TypeInv, NEW j \in Jobs
  PROVE  /\ job[j] \in JobState
         /\ \A pc \in Pc : [job[j] EXCEPT !.pc = pc] \in JobState
<1>1. job[j] \in JobState
  BY DEF TypeInv, JobsTyped
<1> QED  BY <1>1 DEF JobState

-----------------------------------------------------------------------------
(* Types are kept *)

LEMMA RequestsStay == TypeInv /\ UNCHANGED requests => RequestsTyped'
BY DEF TypeInv, RequestsTyped, requests

LEMMA TicketsStay == TypeInv /\ UNCHANGED <<tickets, history>> => TicketsTyped'
BY DEF TypeInv, TicketsTyped, tickets, history

LEMMA FilesStay == TypeInv /\ UNCHANGED <<files, cache>> => FilesTyped'
BY DEF TypeInv, FilesTyped, files

LEMMA JobsStay == TypeInv /\ UNCHANGED <<job, scanLock>> => JobsTyped'
BY DEF TypeInv, JobsTyped, LockHeld

LEMMA TypeTime == TypeInv /\ TimePasses => TypeInv'
<1> SUFFICES ASSUME TypeInv, TimePasses PROVE TypeInv'
  OBVIOUS
<1>1. FilesTyped'
  <2>1. override \in Override
    BY DEF TimePasses, GraceElapses, TtlElapses, TypeInv, FilesTyped
  <2>2. override' \in Override
    BY <2>1 DEF TimePasses, GraceElapses, TtlElapses, Override, Ages
  <2> QED  BY <2>2 DEF TimePasses, GraceElapses, TtlElapses, TypeInv, FilesTyped
<1> QED  BY <1>1, RequestsStay, TicketsStay, JobsStay
       DEF TypeInv, TimePasses, GraceElapses, TtlElapses

LEMMA TypeRequests == TypeInv /\ RequestStep => TypeInv'
<1> SUFFICES ASSUME TypeInv, RequestStep PROVE TypeInv'
  OBVIOUS
<1>1. ASSUME NEW s \in Sensors, InjectArms(s) PROVE TypeInv'
  <2>1. arms \in Nat /\ arms + 1 \in 1 .. MaxInjections /\ arms + 1 \in 0 .. MaxInjections
    BY <1>1, WorldAssumption DEF InjectArms, TypeInv, RequestsTyped
  <2>2. Scenario(s, arms + 1) \in Room
    BY <2>1 DEF Scenario, Room
  <2>3. FilesTyped'
    BY <1>1, <2>2 DEF InjectArms, Caches, TypeInv, FilesTyped
  <2>4. RequestsTyped'
    BY <1>1, <2>1 DEF InjectArms, TypeInv, RequestsTyped
  <2> QED  BY <1>1, <2>3, <2>4, TicketsStay, JobsStay DEF InjectArms, TypeInv
<1>2. CASE InjectActivates
  <2>1. inject \in Sensors /\ arms \in 1 .. MaxInjections
    BY <1>2 DEF InjectActivates, TypeInv, RequestsTyped
  <2>2. FilesTyped'
    BY <1>2, <2>1 DEF InjectActivates, TypeInv, FilesTyped, Override, Ages
  <2>3. RequestsTyped'
    BY <1>2 DEF InjectActivates, TypeInv, RequestsTyped
  <2>4. JobsTyped'
    <3>1. CASE At("injected", "idle")
      <4> DEFINE s == [job["injected"] EXCEPT !.pc = "waiting"]
      <4>1. "injected" \in Jobs /\ "waiting" \in Pc
        BY DEF Jobs, Scans, Pc
      <4> job["injected"] \in JobState
        BY <4>1, StateTyped
      <4>3. s \in JobState /\ s.pc = "waiting"
        BY <4>1 DEF JobState
      <4>2. Put("injected", s) /\ UNCHANGED scanLock
        BY <1>2, <3>1 DEF InjectActivates, Goes
      <4> HIDE DEF s
      <4> QED  BY <4>1, <4>2, <4>3, JobsPut
    <3>2. CASE ~At("injected", "idle")
      BY <1>2, <3>2, JobsStay DEF InjectActivates
    <3> QED  BY <3>1, <3>2
  <2> QED  BY <1>2, <2>2, <2>3, <2>4, TicketsStay DEF InjectActivates, TypeInv
<1>3. ASSUME NEW s \in Sensors, DecisionWrites(s) PROVE TypeInv'
  <2>1. TicketsTyped'
    BY <1>3 DEF DecisionWrites, TypeInv, TicketsTyped, history
  <2>2. RequestsTyped'
    BY <1>3 DEF DecisionWrites, TypeInv, RequestsTyped
  <2> QED  BY <1>3, <2>1, <2>2, FilesStay, JobsStay DEF DecisionWrites, TypeInv
<1>4. CASE DecisionDeactivates
  <2>1. FilesTyped' /\ RequestsTyped'
    BY <1>4 DEF DecisionDeactivates, TypeInv, FilesTyped, RequestsTyped
  <2> QED  BY <1>4, <2>1, TicketsStay, JobsStay DEF DecisionDeactivates, TypeInv
<1> QED  BY <1>1, <1>2, <1>3, <1>4 DEF RequestStep

(* The steps that end an override, or look whether to. *)
LEMMA TypeClears ==
  ASSUME TypeInv, NEW j \in Jobs,
         \/ UnlinksExpired(j) \/ ChecksGrace(j) \/ ReadsSensor(j)
         \/ NothingToClear(j) \/ Clears(j)
  PROVE  TypeInv'
<1>1. CASE UnlinksExpired(j)
  <2> DEFINE s == [job[j] EXCEPT !.pc = job[j].then, !.then = "idle", !.arm = 0]
  <2> job[j] \in JobState
    BY StateTyped
  <2> "idle" \in Pc
    BY DEF Pc
  <2> 0 \in 0 .. MaxInjections
    BY WorldAssumption
  <2>1. s \in JobState
    BY DEF JobState
  <2>2. job[j].pc \notin {"idle", "waiting"} /\ Put(j, s) /\ UNCHANGED scanLock
    BY <1>1 DEF UnlinksExpired, At
  <2> HIDE DEF s
  <2>3. JobsTyped'
    BY <2>1, <2>2, JobGoesOn
  <2>4. FilesTyped'
    BY <1>1 DEF UnlinksExpired, TypeInv, FilesTyped
  <2> QED  BY <1>1, <2>3, <2>4, RequestsStay, TicketsStay DEF UnlinksExpired, TypeInv
<1>2. CASE ChecksGrace(j)
  <2>1. JobsTyped'
    <3>1. CASE override = None \/ override.age = "young"
      BY <1>2, <3>1, JobFinishes DEF ChecksGrace
    <3>2. CASE ~(override = None \/ override.age = "young")
      <4> DEFINE s == [Idle EXCEPT !.pc = "resolve", !.arm = override.arm]
      <4>1. override.arm \in 0 .. MaxInjections
        BY <3>2, WorldAssumption DEF TypeInv, FilesTyped, Override
      <4>2. s \in JobState
        BY <4>1, IdleIsJobState DEF JobState, Pc
      <4>3. job[j].pc \notin {"idle", "waiting"} /\ Put(j, s) /\ UNCHANGED scanLock
        BY <1>2, <3>2 DEF ChecksGrace, At
      <4> HIDE DEF s
      <4> QED  BY <4>2, <4>3, JobGoesOn
    <3> QED  BY <3>1, <3>2
  <2> QED  BY <1>2, <2>1, FilesStay, RequestsStay, TicketsStay DEF ChecksGrace, TypeInv
<1>3. CASE ReadsSensor(j)
  <2>1. JobsTyped'
    <3>1. CASE override = None
      BY <1>3, <3>1, JobFinishes DEF ReadsSensor
    <3>2. CASE override # None
      <4> DEFINE s == [job[j] EXCEPT !.pc = IF is_active THEN "look_up" ELSE "done",
                                     !.sensor = override.sensor]
      <4>1. override.sensor \in Sensors
        BY <3>2 DEF TypeInv, FilesTyped, Override
      <4>2. s \in JobState
        <5> DEFINE pc == IF is_active THEN "look_up" ELSE "done"
        <5>1. job[j] \in JobState /\ pc \in Pc
          BY StateTyped DEF Pc
        <5> HIDE DEF pc
        <5>2. [job[j] EXCEPT !.pc = pc, !.sensor = override.sensor] \in JobState
          BY <4>1, <5>1 DEF JobState
        <5> QED  BY <5>2 DEF pc
      <4>3. job[j].pc \notin {"idle", "waiting"} /\ Asks(j, s) /\ UNCHANGED scanLock
        BY <1>3, <3>2 DEF ReadsSensor, At
      <4> HIDE DEF s
      <4> QED  BY <4>2, <4>3, JobAsks
    <3> QED  BY <3>1, <3>2
  <2> QED  BY <1>3, <2>1, FilesStay, RequestsStay, TicketsStay DEF ReadsSensor, TypeInv
<1>4. CASE NothingToClear(j)
  BY <1>4, JobFinishes, FilesStay, RequestsStay, TicketsStay DEF NothingToClear, TypeInv
<1>5. CASE Clears(j)
  <2>1. FilesTyped'
    BY <1>5 DEF Clears, TypeInv, FilesTyped
  <2> QED  BY <1>5, <2>1, JobFinishes, RequestsStay, TicketsStay DEF Clears, TypeInv
<1> QED  BY <1>1, <1>2, <1>3, <1>4, <1>5

LEMMA JobGoes ==
  ASSUME TypeInv, NEW j \in Jobs, NEW pc \in Pc, Goes(j, pc),
         job[j].pc \notin {"idle", "waiting"}, UNCHANGED scanLock
  PROVE  JobsTyped'
BY StateTyped, JobGoesOn DEF Goes

(* The steps that read, change and save a room. *)
LEMMA TypeRooms ==
  ASSUME TypeInv, NEW j \in Jobs,
         \/ DropsCache(j) \/ Hydrates(j) \/ Saves(j) \/ Commands(j)
         \/ j = "resume" /\ FastForwards
  PROVE  TypeInv'
<1>1. CASE DropsCache(j)
  <2> DEFINE pc == IF j = "resume" THEN "advance" ELSE "hydrate"
  <2> DEFINE s == [job[j] EXCEPT !.pc = pc, !.reloaded = room.arm]
  <2>1. room.arm \in 0 .. MaxInjections
    BY DEF TypeInv, FilesTyped, Room
  <2>2. pc \in Pc
    BY DEF Pc
  <2>3. job[j] \in JobState
    BY StateTyped
  <2>4. job[j].pc \notin {"idle", "waiting"} /\ Put(j, s) /\ UNCHANGED scanLock
    BY <1>1 DEF DropsCache, At
  <2> HIDE DEF pc
  <2>5. s \in JobState
    BY <2>1, <2>2, <2>3 DEF JobState
  <2> HIDE DEF s
  <2>6. JobsTyped'
    BY <2>4, <2>5, JobGoesOn
  <2>7. FilesTyped'
    BY <1>1 DEF DropsCache, TypeInv, FilesTyped, files
  <2> QED  BY <1>1, <2>6, <2>7, RequestsStay, TicketsStay DEF DropsCache, TypeInv
<1>2. CASE Hydrates(j)
  <2>1. get_room(Process(j)) \in Room
    BY RoomsTyped, ProcessOfJob
  <2>2. FilesTyped'
    BY <1>2, <2>1, CachesTyped, ProcessOfJob DEF Hydrates
  <2>3. "read" \in Pc
    BY DEF Pc
  <2>4. JobsTyped'
    BY <1>2, <2>3, JobGoes DEF Hydrates, At
  <2> QED  BY <1>2, <2>2, <2>4, RequestsStay, TicketsStay DEF Hydrates, TypeInv
<1>3. CASE Saves(j)
  <2> DEFINE s == [job[j] EXCEPT !.pc = job[j].then, !.then = "idle", !.made = None]
  <2>1. job[j] \in JobState
    BY StateTyped
  <2>2. "idle" \in Pc
    BY DEF Pc
  <2>3. s \in JobState
    BY <2>1, <2>2 DEF JobState
  <2>4. job[j].pc \notin {"idle", "waiting"} /\ Put(j, s) /\ UNCHANGED scanLock
    BY <1>3 DEF Saves, At
  <2> HIDE DEF s
  <2>5. JobsTyped'
    BY <2>3, <2>4, JobGoesOn
  <2>6. get_room(Process(j)) \in Room
    BY RoomsTyped, ProcessOfJob
  <2>7. FilesTyped'
    BY <1>3, <2>6 DEF Saves, TypeInv, FilesTyped
  <2>8. lost' \in BOOLEAN
    BY <1>3 DEF Saves
  <2>9. TicketsTyped'
    BY <1>3, <2>8 DEF Saves, TypeInv, TicketsTyped, tickets
  <2> QED  BY <1>3, <2>5, <2>7, <2>9, RequestsStay DEF Saves, TypeInv
<1>4. ASSUME NEW new \in Room, NEW then \in Pc, NEW about \in 0 .. MaxInjections,
             Changes(j, new, then, about), job[j].pc \notin {"idle", "waiting"},
             UNCHANGED <<files, scanLock, tickets, requests, history>>
      PROVE  TypeInv'
  <2> DEFINE s == [job[j] EXCEPT !.pc = "save", !.then = then, !.made = new,
                                 !.about = about]
  <2>1. job[j] \in JobState
    BY StateTyped
  <2>2. "save" \in Pc
    BY DEF Pc
  <2>3. s \in JobState
    BY <1>4, <2>1, <2>2 DEF JobState
  <2>4. Put(j, s)
    BY <1>4 DEF Changes
  <2> HIDE DEF s
  <2>5. JobsTyped'
    BY <1>4, <2>3, <2>4, JobGoesOn
  <2>6. FilesTyped'
    BY <1>4, CachesTyped, ProcessOfJob DEF Changes
  <2> QED  BY <1>4, <2>5, <2>6, RequestsStay, TicketsStay DEF TypeInv
<1>5. CASE Commands(j)
  <2> DEFINE r == get_room(Process(j))
  <2>1. r \in Room
    BY RoomsTyped, ProcessOfJob
  <2>2. set_ventilation(r) \in Room /\ r.arm \in 0 .. MaxInjections
    BY <2>1, RoomsTyped DEF Room
  <2>3. "register" \in Pc
    BY DEF Pc
  <2> HIDE DEF r
  <2>4. Changes(j, set_ventilation(r), "register", r.arm) /\ job[j].pc \notin {"idle", "waiting"}
    BY <1>5 DEF Commands, At, r
  <2> QED  BY <1>4, <1>5, <2>1, <2>2, <2>3, <2>4 DEF Commands
<1>6. CASE j = "resume" /\ FastForwards
  <2> DEFINE r == get_room("scheduler")
  <2>1. r \in Room
    BY RoomsTyped DEF Processes
  <2>2. advance_minutes(r) \in Room
    BY <2>1, RoomsTyped
  <2>3. "verify" \in Pc
    BY DEF Pc
  <2>4. job[j].about \in 0 .. MaxInjections
    BY StateTyped DEF JobState
  <2> HIDE DEF r
  <2>5. Changes(j, advance_minutes(r), "verify", job[j].about)
          /\ job[j].pc \notin {"idle", "waiting"}
    BY <1>6 DEF FastForwards, At, r
  <2> QED  BY <1>4, <1>6, <2>1, <2>2, <2>3, <2>4, <2>5 DEF FastForwards
<1> QED  BY <1>1, <1>2, <1>3, <1>5, <1>6

LEMMA TypeReads ==
  ASSUME TypeInv, NEW j \in Jobs, NEW from \in Pc \ {"idle", "waiting"}, NEW to \in Pc,
         ReadsSensors(j, from, to)
  PROVE  TypeInv'
<1> DEFINE s == [job[j] EXCEPT !.pc = to, !.out = Reading(j)]
<1>1. get_room(Process(j)) \in Room
  BY RoomsTyped, ProcessOfJob
<1>2. Reading(j) \in SUBSET Sensors
  BY <1>1 DEF Reading, Room
<1>3. job[j] \in JobState
  BY StateTyped
<1>4. s \in JobState
  BY <1>2, <1>3 DEF JobState
<1>5. job[j].pc \notin {"idle", "waiting"} /\ Asks(j, s)
  BY DEF ReadsSensors, At
<1> HIDE DEF s
<1>6. JobsTyped'
  BY <1>4, <1>5, JobAsks DEF ReadsSensors
<1>7. FilesTyped'
  BY <1>1, CachesTyped, ProcessOfJob, FilesStay DEF ReadsSensors
<1> QED  BY <1>6, <1>7, RequestsStay, TicketsStay DEF ReadsSensors, TypeInv

(* The nodes of the graph. *)
LEMMA TypeNodes ==
  ASSUME TypeInv, NEW j \in Jobs,
         \/ j \in Scans /\ (ScanStarts(j) \/ Reconciles(j) \/ Opens(j))
         \/ Routes(j) \/ Registers(j)
  PROVE  TypeInv'
<1>0. job[j] \in JobState
  BY StateTyped
<1>1. CASE j \in Scans /\ ScanStarts(j)
  <2>1. "reload" \in Pc
    BY DEF Pc
  <2>2. [Idle EXCEPT !.pc = "reload"] \in JobState
    BY <2>1, IdleGoes
  <2>3. JobsTyped'
    BY <1>1, <2>2, JobsPut DEF ScanStarts
  <2> QED  BY <1>1, <2>3, FilesStay, RequestsStay, TicketsStay DEF ScanStarts, TypeInv
<1>2. CASE j \in Scans /\ Reconciles(j)
  <2> DEFINE pc == IF job[j].out = {} THEN "clear" ELSE "open"
  <2>1. pc \in Pc
    BY DEF Pc
  <2> HIDE DEF pc
  <2>2. [job[j] EXCEPT !.pc = pc] \in JobState
    BY <1>0, <2>1 DEF JobState
  <2>3. Asks(j, [job[j] EXCEPT !.pc = pc]) /\ job[j].pc \notin {"idle", "waiting"}
    BY <1>2 DEF Reconciles, At, pc
  <2>4. JobsTyped'
    BY <1>2, <2>2, <2>3, JobAsks DEF Reconciles
  <2>5. TicketsTyped'
    BY <1>2 DEF Reconciles, TypeInv, TicketsTyped, history
  <2> QED  BY <1>2, <2>4, <2>5, FilesStay, RequestsStay DEF Reconciles, TypeInv
<1>3. CASE j \in Scans /\ Opens(j)
  <2>1. PICK s \in job[j].out :
          IF incident[s] # "none"
          THEN Put(j, [Idle EXCEPT !.pc = "clear"]) /\ UNCHANGED incident
          ELSE /\ incident' = [incident EXCEPT ![s] = "open"]
               /\ Put(j, [job[j] EXCEPT !.pc = "act", !.sensor = s, !.out = {}])
    BY <1>3 DEF Opens
  <2>2. s \in Sensors
    BY <1>0 DEF JobState
  <2>3. "clear" \in Pc /\ "act" \in Pc
    BY DEF Pc
  <2>4. [Idle EXCEPT !.pc = "clear"] \in JobState
    BY <2>3, IdleGoes
  <2>5. [job[j] EXCEPT !.pc = "act", !.sensor = s, !.out = {}] \in JobState
    BY <1>0, <2>2, <2>3 DEF JobState
  <2>6. job[j].pc \notin {"idle", "waiting"} /\ UNCHANGED scanLock
    BY <1>3 DEF Opens, At
  <2>7. JobsTyped'
    BY <2>1, <2>4, <2>5, <2>6, JobGoesOn
  <2>8. TicketsTyped'
    BY <1>3, <2>1 DEF Opens, TypeInv, TicketsTyped, history
  <2> QED  BY <1>3, <2>7, <2>8, FilesStay, RequestsStay DEF Opens, TypeInv
<1>4. CASE Routes(j)
  <2> DEFINE s == job[j].sensor
             pc(status) == IF is_live_world \/ status = "none" THEN "clear"
                           ELSE IF s \in AutoSensors THEN "command" ELSE "register"
  <2>1. PICK status \in {"open", "none"} :
          /\ incident' = [incident EXCEPT
                            ![s] = IF is_live_world THEN "observing" ELSE status]
          /\ Asks(j, [job[j] EXCEPT !.pc = pc(status)])
          /\ thread' = IF is_live_world \/ status = "none"
                       THEN [thread EXCEPT ![s] = "none"] ELSE thread
    BY <1>4 DEF Routes
  <2>2. pc(status) \in Pc
    BY DEF Pc
  <2>3. TicketsTyped'
    BY <1>4, <2>1 DEF Routes, TypeInv, TicketsTyped, history
  <2> HIDE DEF pc
  <2>4. [job[j] EXCEPT !.pc = pc(status)] \in JobState
    BY <1>0, <2>2 DEF JobState
  <2>5. job[j].pc \notin {"idle", "waiting"} /\ UNCHANGED scanLock
    BY <1>4 DEF Routes, At
  <2>6. JobsTyped'
    BY <2>1, <2>4, <2>5, JobAsks
  <2> QED  BY <1>4, <2>3, <2>6, FilesStay, RequestsStay DEF Routes, TypeInv
<1>5. CASE Registers(j)
  <2>1. job[j].about \in 0 .. MaxInjections
    BY <1>0 DEF JobState
  <2>2. TicketsTyped'
    BY <1>5, <2>1 DEF Registers, TypeInv, TicketsTyped
  <2> QED  BY <1>5, <2>2, JobFinishes, FilesStay, RequestsStay DEF Registers, TypeInv
<1> QED  BY <1>1, <1>2, <1>3, <1>4, <1>5

LEMMA TypeResume ==
  ASSUME TypeInv, ResumeStarts \/ AsksWorld \/ Verdict
  PROVE  TypeInv'
<1>0. "resume" \in Jobs /\ job["resume"] \in JobState
  BY StateTyped DEF Jobs
<1>1. CASE ResumeStarts
  <2>1. PICK s \in Sensors :
          Put("resume", [Idle EXCEPT !.pc = "world", !.sensor = s, !.about = acted[s]])
    BY <1>1 DEF ResumeStarts
  <2>2. acted[s] \in 0 .. MaxInjections
    BY DEF TypeInv, TicketsTyped
  <2>3. "world" \in Pc
    BY DEF Pc
  <2>4. [Idle EXCEPT !.pc = "world", !.sensor = s, !.about = acted[s]] \in JobState
    BY <2>2, <2>3, IdleIsJobState DEF JobState
  <2>5. "resume" \notin Scans
    BY DEF Scans
  <2>6. JobsTyped'
    BY <1>0, <1>1, <2>1, <2>4, <2>5, JobsPut DEF ResumeStarts
  <2> QED  BY <1>1, <2>6, FilesStay, RequestsStay, TicketsStay DEF ResumeStarts, TypeInv
<1>2. CASE AsksWorld
  <2> DEFINE pc == IF is_live_world THEN "verify" ELSE "reload"
  <2>1. pc \in Pc
    BY DEF Pc
  <2>2. TicketsTyped'
    BY <1>2 DEF AsksWorld, is_live_world, is_active, TypeInv, TicketsTyped, tickets
  <2> HIDE DEF pc
  <2>3. [job["resume"] EXCEPT !.pc = pc] \in JobState
    BY <1>0, <2>1 DEF JobState
  <2>4. Asks("resume", [job["resume"] EXCEPT !.pc = pc])
          /\ job["resume"].pc \notin {"idle", "waiting"}
    BY <1>2 DEF AsksWorld, At, pc
  <2>5. JobsTyped'
    BY <1>0, <1>2, <2>3, <2>4, JobAsks DEF AsksWorld
  <2> QED  BY <1>2, <2>2, <2>5, FilesStay, RequestsStay DEF AsksWorld, TypeInv
<1>3. CASE Verdict
  <2>1. "clear" \in Pc /\ "act" \in Pc
    BY DEF Pc
  <2>2. [Idle EXCEPT !.pc = "clear"] \in JobState
    BY <2>1, IdleGoes
  <2>3. [job["resume"] EXCEPT !.pc = "act", !.out = {}] \in JobState
    BY <1>0, <2>1 DEF JobState
  <2>4. job["resume"].pc \notin {"idle", "waiting"}
    BY <1>3 DEF Verdict, At
  <2>5. JobsTyped'
    BY <1>0, <1>3, <2>2, <2>3, <2>4, JobGoesOn DEF Verdict
  <2>6. TicketsTyped'
    BY <1>3 DEF Verdict, TypeInv, TicketsTyped, history
  <2> QED  BY <1>3, <2>5, <2>6, FilesStay, RequestsStay DEF Verdict, TypeInv
<1> QED  BY <1>1, <1>2, <1>3

LEMMA TypeStep == TypeInv /\ [Next]_vars => TypeInv'
<1> SUFFICES ASSUME TypeInv, [Next]_vars PROVE TypeInv'
  OBVIOUS
<1>1. ASSUME NEW j \in Jobs, JobStep(j) PROVE TypeInv'
  <2>1. "read" \in Pc \ {"idle", "waiting"} /\ "verify" \in Pc \ {"idle", "waiting"}
          /\ "reconcile" \in Pc /\ "verdict" \in Pc
    BY DEF Pc
  <2>2. ASSUME j \in Scans, ScanReads(j) PROVE TypeInv'
    BY <2>1, <2>2, TypeReads DEF ScanReads
  <2>3. ASSUME j = "resume", Verifies PROVE TypeInv'
    BY <2>1, <2>3, TypeReads DEF Verifies
  <2>4. \/ j \in Scans /\ ScanReads(j)
        \/ j \in Scans /\ (ScanStarts(j) \/ Reconciles(j) \/ Opens(j))
        \/ Routes(j) \/ Registers(j)
        \/ DropsCache(j) \/ Hydrates(j) \/ Saves(j) \/ Commands(j)
        \/ j = "resume" /\ FastForwards
        \/ j = "resume" /\ Verifies
        \/ j = "resume" /\ (ResumeStarts \/ AsksWorld \/ Verdict)
        \/ UnlinksExpired(j) \/ ChecksGrace(j) \/ ReadsSensor(j)
        \/ NothingToClear(j) \/ Clears(j)
    BY <1>1 DEF JobStep, ScanStep, ResumeStep, SharedStep
  <2> QED  BY <2>2, <2>3, <2>4, TypeNodes, TypeRooms, TypeResume, TypeClears
<1>2. CASE UNCHANGED vars
  BY <1>2, FilesStay, RequestsStay, TicketsStay, JobsStay DEF vars, TypeInv
<1> QED  BY <1>1, <1>2, TypeTime, TypeRequests DEF Next

LEMMA TypeInvariant == Spec => []TypeInv
<1> QED  BY TypeInit, TypeStep, PTL DEF Spec

(***************************************************************************)
(* Every reachable state has its type, and a scan past its start holds the *)
(* scan lock: at most one scan of the two processes touches the room, the  *)
(* override and the tickets (ops/scheduler.py _scan_single_flight).        *)
(***************************************************************************)
THEOREM TypeCorrect == Spec => []TypeOK
BY TypeInvariant, TypeInvImpliesTypeOK, PTL

-----------------------------------------------------------------------------
(* The scenarios in the room file and in the copies *)

(* The scenario of a process's copy, or of the file it would read. *)
Arm(p) == get_room(p).arm

Quiet ==
  /\ \A p \in Processes : Arm(p)' = Arm(p)
  /\ room'.arm = room.arm /\ arms' = arms
  /\ \A j \in Jobs : job'[j].reloaded \in {job[j].reloaded, 0}

Armed ==
  /\ arms' = arms + 1 /\ room'.arm = arms + 1 /\ Arm("web")' = arms + 1
  /\ Arm("scheduler")' \in {Arm("scheduler"), arms + 1}
  /\ \A j \in Jobs : job'[j].reloaded = job[j].reloaded

Dropped(k) ==
  /\ Arm(Process(k))' = room.arm
  /\ \A p \in Processes \ {Process(k)} : Arm(p)' = Arm(p)
  /\ room' = room /\ arms' = arms
  /\ job'[k].reloaded = room.arm
  /\ \A j \in Jobs \ {k} : job'[j].reloaded = job[j].reloaded

Saved(k) ==
  /\ At(k, "save") /\ room'.arm = Arm(Process(k)) /\ arms' = arms
  /\ Arm(Process(k))' = Arm(Process(k))
  /\ \A p \in Processes : Arm(p)' \in {Arm(p), room'.arm}
  /\ \A j \in Jobs : job'[j].reloaded = job[j].reloaded
  /\ \A j \in Jobs \ {k} : job'[j] = job[j]

(* A job that moves, with what it reloaded or with nothing reloaded. *)
LEMMA QuietPut ==
  ASSUME TypeInv, NEW j \in Jobs, NEW s, Put(j, s), s.reloaded \in {job[j].reloaded, 0},
         UNCHANGED arms, room'.arm = room.arm, \A p \in Processes : Arm(p)' = Arm(p)
  PROVE  Quiet
<1>1. ASSUME NEW k \in Jobs PROVE job'[k].reloaded \in {job[k].reloaded, 0}
  BY DEF Put, TypeInv, JobsTyped
<1> QED  BY <1>1 DEF Quiet

LEMMA ArmsStay ==
  UNCHANGED <<room, cache>> => room'.arm = room.arm /\ \A p \in Processes : Arm(p)' = Arm(p)
BY DEF Arm, get_room

LEMMA QuietFinish ==
  ASSUME TypeInv, NEW j \in Jobs, Finishes(j), UNCHANGED <<room, cache, arms>>
  PROVE  Quiet
BY QuietPut, ArmsStay DEF Finishes, Idle

LEMMA QuietGoes ==
  ASSUME TypeInv, NEW j \in Jobs, NEW next \in JobState, Put(j, next) \/ Asks(j, next),
         next.reloaded \in {job[j].reloaded, 0}, UNCHANGED <<room, cache, arms>>
  PROVE  Quiet
BY QuietPut, ArmsStay, AsksPuts

(* A copy that is changed without another scenario being armed. *)
LEMMA ArmsOfCopy ==
  ASSUME TypeInv, NEW q \in Processes, NEW r \in Room, Caches(q, r), r.arm = Arm(q),
         UNCHANGED room
  PROVE  \A p \in Processes : Arm(p)' = Arm(p)
<1> TAKE p \in Processes
<1>1. r # None
  BY WorldAssumption
<1>2. cache' \in [Processes -> Room \cup {None}] /\ cache'[q] = r
  BY DEF Caches, TypeInv, FilesTyped
<1>3. CASE p = q
  BY <1>1, <1>2, <1>3 DEF Arm, get_room
<1>4. CASE p # q
  <2>1. cache'[p] = cache[p]
    BY <1>4 DEF Caches, TypeInv, FilesTyped
  <2> QED  BY <2>1 DEF Arm, get_room
<1> QED  BY <1>3, <1>4

LEMMA QuietReads ==
  ASSUME TypeInv, NEW j \in Jobs, NEW from \in Pc, NEW to \in Pc, ReadsSensors(j, from, to)
  PROVE  Quiet
<1> DEFINE next == [job[j] EXCEPT !.pc = to, !.out = Reading(j)]
<1>1. get_room(Process(j)) \in Room /\ Process(j) \in Processes
  BY RoomsTyped, ProcessOfJob
<1>2. job[j] \in JobState
  BY StateTyped
<1>3. Reading(j) \in SUBSET Sensors
  BY <1>1 DEF Reading, Room
<1>4. next \in JobState /\ next.reloaded = job[j].reloaded
  BY <1>2, <1>3 DEF JobState
<1>5. Asks(j, next)
  BY DEF ReadsSensors
<1> HIDE DEF next
<1>6. PICK s \in JobState : Put(j, s) /\ s.reloaded = next.reloaded
  BY <1>4, <1>5, AsksPuts
<1>7. \A p \in Processes : Arm(p)' = Arm(p)
  <2>1. CASE is_active
    BY <1>1, <2>1, ArmsOfCopy DEF ReadsSensors, files, Arm
  <2>2. CASE ~is_active
    BY <2>2, ArmsStay DEF ReadsSensors, files
  <2> QED  BY <2>1, <2>2
<1> QED  BY <1>4, <1>6, <1>7, QuietPut DEF ReadsSensors, files, requests

LEMMA QuietChanges ==
  ASSUME TypeInv, NEW j \in Jobs, NEW new \in Room, NEW then \in Pc, NEW about,
         Changes(j, new, then, about), new.arm = Arm(Process(j)), UNCHANGED <<room, arms>>
  PROVE  Quiet
<1>1. \A p \in Processes : Arm(p)' = Arm(p)
  BY ArmsOfCopy, ProcessOfJob DEF Changes
<1> DEFINE s == [job[j] EXCEPT !.pc = "save", !.then = then, !.made = new, !.about = about]
<1>2. job[j] \in JobState
  BY StateTyped
<1>3. s.reloaded = job[j].reloaded
  BY <1>2 DEF JobState
<1>4. Put(j, s)
  BY DEF Changes
<1> HIDE DEF s
<1> QED  BY <1>1, <1>3, <1>4, QuietPut

LEMMA RoomEffect ==
  ASSUME TypeInv, NEW j \in Jobs,
         \/ DropsCache(j) \/ Hydrates(j) \/ Saves(j) \/ Commands(j)
         \/ j = "resume" /\ FastForwards
  PROVE  Quiet \/ Dropped(j) \/ Saved(j)
<1>0. Process(j) \in Processes /\ job[j] \in JobState /\ get_room(Process(j)) \in Room
  BY ProcessOfJob, StateTyped, RoomsTyped
<1>1. CASE DropsCache(j)
  <2> DEFINE s == [job[j] EXCEPT !.pc = IF j = "resume" THEN "advance" ELSE "hydrate",
                                 !.reloaded = room.arm]
  <2>1. s.reloaded = room.arm
    BY <1>0 DEF JobState
  <2>2. Put(j, s)
    BY <1>1 DEF DropsCache
  <2> HIDE DEF s
  <2>3. job'[j].reloaded = room.arm
          /\ \A k \in Jobs \ {j} : job'[k].reloaded = job[k].reloaded
    BY <2>1, <2>2 DEF Put, TypeInv, JobsTyped
  <2>4. cache'[Process(j)] = None /\ room' = room /\ arms' = arms
          /\ \A p \in Processes \ {Process(j)} : cache'[p] = cache[p]
    BY <1>0, <1>1 DEF DropsCache, TypeInv, FilesTyped, files, requests
  <2>5. Dropped(j)
    BY <2>3, <2>4 DEF Dropped, Arm, get_room
  <2> QED  BY <2>5
<1>2. CASE Hydrates(j)
  <2>1. "read" \in Pc
    BY DEF Pc
  <2> DEFINE s == [job[j] EXCEPT !.pc = "read"]
  <2>2. s.reloaded = job[j].reloaded
    BY <1>0 DEF JobState
  <2>3. Put(j, s)
    BY <1>2 DEF Hydrates, Goes
  <2> HIDE DEF s
  <2>4. \A p \in Processes : Arm(p)' = Arm(p)
    BY <1>0, <1>2, ArmsOfCopy DEF Hydrates, Arm, files
  <2>5. Quiet
    BY <1>2, <2>2, <2>3, <2>4, QuietPut DEF Hydrates, files, requests
  <2> QED  BY <2>5
<1>3. CASE Saves(j)
  <2> DEFINE s == [job[j] EXCEPT !.pc = job[j].then, !.then = "idle", !.made = None]
  <2>1. s.reloaded = job[j].reloaded
    BY <1>0 DEF JobState
  <2>2. Put(j, s)
    BY <1>3 DEF Saves
  <2> HIDE DEF s
  <2>3. /\ \A k \in Jobs : job'[k].reloaded = job[k].reloaded
        /\ \A k \in Jobs \ {j} : job'[k] = job[k]
    BY <2>1, <2>2 DEF Put, TypeInv, JobsTyped
  <2>4. room' = get_room(Process(j)) /\ cache' = cache /\ arms' = arms /\ At(j, "save")
    BY <1>3 DEF Saves, requests
  <2>5. \A p \in Processes : Arm(p)' \in {Arm(p), room'.arm}
    BY <2>4 DEF Arm, get_room
  <2>6. Arm(Process(j))' = Arm(Process(j)) /\ room'.arm = Arm(Process(j))
    BY <2>4 DEF Arm, get_room
  <2>7. Saved(j)
    BY <2>3, <2>4, <2>5, <2>6 DEF Saved
  <2> QED  BY <2>7
<1>4. CASE Commands(j)
  <2> DEFINE r == get_room(Process(j))
  <2>1. set_ventilation(r) \in Room /\ set_ventilation(r).arm = r.arm
    BY <1>0, RoomsTyped
  <2>2. "register" \in Pc
    BY DEF Pc
  <2>3. Changes(j, set_ventilation(r), "register", r.arm) /\ UNCHANGED <<room, arms>>
    BY <1>4 DEF Commands, files, requests
  <2>4. Quiet
    BY <2>1, <2>2, <2>3, QuietChanges DEF Arm
  <2> QED  BY <2>4
<1>5. CASE j = "resume" /\ FastForwards
  <2> DEFINE r == get_room("scheduler")
  <2>1. Process(j) = "scheduler"
    BY <1>5 DEF Process
  <2>2. advance_minutes(r) \in Room /\ advance_minutes(r).arm = r.arm
    BY <1>0, <2>1, RoomsTyped
  <2>3. "verify" \in Pc
    BY DEF Pc
  <2>4. Changes(j, advance_minutes(r), "verify", job[j].about) /\ UNCHANGED <<room, arms>>
    BY <1>5 DEF FastForwards, files, requests
  <2>5. Quiet
    BY <2>1, <2>2, <2>3, <2>4, QuietChanges DEF Arm
  <2> QED  BY <2>5
<1> QED  BY <1>1, <1>2, <1>3, <1>4, <1>5

(* Every other step of a job. *)
LEMMA QuietSteps ==
  ASSUME TypeInv, NEW j \in Jobs,
         \/ ScanStarts(j) \/ Reconciles(j) \/ Opens(j) \/ Routes(j) \/ Registers(j)
         \/ j = "resume" /\ (ResumeStarts \/ AsksWorld \/ Verdict)
         \/ UnlinksExpired(j) \/ ChecksGrace(j) \/ ReadsSensor(j)
         \/ NothingToClear(j) \/ Clears(j)
  PROVE  Quiet
<1>0. job[j] \in JobState
  BY StateTyped
<1> USE DEF files, requests
<1>1. CASE ScanStarts(j)
  <2>1. [Idle EXCEPT !.pc = "reload"].reloaded = 0
    BY DEF Idle
  <2> QED  BY <1>1, <2>1, QuietPut, ArmsStay DEF ScanStarts
<1>2. CASE Reconciles(j)
  <2> DEFINE pc == IF job[j].out = {} THEN "clear" ELSE "open"
  <2>1. pc \in Pc
    BY DEF Pc
  <2> HIDE DEF pc
  <2>2. [job[j] EXCEPT !.pc = pc] \in JobState
          /\ [job[j] EXCEPT !.pc = pc].reloaded = job[j].reloaded
    BY <1>0, <2>1 DEF JobState
  <2>3. Asks(j, [job[j] EXCEPT !.pc = pc]) /\ UNCHANGED <<room, cache, arms>>
    BY <1>2 DEF Reconciles, pc
  <2> QED  BY <2>2, <2>3, QuietGoes
<1>3. CASE Opens(j)
  <2>1. PICK s \in job[j].out :
          \/ Put(j, [Idle EXCEPT !.pc = "clear"])
          \/ Put(j, [job[j] EXCEPT !.pc = "act", !.sensor = s, !.out = {}])
    BY <1>3 DEF Opens
  <2>2. [Idle EXCEPT !.pc = "clear"].reloaded = 0
    BY DEF Idle
  <2>3. [job[j] EXCEPT !.pc = "act", !.sensor = s, !.out = {}].reloaded = job[j].reloaded
    BY <1>0 DEF JobState
  <2>4. UNCHANGED <<room, cache, arms>>
    BY <1>3 DEF Opens
  <2> QED  BY <2>1, <2>2, <2>3, <2>4, QuietPut, ArmsStay
<1>4. CASE Routes(j)
  <2>1. PICK pc \in Pc : Asks(j, [job[j] EXCEPT !.pc = pc])
    <3>1. "clear" \in Pc /\ "command" \in Pc /\ "register" \in Pc
      BY DEF Pc
    <3> QED  BY <1>4, <3>1 DEF Routes
  <2>2. [job[j] EXCEPT !.pc = pc] \in JobState
          /\ [job[j] EXCEPT !.pc = pc].reloaded = job[j].reloaded
    BY <1>0 DEF JobState
  <2>3. UNCHANGED <<room, cache, arms>>
    BY <1>4 DEF Routes
  <2> QED  BY <2>1, <2>2, <2>3, QuietGoes
<1>5. CASE Registers(j)
  BY <1>5, QuietFinish DEF Registers
<1>6. CASE j = "resume" /\ ResumeStarts
  <2>1. PICK s : Put(j, [Idle EXCEPT !.pc = "world", !.sensor = s, !.about = acted[s]])
    BY <1>6 DEF ResumeStarts
  <2>2. [Idle EXCEPT !.pc = "world", !.sensor = s, !.about = acted[s]].reloaded = 0
    BY DEF Idle
  <2>3. UNCHANGED <<room, cache, arms>>
    BY <1>6 DEF ResumeStarts
  <2> QED  BY <2>1, <2>2, <2>3, QuietPut, ArmsStay
<1>7. CASE j = "resume" /\ AsksWorld
  <2> DEFINE pc == IF is_live_world THEN "verify" ELSE "reload"
  <2>1. pc \in Pc
    BY DEF Pc
  <2> HIDE DEF pc
  <2>2. [job[j] EXCEPT !.pc = pc] \in JobState
          /\ [job[j] EXCEPT !.pc = pc].reloaded = job[j].reloaded
    BY <1>0, <2>1 DEF JobState
  <2>3. Asks(j, [job[j] EXCEPT !.pc = pc]) /\ UNCHANGED <<room, cache, arms>>
    BY <1>7 DEF AsksWorld, pc
  <2> QED  BY <2>2, <2>3, QuietGoes
<1>8. CASE j = "resume" /\ Verdict
  <2>1. \/ Put(j, [Idle EXCEPT !.pc = "clear"])
        \/ Put(j, [job[j] EXCEPT !.pc = "act", !.out = {}])
    BY <1>8 DEF Verdict
  <2>2. [Idle EXCEPT !.pc = "clear"].reloaded = 0
    BY DEF Idle
  <2>3. [job[j] EXCEPT !.pc = "act", !.out = {}].reloaded = job[j].reloaded
    BY <1>0 DEF JobState
  <2>4. UNCHANGED <<room, cache, arms>>
    BY <1>8 DEF Verdict
  <2> QED  BY <2>1, <2>2, <2>3, <2>4, QuietPut, ArmsStay
<1>9. CASE UnlinksExpired(j)
  <2>1. [job[j] EXCEPT !.pc = job[j].then, !.then = "idle", !.arm = 0].reloaded
          = job[j].reloaded
    BY <1>0 DEF JobState
  <2> QED  BY <1>9, <2>1, QuietPut, ArmsStay DEF UnlinksExpired
<1>10. CASE ChecksGrace(j)
  <2>1. [Idle EXCEPT !.pc = "resolve", !.arm = override.arm].reloaded = 0
    BY DEF Idle
  <2>2. Finishes(j) \/ Put(j, [Idle EXCEPT !.pc = "resolve", !.arm = override.arm])
    BY <1>10 DEF ChecksGrace
  <2>3. UNCHANGED <<room, cache, arms>>
    BY <1>10 DEF ChecksGrace
  <2> QED  BY <2>1, <2>2, <2>3, QuietPut, QuietFinish, ArmsStay
<1>11. CASE ReadsSensor(j)
  <2>1. CASE override = None
    BY <1>11, <2>1, QuietFinish DEF ReadsSensor
  <2>2. CASE override # None
    <3> DEFINE pc == IF is_active THEN "look_up" ELSE "done"
               s == [job[j] EXCEPT !.pc = pc, !.sensor = override.sensor]
    <3>1. pc \in Pc
      BY DEF Pc
    <3>2. override.sensor \in Sensors
      BY <2>2 DEF TypeInv, FilesTyped, Override
    <3>3. Asks(j, s) /\ UNCHANGED <<room, cache, arms>>
      BY <1>11, <2>2 DEF ReadsSensor
    <3> HIDE DEF pc
    <3>4. s \in JobState /\ s.reloaded = job[j].reloaded
      BY <1>0, <3>1, <3>2 DEF JobState
    <3> HIDE DEF s
    <3> QED  BY <3>3, <3>4, QuietGoes
  <2> QED  BY <2>1, <2>2
<1>12. CASE NothingToClear(j)
  BY <1>12, QuietFinish DEF NothingToClear
<1>13. CASE Clears(j)
  BY <1>13, QuietFinish DEF Clears
<1> QED  BY <1>1, <1>2, <1>3, <1>4, <1>5, <1>6, <1>7, <1>8, <1>9, <1>10, <1>11, <1>12, <1>13

LEMMA QuietRequests ==
  ASSUME TypeInv,
         \/ TimePasses \/ InjectActivates \/ DecisionDeactivates \/ UNCHANGED vars
         \/ \E s \in Sensors : DecisionWrites(s)
  PROVE  Quiet
<1>1. UNCHANGED <<room, cache, arms>>
  BY DEF TimePasses, GraceElapses, TtlElapses, InjectActivates, DecisionDeactivates,
         DecisionWrites, vars, files, requests
<1>2. ASSUME NEW k \in Jobs PROVE job'[k].reloaded = job[k].reloaded
  <2>1. CASE job' = job
    BY <2>1
  <2>2. CASE InjectActivates /\ Goes("injected", "waiting")
    <3> DEFINE s == [job["injected"] EXCEPT !.pc = "waiting"]
    <3>1. "injected" \in Jobs
      BY DEF Jobs, Scans
    <3>2. job["injected"] \in JobState
      BY <3>1, StateTyped
    <3>3. s.reloaded = job["injected"].reloaded
      BY <3>2 DEF JobState
    <3>4. Put("injected", s)
      BY <2>2 DEF Goes
    <3> HIDE DEF s
    <3> QED  BY <3>3, <3>4 DEF Put, TypeInv, JobsTyped
  <2> QED  BY <2>1, <2>2 DEF TimePasses, GraceElapses, TtlElapses, InjectActivates,
                             DecisionDeactivates, DecisionWrites, vars
<1> QED  BY <1>1, <1>2, ArmsStay DEF Quiet

LEMMA ArmedStep ==
  ASSUME TypeInv, NEW s \in Sensors, InjectArms(s)
  PROVE  Armed
<1>1. room' = Scenario(s, arms + 1) /\ arms' = arms + 1 /\ job' = job
  BY DEF InjectArms
<1>2. Scenario(s, arms + 1).arm = arms + 1
  BY DEF Scenario
<1>3. cache'["web"] = Scenario(s, arms + 1) /\ cache'["scheduler"] = cache["scheduler"]
  BY DEF InjectArms, Caches, TypeInv, FilesTyped, Processes
<1>4. Arm("web")' = arms + 1
  BY <1>1, <1>2, <1>3 DEF Arm, get_room
<1>5. Arm("scheduler")' \in {Arm("scheduler"), arms + 1}
  BY <1>1, <1>2, <1>3 DEF Arm, get_room
<1> QED  BY <1>1, <1>2, <1>4, <1>5 DEF Armed

LEMMA WorldEffect ==
  ASSUME TypeInv, [Next]_vars
  PROVE  Quiet \/ Armed \/ \E j \in Jobs : Dropped(j) \/ Saved(j)
<1>1. ASSUME NEW j \in Jobs, JobStep(j)
      PROVE  Quiet \/ Dropped(j) \/ Saved(j)
  <2>1. "read" \in Pc /\ "verify" \in Pc /\ "reconcile" \in Pc /\ "verdict" \in Pc
    BY DEF Pc
  <2>2. ASSUME ScanReads(j) PROVE Quiet
    BY <2>1, <2>2, QuietReads DEF ScanReads
  <2>3. ASSUME j = "resume", Verifies PROVE Quiet
    BY <2>1, <2>3, QuietReads DEF Verifies
  <2>4. \/ ScanReads(j)
        \/ DropsCache(j) \/ Hydrates(j) \/ Saves(j) \/ Commands(j)
        \/ j = "resume" /\ FastForwards
        \/ j = "resume" /\ Verifies
        \/ ScanStarts(j) \/ Reconciles(j) \/ Opens(j) \/ Routes(j) \/ Registers(j)
        \/ j = "resume" /\ (ResumeStarts \/ AsksWorld \/ Verdict)
        \/ UnlinksExpired(j) \/ ChecksGrace(j) \/ ReadsSensor(j)
        \/ NothingToClear(j) \/ Clears(j)
    BY <1>1 DEF JobStep, ScanStep, ResumeStep, SharedStep
  <2> QED  BY <2>2, <2>3, <2>4, RoomEffect, QuietSteps
<1> QED  BY <1>1, QuietRequests, ArmedStep DEF Next, RequestStep

(* Where a job has reloaded a scenario, its process's copy is no older     *)
(* than any copy still around of that scenario or of one before it.        *)
NotUndone(j) ==
  \A p \in Processes : Arm(p) <= Arm(Process(j)) \/ Arm(p) > job[j].reloaded

CopyInv ==
  /\ \A p \in Processes : Arm(p) <= arms
  /\ \E p \in Processes : Arm(p) = room.arm
  /\ \A j \in Jobs : job[j].reloaded <= arms /\ NotUndone(j)

LEMMA ArmsAreNumbers ==
  ASSUME TypeInv
  PROVE  /\ arms \in Nat /\ room.arm \in Nat
         /\ \A p \in Processes : Arm(p) \in Nat
         /\ \A j \in Jobs : job[j].reloaded \in Nat
<1>1. arms \in Nat /\ room.arm \in Nat
  BY WorldAssumption DEF TypeInv, RequestsTyped, FilesTyped, Room
<1>2. ASSUME NEW p \in Processes PROVE Arm(p) \in Nat
  BY RoomsTyped, WorldAssumption DEF Arm, Room
<1>3. ASSUME NEW j \in Jobs PROVE job[j].reloaded \in Nat
  BY StateTyped, WorldAssumption DEF JobState
<1> QED  BY <1>1, <1>2, <1>3

LEMMA CopyInit == Init => CopyInv
<1> SUFFICES ASSUME Init PROVE CopyInv
  OBVIOUS
<1>1. \A p \in Processes : Arm(p) = 0
  BY DEF Init, Arm, get_room, RoomState
<1>2. room.arm = 0 /\ arms = 0 /\ \A j \in Jobs : job[j].reloaded = 0
  BY DEF Init, RoomState, Idle
<1>3. "web" \in Processes
  BY DEF Processes
<1> QED  BY <1>1, <1>2, <1>3, ProcessOfJob DEF CopyInv, NotUndone

LEMMA CopyStep == TypeInv /\ CopyInv /\ [Next]_vars => CopyInv'
<1> SUFFICES ASSUME TypeInv, CopyInv, [Next]_vars PROVE CopyInv'
  OBVIOUS
<1>1. /\ arms \in Nat /\ room.arm \in Nat
      /\ \A p \in Processes : Arm(p) \in Nat /\ Arm(p) <= arms
      /\ \A j \in Jobs : job[j].reloaded \in Nat /\ job[j].reloaded <= arms
  BY ArmsAreNumbers DEF CopyInv
<1>2. PICK w \in Processes : Arm(w) = room.arm
  BY DEF CopyInv
<1>3. ASSUME NEW j \in Jobs, NEW p \in Processes
      PROVE  Arm(p) <= Arm(Process(j)) \/ Arm(p) > job[j].reloaded
  BY DEF CopyInv, NotUndone
<1>4. ASSUME /\ \A p \in Processes : Arm(p)' <= arms'
             /\ \E p \in Processes : Arm(p)' = room'.arm
             /\ \A j \in Jobs : job'[j].reloaded <= arms',
             \A j \in Jobs : \A p \in Processes :
               Arm(p)' <= Arm(Process(j))' \/ Arm(p)' > job'[j].reloaded
      PROVE  CopyInv'
  <2>1. ASSUME NEW j \in Jobs PROVE NotUndone(j)'
    BY <1>4 DEF NotUndone
  <2> QED  BY <1>4, <2>1 DEF CopyInv
<1>5. CASE Quiet
  <2>1. ASSUME NEW j \in Jobs, NEW p \in Processes
        PROVE  Arm(p)' <= Arm(Process(j))' \/ Arm(p)' > job'[j].reloaded
    <3>1. Process(j) \in Processes
      BY ProcessOfJob
    <3>2. Arm(p)' = Arm(p) /\ Arm(Process(j))' = Arm(Process(j))
            /\ job'[j].reloaded \in {job[j].reloaded, 0}
      BY <1>5, <3>1 DEF Quiet
    <3>3. Arm(p) \in Nat /\ Arm(Process(j)) \in Nat /\ job[j].reloaded \in Nat
      BY <1>1, <3>1
    <3>4. Arm(p) <= Arm(Process(j)) \/ Arm(p) > job[j].reloaded
      BY <1>3
    <3> QED  BY <3>2, <3>3, <3>4
  <2>2. \A j \in Jobs : job'[j].reloaded <= arms'
    BY <1>1, <1>5 DEF Quiet
  <2>3. \E p \in Processes : Arm(p)' = room'.arm
    BY <1>2, <1>5 DEF Quiet
  <2>4. \A p \in Processes : Arm(p)' <= arms'
    BY <1>1, <1>5 DEF Quiet
  <2> QED  BY <1>4, <2>1, <2>2, <2>3, <2>4
<1>6. CASE Armed
  <2>1. "web" \in Processes /\ \A p \in Processes : p = "web" \/ p = "scheduler"
    BY DEF Processes
  <2>2. \A p \in Processes : Arm(p)' \in {Arm(p), arms + 1}
    BY <1>6, <2>1 DEF Armed
  <2>3. ASSUME NEW j \in Jobs, NEW p \in Processes
        PROVE  Arm(p)' <= Arm(Process(j))' \/ Arm(p)' > job'[j].reloaded
    <3>1. Process(j) \in Processes
      BY ProcessOfJob
    <3>2. Arm(Process(j))' \in {Arm(Process(j)), arms + 1} /\ Arm(Process(j)) \in Nat
            /\ Arm(Process(j)) <= arms
      BY <1>1, <2>2, <3>1
    <3>3. job'[j].reloaded = job[j].reloaded /\ job[j].reloaded \in Nat
            /\ job[j].reloaded <= arms
      BY <1>1, <1>6 DEF Armed
    <3> QED  BY <1>1, <1>3, <2>2, <3>2, <3>3
  <2>4. \A j \in Jobs : job'[j].reloaded <= arms'
    BY <1>1, <1>6 DEF Armed
  <2>5. \E p \in Processes : Arm(p)' = room'.arm
    BY <1>6, <2>1 DEF Armed
  <2>6. \A p \in Processes : Arm(p)' <= arms'
    BY <1>1, <1>6, <2>2 DEF Armed
  <2> QED  BY <1>4, <2>3, <2>4, <2>5, <2>6
<1>7. ASSUME NEW k \in Jobs, Dropped(k) PROVE CopyInv'
  <2>1. Process(k) \in Processes /\ room'.arm = room.arm /\ arms' = arms
          /\ Arm(Process(k))' = room.arm
    BY <1>7, ProcessOfJob DEF Dropped
  <2>2. \A p \in Processes : p # Process(k) => Arm(p)' = Arm(p)
    BY <1>7 DEF Dropped
  <2>3. room.arm <= arms
    BY <1>1, <1>2
  <2>4. ASSUME NEW j \in Jobs, NEW p \in Processes
        PROVE  Arm(p)' <= Arm(Process(j))' \/ Arm(p)' > job'[j].reloaded
    <3>1. CASE j = k
      BY <1>1, <1>7, <2>1, <2>2, <3>1 DEF Dropped
    <3>2. CASE j # k
      <4>1. job'[j].reloaded = job[j].reloaded /\ Process(j) \in Processes
        BY <1>7, <3>2, ProcessOfJob DEF Dropped
      <4>2. w = Process(k) => Arm(p)' = Arm(p) /\ Arm(Process(j))' = Arm(Process(j))
        BY <1>2, <2>1, <2>2, <4>1
      <4>3. w # Process(k) => \A q \in Processes : Arm(q)' = room.arm
        <5>1. w # Process(k) => \A q \in Processes : q = w \/ q = Process(k)
          BY <2>1 DEF Processes
        <5> QED  BY <1>2, <2>1, <2>2, <5>1
      <4> QED  BY <1>1, <1>3, <2>1, <4>1, <4>2, <4>3
    <3> QED  BY <3>1, <3>2
  <2>5. \A j \in Jobs : job'[j].reloaded <= arms'
    BY <1>1, <1>7, <2>1, <2>3 DEF Dropped
  <2>6. \A p \in Processes : Arm(p)' <= arms'
    BY <1>1, <2>1, <2>2, <2>3
  <2> QED  BY <1>4, <2>1, <2>4, <2>5, <2>6
<1>8. ASSUME NEW k \in Jobs, Saved(k) PROVE CopyInv'
  <2>1. Process(k) \in Processes /\ arms' = arms /\ room'.arm = Arm(Process(k))
          /\ Arm(Process(k))' = Arm(Process(k))
    BY <1>8, ProcessOfJob DEF Saved
  <2>2. \A p \in Processes : Arm(p)' \in {Arm(p), Arm(Process(k))}
    BY <1>8, <2>1 DEF Saved
  <2>3. \A j \in Jobs : job'[j].reloaded = job[j].reloaded
    BY <1>8 DEF Saved
  <2>4. ASSUME NEW j \in Jobs, NEW p \in Processes
        PROVE  Arm(p)' <= Arm(Process(j))' \/ Arm(p)' > job'[j].reloaded
    <3>1. Process(j) \in Processes
      BY ProcessOfJob
    <3>2. CASE Process(j) = Process(k)
      BY <1>1, <1>3, <2>1, <2>2, <2>3, <3>1, <3>2
    <3>3. CASE Process(j) # Process(k)
      <4>1. p = Process(j) \/ p = Process(k)
        BY <2>1, <3>1, <3>3 DEF Processes
      <4> QED  BY <1>1, <1>3, <2>1, <2>2, <2>3, <3>1, <4>1
    <3> QED  BY <3>2, <3>3
  <2> QED  BY <1>1, <1>4, <2>1, <2>2, <2>3, <2>4
<1> QED  BY <1>4, <1>5, <1>6, <1>7, <1>8, WorldEffect

LEMMA CopyInvariant == Spec => [](TypeInv /\ CopyInv)
<1>1. TypeInv /\ CopyInv /\ [Next]_vars => (TypeInv /\ CopyInv)'
  BY TypeStep, CopyStep
<1> QED  BY <1>1, TypeInit, CopyInit, PTL DEF Spec

(***************************************************************************)
(* sensing/simulator/room.py reload_room, save_room: a save undoes an      *)
(* armed scenario only if that was armed after the job had reloaded the    *)
(* room, however many scenarios are armed and whichever process saves.     *)
(***************************************************************************)
THEOREM SavesProtected == Spec => ReloadProtects
<1>1. ASSUME TypeInv, CopyInv, [Next]_vars, NEW j \in Jobs,
             At(j, "save") /\ room'.arm < room.arm /\ job'[j] # job[j]
      PROVE  room.arm > job[j].reloaded
  <2>1. room.arm \in Nat /\ arms \in Nat /\ \A p \in Processes : Arm(p) \in Nat /\ Arm(p) <= arms
    BY <1>1, ArmsAreNumbers DEF CopyInv
  <2>2. PICK w \in Processes : Arm(w) = room.arm
    BY <1>1 DEF CopyInv
  <2>3. room'.arm < room.arm
    BY <1>1
  <2>4. ~Quiet
    BY <2>1, <2>3 DEF Quiet
  <2>5. ~Armed
    BY <2>1, <2>2, <2>3 DEF Armed
  <2>6. \A k \in Jobs : ~Dropped(k)
    BY <2>1, <2>3 DEF Dropped
  <2>7. PICK k \in Jobs : Saved(k)
    BY <1>1, <2>4, <2>5, <2>6, WorldEffect
  <2>8. k = j
    BY <1>1, <2>7 DEF Saved
  <2>9. Arm(Process(j)) < Arm(w) /\ NotUndone(j)
    BY <1>1, <2>2, <2>3, <2>7, <2>8 DEF Saved, CopyInv
  <2> QED  BY <1>1, <2>1, <2>2, <2>9, ArmsAreNumbers, ProcessOfJob DEF NotUndone
<1>2. TypeInv /\ CopyInv /\ [Next]_vars
        => [\A j \in Jobs : At(j, "save") /\ room'.arm < room.arm /\ job'[j] # job[j]
                                => room.arm > job[j].reloaded]_vars
  BY <1>1
<1> QED  BY <1>2, CopyInvariant, PTL DEF Spec, ReloadProtects

-----------------------------------------------------------------------------
(* What a command leaves in the room *)

(* Places from which a job uses its process's copy without reloading it.   *)
Working == Pc \ {"idle", "waiting", "reload", "world"}

(* Places a job does not reach by way of deleting an expired override.     *)
Duties == {"register", "verify", "reload", "world", "save", "advance", "command"}

(* A job whose thread's command was about the latest scenario, on its way  *)
(* to the suspension or from there to the verifier's reading.              *)
CarriesIn(j, s) ==
  /\ s.about = arms
  /\ \/ s.pc = "register" /\ s.sensor \in AutoSensors
     \/ /\ j = "resume"
        /\ \/ s.pc \in {"world", "reload", "advance", "verify"}
           \/ s.pc = "save" /\ s.then = "verify"

Commanded ==
  \/ \E j \in Jobs : CarriesIn(j, job[j])
  \/ \E s \in Sensors : thread[s] = "verifier" /\ acted[s] = arms

CommandBounds ==
  /\ \A j \in Jobs : job[j].about <= arms
  /\ \A s \in Sensors : acted[s] <= arms
  /\ \A s \in Sensors : thread[s] = "verifier" => s \in AutoSensors

(* Once the latest scenario has been commanded, every room a job may still *)
(* save is a commanded one.                                                *)
StrongInv ==
  Commanded =>
    /\ room.strong
    /\ \A j \in Jobs : job[j].pc \in Working => get_room(Process(j)).strong

InBand(r) == r.out \cap AutoSensors = {}

(* The actuator only moves, and a verification only runs, for an Auto one. *)
AutoDuty(j, s) ==
  \/ s.pc \in {"command", "save", "world", "advance", "verify"}
  \/ j = "resume" /\ s.pc = "reload"
  => s.sensor \in AutoSensors

DutyDone(j, s) ==
  /\ AutoDuty(j, s)
  /\ s.pc = "save" =>
       /\ s.made # None /\ s.then \in {"register", "verify"}
       /\ s.then = "register" => s.made.strong
       /\ s.then = "verify" => j = "resume" /\ (CarriesIn(j, s) => InBand(s.made))
  /\ s.pc = "unlink_expired" => s.then \notin Duties

VerifierReads ==
  At("resume", "verify") /\ job["resume"].about = arms
    => InBand(room) /\ InBand(get_room("scheduler"))

RecInv ==
  /\ CommandBounds
  /\ ~lost => /\ StrongInv /\ VerifierReads
              /\ \A j \in Jobs : DutyDone(j, job[j])

LEMMA RecInit == Init => RecInv
<1> SUFFICES ASSUME Init PROVE RecInv
  OBVIOUS
<1>1. CommandBounds
  BY DEF Init, CommandBounds, Idle
<1>2. StrongInv
  BY DEF Init, StrongInv, RoomState, Working, Idle
<1>3. VerifierReads /\ \A j \in Jobs : DutyDone(j, job[j])
  BY DEF Init, VerifierReads, DutyDone, AutoDuty, At, Idle, Jobs
<1> QED  BY <1>1, <1>2, <1>3 DEF RecInv

(* A job that moves while rooms and copies stay. *)
LEMMA RecMoves ==
  ASSUME TypeInv, RecInv, NEW j \in Jobs, NEW s, Put(j, s), s.about <= arms,
         UNCHANGED <<room, arms>>, \A p \in Processes : get_room(p)' = get_room(p),
         lost => lost',
         \A x \in Sensors : acted'[x] <= arms /\ (thread'[x] = "verifier" => x \in AutoSensors),
         ~lost' => /\ s.pc \in Working => job[j].pc \in Working
                   /\ s.pc \notin {"save", "verify"}
                   /\ AutoDuty(j, s)
                   /\ s.pc = "unlink_expired" => s.then \notin Duties
                   /\ Commanded' => Commanded
  PROVE  RecInv'
<1>1. \A k \in Jobs : job'[k] = job[k] \/ (k = j /\ job'[k] = s)
  BY DEF Put, TypeInv, JobsTyped
<1>2. CommandBounds'
  BY <1>1 DEF RecInv, CommandBounds
<1>3. ASSUME ~lost' PROVE StrongInv' /\ VerifierReads' /\ \A k \in Jobs : DutyDone(k, job[k])'
  <2>1. ~lost /\ StrongInv /\ VerifierReads /\ \A k \in Jobs : DutyDone(k, job[k])
    BY <1>3 DEF RecInv
  <2>2. StrongInv'
    <3>1. ASSUME Commanded', NEW k \in Jobs, job'[k].pc \in Working
          PROVE  get_room(Process(k))'.strong
      <4>1. Commanded /\ job[k].pc \in Working
        BY <1>1, <1>3, <3>1
      <4> QED  BY <2>1, <4>1, ProcessOfJob DEF StrongInv
    <3>2. ASSUME Commanded' PROVE room'.strong
      BY <1>3, <2>1, <3>2 DEF StrongInv
    <3> QED  BY <3>1, <3>2 DEF StrongInv
  <2>3. VerifierReads'
    <3>1. "resume" \in Jobs /\ "scheduler" \in Processes
      BY DEF Jobs, Processes
    <3>2. job'["resume"].pc = "verify" => job'["resume"] = job["resume"]
      BY <1>1, <1>3, <3>1
    <3> QED  BY <2>1, <3>1, <3>2 DEF VerifierReads, At, InBand
  <2>4. ASSUME NEW k \in Jobs PROVE DutyDone(k, job[k])'
    <3>1. CASE job'[k] = job[k]
      BY <2>1, <3>1 DEF DutyDone, AutoDuty, CarriesIn, InBand
    <3>2. CASE k = j /\ job'[k] = s
      BY <1>3, <3>2 DEF DutyDone
    <3> QED  BY <1>1, <3>1, <3>2
  <2> QED  BY <2>2, <2>3, <2>4
<1> QED  BY <1>2, <1>3 DEF RecInv

(* A job that moves to no duty, and no thread is registered. *)
LEMMA RecPlain ==
  ASSUME TypeInv, RecInv, NEW j \in Jobs, NEW s, Put(j, s), s.about \in {job[j].about, 0},
         UNCHANGED <<room, arms, acted, lost>>,
         \A p \in Processes : get_room(p)' = get_room(p),
         \A x \in Sensors : thread'[x] = "verifier" => thread[x] = "verifier",
         ~lost => /\ s.pc \notin Duties /\ (s.pc = "unlink_expired" => s.then \notin Duties)
                  /\ s.pc \in Working => job[j].pc \in Working
  PROVE  RecInv'
<1>1. s.about <= arms
  BY ArmsAreNumbers DEF RecInv, CommandBounds
<1>2. \A x \in Sensors : acted'[x] <= arms /\ (thread'[x] = "verifier" => x \in AutoSensors)
  BY DEF RecInv, CommandBounds
<1>3. ASSUME ~lost, Commanded' PROVE Commanded
  <2>1. ~CarriesIn(j, s)'
    BY <1>3 DEF CarriesIn, Duties
  <2>2. \A k \in Jobs : CarriesIn(k, job[k])' => k # j /\ job'[k] = job[k]
    BY <2>1 DEF Put, TypeInv, JobsTyped
  <2>3. \A k \in Jobs : CarriesIn(k, job[k])' => CarriesIn(k, job[k])
    BY <2>2 DEF CarriesIn
  <2> QED  BY <1>3, <2>3 DEF Commanded
<1>4. ~lost => s.pc \notin {"save", "verify"} /\ AutoDuty(j, s)
  BY DEF Duties, AutoDuty
<1> QED  BY <1>1, <1>2, <1>3, <1>4, RecMoves

(* A process's copy made from the file, where there was none.              *)
LEMMA CopiesStay ==
  ASSUME TypeInv, NEW q \in Processes, Caches(q, get_room(q)) \/ UNCHANGED cache,
         UNCHANGED room
  PROVE  \A p \in Processes : get_room(p)' = get_room(p)
<1> TAKE p \in Processes
<1>1. CASE UNCHANGED cache
  BY <1>1 DEF get_room
<1>2. CASE Caches(q, get_room(q))
  <2>1. get_room(q) # None
    BY RoomsTyped, WorldAssumption
  <2>2. cache'[p] = IF p = q THEN get_room(q) ELSE cache[p]
    BY <1>2 DEF Caches, TypeInv, FilesTyped
  <2>3. CASE p = q
    BY <2>1, <2>2, <2>3 DEF get_room
  <2>4. CASE p # q
    BY <2>2, <2>4 DEF get_room
  <2> QED  BY <2>3, <2>4
<1> QED  BY <1>1, <1>2

(* A copy that is changed, and those that are not. *)
LEMMA CopyChanges ==
  ASSUME TypeInv, NEW q \in Processes, NEW r \in Room, Caches(q, r), UNCHANGED room
  PROVE  /\ get_room(q)' = r
         /\ \A p \in Processes : p # q => get_room(p)' = get_room(p)
<1>1. r # None
  BY WorldAssumption
<1>2. \A p \in Processes : cache'[p] = IF p = q THEN r ELSE cache[p]
  BY DEF Caches, TypeInv, FilesTyped
<1> QED  BY <1>1, <1>2 DEF get_room

(* A job that asks is_active() on its way to no duty. *)
LEMMA RecAsks ==
  ASSUME TypeInv, RecInv, NEW j \in Jobs, NEW next \in JobState, Asks(j, next),
         next.about = job[j].about, next.pc \notin Duties \cup {"unlink_expired"},
         job[j].pc \in Working,
         UNCHANGED <<room, arms, acted, lost>>,
         \A p \in Processes : get_room(p)' = get_room(p),
         \A x \in Sensors : thread'[x] = "verifier" => thread[x] = "verifier"
  PROVE  RecInv'
<1>1. PICK s \in JobState : /\ Put(j, s) /\ s.about = next.about
                            /\ s = next \/ (s.pc = "unlink_expired" /\ s.then = next.pc)
  BY AsksPuts
<1>2. s.pc \notin Duties
  BY <1>1 DEF Duties
<1> QED  BY <1>1, <1>2, RecPlain

LEMMA RecFinish ==
  ASSUME TypeInv, RecInv, NEW j \in Jobs, Finishes(j),
         UNCHANGED <<room, cache, arms, acted, lost, thread>>
  PROVE  RecInv'
<1>1. Put(j, Idle) /\ Idle.about = 0 /\ Idle.pc = "idle"
  BY DEF Finishes, Idle
<1>2. \A p \in Processes : get_room(p)' = get_room(p)
  BY DEF get_room
<1> QED  BY <1>1, <1>2, RecPlain DEF Duties, Working

LEMMA RecReads ==
  ASSUME TypeInv, RecInv, NEW j \in Jobs, NEW from \in {"read", "verify"},
         NEW to \in {"reconcile", "verdict"}, ReadsSensors(j, from, to)
  PROVE  RecInv'
<1> DEFINE next == [job[j] EXCEPT !.pc = to, !.out = Reading(j)]
<1>1. get_room(Process(j)) \in Room
  BY RoomsTyped, ProcessOfJob
<1>2. Reading(j) \in SUBSET Sensors
  BY <1>1 DEF Reading, Room
<1>3. job[j] \in JobState /\ to \in Pc
  BY StateTyped DEF Pc
<1>4. next \in JobState /\ next.pc = to /\ next.about = job[j].about
  BY <1>2, <1>3 DEF JobState
<1>5. Asks(j, next) /\ UNCHANGED <<room, arms, acted, lost, thread>>
  BY DEF ReadsSensors, files, requests, tickets, history
<1> HIDE DEF next
<1>6. \A p \in Processes : get_room(p)' = get_room(p)
  BY <1>5, CopiesStay, ProcessOfJob DEF ReadsSensors
<1>7. job[j].pc \in Working
  BY DEF ReadsSensors, At, Working, Pc
<1>8. to \notin Duties \cup {"unlink_expired"}
  BY DEF Duties
<1> QED  BY <1>4, <1>5, <1>6, <1>7, <1>8, RecAsks

LEMMA RecScans ==
  ASSUME TypeInv, RecInv, NEW j \in Jobs,
         (j \in Scans /\ ScanStarts(j)) \/ Hydrates(j) \/ Reconciles(j) \/ Opens(j)
           \/ (j = "resume" /\ Verdict)
  PROVE  RecInv'
<1>0. job[j] \in JobState
  BY StateTyped
<1> USE DEF files, requests, tickets, history
<1>0a. UNCHANGED cache => \A p \in Processes : get_room(p)' = get_room(p) \/ room' # room
  BY DEF get_room
<1>1. CASE j \in Scans /\ ScanStarts(j)
  <2> DEFINE s == [Idle EXCEPT !.pc = "reload"]
  <2>1. s.pc = "reload" /\ s.about = 0
    BY DEF Idle
  <2>2. Put(j, s) /\ UNCHANGED <<room, cache, arms, lost, thread, acted>>
    BY <1>1 DEF ScanStarts
  <2> HIDE DEF s
  <2>3. \A x \in Sensors : acted'[x] <= arms /\ (thread'[x] = "verifier" => x \in AutoSensors)
    BY <2>2 DEF RecInv, CommandBounds
  <2>4. j # "resume"
    BY <1>1 DEF Scans
  <2>5. AutoDuty(j, s)
    BY <2>1, <2>4 DEF AutoDuty
  <2>6. ASSUME Commanded' PROVE Commanded
    <3>1. ~CarriesIn(j, s)'
      BY <2>1, <2>4 DEF CarriesIn
    <3>2. \A k \in Jobs : CarriesIn(k, job[k])' => k # j /\ job'[k] = job[k]
      BY <2>2, <3>1 DEF Put, TypeInv, JobsTyped
    <3>3. \A k \in Jobs : CarriesIn(k, job[k])' => CarriesIn(k, job[k])
      BY <2>2, <3>2 DEF CarriesIn
    <3> QED  BY <2>2, <2>6, <3>3 DEF Commanded
  <2>7. s.about <= arms
    BY <2>1, ArmsAreNumbers
  <2>8. s.pc \notin Working
    BY <2>1 DEF Working
  <2> QED  BY <1>0a, <2>1, <2>2, <2>3, <2>5, <2>6, <2>7, <2>8, RecMoves
<1>2. CASE Hydrates(j)
  <2> DEFINE s == [job[j] EXCEPT !.pc = "read"]
  <2>1. s.pc = "read" /\ s.about = job[j].about
    BY <1>0 DEF JobState
  <2>2. Put(j, s) /\ UNCHANGED <<room, arms, lost, thread, acted>>
    BY <1>2 DEF Hydrates, Goes
  <2> HIDE DEF s
  <2>3. \A p \in Processes : get_room(p)' = get_room(p)
    BY <1>2, <2>2, CopiesStay, ProcessOfJob DEF Hydrates
  <2>4. job[j].pc \in Working
    BY <1>2 DEF Hydrates, At, Working, Pc
  <2> QED  BY <2>1, <2>2, <2>3, <2>4, RecPlain DEF Duties
<1>3. CASE Reconciles(j)
  <2> DEFINE pc == IF job[j].out = {} THEN "clear" ELSE "open"
             s == [job[j] EXCEPT !.pc = pc]
  <2>1. pc \in Pc /\ pc \notin Duties \cup {"unlink_expired"}
    BY DEF Pc, Duties
  <2>2. Asks(j, s) /\ UNCHANGED <<room, cache, arms, lost, thread, acted>>
    BY <1>3 DEF Reconciles
  <2> HIDE DEF pc
  <2>3. s \in JobState /\ s.pc = pc /\ s.about = job[j].about
    BY <1>0, <2>1 DEF JobState
  <2> HIDE DEF s
  <2>4. job[j].pc \in Working
    BY <1>3 DEF Reconciles, At, Working, Pc
  <2> QED  BY <1>0a, <2>1, <2>2, <2>3, <2>4, RecAsks
<1>4. CASE Opens(j)
  <2>1. PICK x \in job[j].out :
          \/ Put(j, [Idle EXCEPT !.pc = "clear"])
          \/ Put(j, [job[j] EXCEPT !.pc = "act", !.sensor = x, !.out = {}])
    BY <1>4 DEF Opens
  <2>2. PICK s : /\ Put(j, s) /\ s.about \in {job[j].about, 0} /\ s.pc \in {"clear", "act"}
    <3>1. [Idle EXCEPT !.pc = "clear"].pc = "clear" /\ [Idle EXCEPT !.pc = "clear"].about = 0
      BY DEF Idle
    <3>2. /\ [job[j] EXCEPT !.pc = "act", !.sensor = x, !.out = {}].pc = "act"
          /\ [job[j] EXCEPT !.pc = "act", !.sensor = x, !.out = {}].about = job[j].about
      BY <1>0 DEF JobState
    <3> QED  BY <2>1, <3>1, <3>2
  <2>3. job[j].pc \in Working /\ UNCHANGED <<room, cache, arms, lost, thread, acted>>
    BY <1>4 DEF Opens, At, Working, Pc
  <2> QED  BY <1>0a, <2>2, <2>3, RecPlain DEF Duties
<1>5. CASE j = "resume" /\ Verdict
  <2>1. \/ Put(j, [Idle EXCEPT !.pc = "clear"])
        \/ Put(j, [job[j] EXCEPT !.pc = "act", !.out = {}])
    BY <1>5 DEF Verdict
  <2>2. PICK s : /\ Put(j, s) /\ s.about \in {job[j].about, 0} /\ s.pc \in {"clear", "act"}
    <3>1. [Idle EXCEPT !.pc = "clear"].pc = "clear" /\ [Idle EXCEPT !.pc = "clear"].about = 0
      BY DEF Idle
    <3>2. /\ [job[j] EXCEPT !.pc = "act", !.out = {}].pc = "act"
          /\ [job[j] EXCEPT !.pc = "act", !.out = {}].about = job[j].about
      BY <1>0 DEF JobState
    <3> QED  BY <2>1, <3>1, <3>2
  <2>3. job[j].pc \in Working /\ UNCHANGED <<room, cache, arms, lost, acted>>
    BY <1>5 DEF Verdict, At, Working, Pc
  <2>4. \A x \in Sensors : thread'[x] = "verifier" => thread[x] = "verifier"
    BY <1>5 DEF Verdict, TypeInv, TicketsTyped
  <2> QED  BY <1>0a, <2>2, <2>3, <2>4, RecPlain DEF Duties
<1> QED  BY <1>1, <1>2, <1>3, <1>4, <1>5

(* What a job carries is what carries on, when the others stay. *)
LEMMA CarriedBefore ==
  ASSUME TypeInv, NEW j \in Jobs, NEW s, Put(j, s), UNCHANGED arms,
         CarriesIn(j, s) => Commanded,
         \A x \in Sensors : thread'[x] = "verifier" /\ acted'[x] = arms => Commanded
  PROVE  Commanded' => Commanded
<1>1. ASSUME NEW k \in Jobs, CarriesIn(k, job[k])' PROVE Commanded
  <2>1. CarriesIn(k, job'[k])
    BY <1>1 DEF CarriesIn
  <2>2. job'[k] = job[k] \/ (k = j /\ job'[k] = s)
    BY DEF Put, TypeInv, JobsTyped
  <2> QED  BY <2>1, <2>2 DEF Commanded
<1> QED  BY <1>1 DEF Commanded

LEMMA RecRoutes ==
  ASSUME TypeInv, RecInv, NEW j \in Jobs, Routes(j)
  PROVE  RecInv'
<1>1. job[j] \in JobState /\ job[j].pc \in Working
  BY StateTyped DEF Routes, At, Working, Pc
<1>2. UNCHANGED <<room, cache, arms, acted, lost>>
  BY DEF Routes, files, requests, history
<1>3. PICK pc \in {"clear", "command", "register"} :
        /\ Asks(j, [job[j] EXCEPT !.pc = pc])
        /\ pc # "clear" => is_active
        /\ pc = "command" <=> pc # "clear" /\ job[j].sensor \in AutoSensors
  BY DEF Routes, is_live_world
<1> DEFINE next == [job[j] EXCEPT !.pc = pc]
<1>4. next \in JobState /\ next.pc = pc /\ next.about = job[j].about
        /\ next.sensor = job[j].sensor
  <2>1. pc \in Pc
    BY DEF Pc
  <2> QED  BY <1>1, <2>1 DEF JobState
<1>5. Asks(j, next)
  BY <1>3
<1> HIDE DEF next
<1>6. PICK s \in JobState :
        /\ Put(j, s) /\ s.about = next.about /\ s.sensor = next.sensor
        /\ \/ s = next
           \/ s.pc = "unlink_expired" /\ s.then = next.pc /\ override.age = "expired"
  BY <1>4, <1>5, AsksPuts
<1>7. \A x \in Sensors : thread'[x] = "verifier" => thread[x] = "verifier"
  BY DEF Routes, TypeInv, TicketsTyped
<1>8. s.pc = "unlink_expired" => s.then = "clear"
  BY <1>3, <1>4, <1>6 DEF is_active
<1>9. s.pc \notin {"save", "verify"} /\ AutoDuty(j, s)
  BY <1>3, <1>4, <1>6 DEF AutoDuty
<1>10. ~CarriesIn(j, s)
  BY <1>3, <1>4, <1>6 DEF CarriesIn
<1>11. Commanded' => Commanded
  <2>1. \A x \in Sensors : thread'[x] = "verifier" /\ acted'[x] = arms => Commanded
    BY <1>2, <1>7 DEF Commanded
  <2> QED  BY <1>2, <1>6, <1>10, <2>1, CarriedBefore
<1>12. \A x \in Sensors : acted'[x] <= arms /\ (thread'[x] = "verifier" => x \in AutoSensors)
  BY <1>2, <1>7 DEF RecInv, CommandBounds
<1>13. s.about <= arms
  BY <1>4, <1>6 DEF RecInv, CommandBounds
<1>14. \A p \in Processes : get_room(p)' = get_room(p)
  BY <1>2 DEF get_room
<1> QED  BY <1>1, <1>2, <1>6, <1>8, <1>9, <1>11, <1>12, <1>13, <1>14, RecMoves DEF Duties

LEMMA RecRegisters ==
  ASSUME TypeInv, RecInv, NEW j \in Jobs, Registers(j)
  PROVE  RecInv'
<1> DEFINE x == job[j].sensor
<1>1. UNCHANGED <<room, cache, arms, lost>> /\ Put(j, Idle) /\ At(j, "register")
  BY DEF Registers, Finishes, files, requests
<1>2. \A y \in Sensors :
        \/ thread'[y] = thread[y] /\ acted'[y] = acted[y]
        \/ /\ y = x /\ acted'[y] = job[j].about
           /\ thread'[y] = "verifier" => x \in AutoSensors
  BY DEF Registers, TypeInv, TicketsTyped
<1>3. job[j].about <= arms
  BY DEF RecInv, CommandBounds
<1>4. \A y \in Sensors : acted'[y] <= arms /\ (thread'[y] = "verifier" => y \in AutoSensors)
  BY <1>2, <1>3 DEF RecInv, CommandBounds
<1>5. Idle.pc = "idle" /\ Idle.about = 0
  BY DEF Idle
<1>6. Commanded' => Commanded
  <2>1. ASSUME NEW y \in Sensors, thread'[y] = "verifier", acted'[y] = arms
        PROVE  Commanded
    <3>1. CASE thread'[y] = thread[y] /\ acted'[y] = acted[y]
      BY <2>1, <3>1 DEF Commanded
    <3>2. CASE ~(thread'[y] = thread[y] /\ acted'[y] = acted[y])
      BY <1>1, <1>2, <2>1, <3>2 DEF Commanded, CarriesIn, At
    <3> QED  BY <3>1, <3>2
  <2>2. ~CarriesIn(j, Idle)
    BY <1>5 DEF CarriesIn
  <2> QED  BY <1>1, <2>1, <2>2, CarriedBefore
<1>7. \A p \in Processes : get_room(p)' = get_room(p)
  BY <1>1 DEF get_room
<1>8. Idle.about <= arms
  BY <1>5, ArmsAreNumbers
<1>9. AutoDuty(j, Idle) /\ Idle.pc \notin Working
  BY <1>5 DEF AutoDuty, Working
<1> QED  BY <1>1, <1>4, <1>5, <1>6, <1>7, <1>8, <1>9, RecMoves

LEMMA RecResumes ==
  ASSUME TypeInv, RecInv, ResumeStarts
  PROVE  RecInv'
<1>0. "resume" \in Jobs
  BY DEF Jobs
<1>1. PICK x \in Sensors :
        /\ thread[x] = "verifier"
        /\ Put("resume", [Idle EXCEPT !.pc = "world", !.sensor = x, !.about = acted[x]])
  BY DEF ResumeStarts
<1> DEFINE s == [Idle EXCEPT !.pc = "world", !.sensor = x, !.about = acted[x]]
<1>2. Put("resume", s) /\ s.pc = "world" /\ s.sensor = x /\ s.about = acted[x]
  BY <1>1 DEF Idle
<1> HIDE DEF s
<1>3. UNCHANGED <<room, cache, arms, thread, acted, lost>>
  BY DEF ResumeStarts, files, requests, tickets, history
<1>4. x \in AutoSensors /\ acted[x] <= arms
        /\ \A y \in Sensors : acted'[y] <= arms /\ (thread'[y] = "verifier" => y \in AutoSensors)
  BY <1>1, <1>3 DEF RecInv, CommandBounds
<1>5. Commanded' => Commanded
  <2>1. CarriesIn("resume", s) => Commanded
    BY <1>1, <1>2 DEF CarriesIn, Commanded
  <2>2. \A y \in Sensors : thread'[y] = "verifier" /\ acted'[y] = arms => Commanded
    BY <1>3 DEF Commanded
  <2> QED  BY <1>0, <1>2, <1>3, <2>1, <2>2, CarriedBefore
<1>6. \A p \in Processes : get_room(p)' = get_room(p)
  BY <1>3 DEF get_room
<1>7. AutoDuty("resume", s) /\ s.pc \notin Working
  BY <1>2, <1>4 DEF AutoDuty, Working
<1> QED  BY <1>0, <1>2, <1>3, <1>4, <1>5, <1>6, <1>7, RecMoves

LEMMA RecAsksWorld ==
  ASSUME TypeInv, RecInv, AsksWorld
  PROVE  RecInv'
<1>0. "resume" \in Jobs /\ job["resume"] \in JobState /\ job["resume"].pc = "world"
  BY StateTyped DEF Jobs, AsksWorld, At
<1> DEFINE pc == IF is_live_world THEN "verify" ELSE "reload"
           next == [job["resume"] EXCEPT !.pc = pc]
<1>1. pc \in Pc /\ (is_active => pc = "reload")
  BY DEF Pc, is_live_world
<1>2. Asks("resume", next) /\ (lost \/ ~is_active => lost')
  BY DEF AsksWorld, is_live_world
<1> HIDE DEF pc
<1>3. next \in JobState /\ next.pc = pc /\ next.about = job["resume"].about
        /\ next.sensor = job["resume"].sensor
  BY <1>0, <1>1 DEF JobState
<1> HIDE DEF next
<1>4. PICK s \in JobState :
        /\ Put("resume", s) /\ s.about = next.about /\ s.sensor = next.sensor
        /\ \/ s = next \/ override.age = "expired"
  BY <1>0, <1>2, <1>3, AsksPuts
<1>5. UNCHANGED <<room, cache, arms, thread, acted>>
  BY DEF AsksWorld, files, requests, tickets
<1>6. ~lost' => ~lost /\ s.pc = "reload"
  BY <1>1, <1>2, <1>3, <1>4 DEF is_active
<1>7. \A y \in Sensors : acted'[y] <= arms /\ (thread'[y] = "verifier" => y \in AutoSensors)
  BY <1>5 DEF RecInv, CommandBounds
<1>8. ASSUME ~lost' PROVE AutoDuty("resume", s) /\ (Commanded' => Commanded)
  <2>1. DutyDone("resume", job["resume"])
    BY <1>0, <1>6, <1>8 DEF RecInv
  <2>2. AutoDuty("resume", s)
    BY <1>0, <1>3, <1>4, <2>1 DEF DutyDone, AutoDuty
  <2>3. CarriesIn("resume", s) => Commanded
    BY <1>0, <1>3, <1>4 DEF CarriesIn, Commanded
  <2>4. \A y \in Sensors : thread'[y] = "verifier" /\ acted'[y] = arms => Commanded
    BY <1>5 DEF Commanded
  <2> QED  BY <1>0, <1>4, <1>5, <2>2, <2>3, <2>4, CarriedBefore
<1>9. \A p \in Processes : get_room(p)' = get_room(p)
  BY <1>5 DEF get_room
<1>10. s.about <= arms
  BY <1>0, <1>3, <1>4 DEF RecInv, CommandBounds
<1>11. lost => lost'
  BY <1>2
<1>12. ~lost' => s.pc \notin Working \cup {"save", "verify", "unlink_expired"}
  BY <1>6 DEF Working
<1> QED  BY <1>0, <1>4, <1>5, <1>7, <1>8, <1>9, <1>10, <1>11, <1>12, RecMoves

LEMMA RecClears ==
  ASSUME TypeInv, RecInv, NEW j \in Jobs,
         \/ UnlinksExpired(j) \/ ChecksGrace(j) \/ ReadsSensor(j)
         \/ NothingToClear(j) \/ Clears(j)
  PROVE  RecInv'
<1>0. job[j] \in JobState
  BY StateTyped
<1>1. /\ UNCHANGED <<room, cache, arms, acted, lost, thread>>
      /\ job[j].pc \in Working
  BY DEF UnlinksExpired, ChecksGrace, ReadsSensor, NothingToClear, Clears,
         files, requests, tickets, history, At, Working, Pc
<1>2. \A p \in Processes : get_room(p)' = get_room(p)
  BY <1>1 DEF get_room
<1>3. CASE UnlinksExpired(j)
  <2> DEFINE s == [job[j] EXCEPT !.pc = job[j].then, !.then = "idle", !.arm = 0]
  <2>1. s.pc = job[j].then /\ s.then = "idle" /\ s.about = job[j].about
    BY <1>0 DEF JobState
  <2>2. Put(j, s) /\ job[j].pc = "unlink_expired"
    BY <1>3 DEF UnlinksExpired, At
  <2> HIDE DEF s
  <2>3. ~lost => s.pc \notin Duties
    BY <2>1, <2>2 DEF RecInv, DutyDone
  <2>4. s.then \notin Duties
    BY <2>1 DEF Duties
  <2> QED  BY <1>1, <1>2, <2>1, <2>2, <2>3, <2>4, RecPlain
<1>4. CASE ChecksGrace(j)
  <2>1. CASE Finishes(j)
    BY <1>1, <2>1, RecFinish
  <2>2. CASE Put(j, [Idle EXCEPT !.pc = "resolve", !.arm = override.arm])
    <3> DEFINE s == [Idle EXCEPT !.pc = "resolve", !.arm = override.arm]
    <3>1. s.pc = "resolve" /\ s.about = 0 /\ Put(j, s)
      BY <2>2 DEF Idle
    <3> HIDE DEF s
    <3> QED  BY <1>1, <1>2, <3>1, RecPlain DEF Duties
  <2> QED  BY <1>4, <2>1, <2>2 DEF ChecksGrace
<1>5. CASE ReadsSensor(j)
  <2>1. CASE override = None
    BY <1>1, <1>5, <2>1, RecFinish DEF ReadsSensor
  <2>2. CASE override # None
    <3> DEFINE pc == IF is_active THEN "look_up" ELSE "done"
               s == [job[j] EXCEPT !.pc = pc, !.sensor = override.sensor]
    <3>1. pc \in Pc /\ pc \in {"look_up", "done"}
      BY DEF Pc
    <3>2. override.sensor \in Sensors
      BY <2>2 DEF TypeInv, FilesTyped, Override
    <3>3. Asks(j, s)
      BY <1>5, <2>2 DEF ReadsSensor
    <3> HIDE DEF pc
    <3>4. s \in JobState /\ s.pc = pc /\ s.about = job[j].about
      BY <1>0, <3>1, <3>2 DEF JobState
    <3> HIDE DEF s
    <3>5. pc \notin Duties \cup {"unlink_expired"}
      BY <3>1 DEF Duties
    <3> QED  BY <1>1, <1>2, <3>3, <3>4, <3>5, RecAsks
  <2> QED  BY <2>1, <2>2
<1>6. CASE NothingToClear(j) \/ Clears(j)
  BY <1>1, <1>6, RecFinish DEF NothingToClear, Clears
<1> QED  BY <1>3, <1>4, <1>5, <1>6

(* The copy dropped, a job goes on with what is in the file. *)
LEMMA RecDrops ==
  ASSUME TypeInv, RecInv, NEW j \in Jobs, DropsCache(j)
  PROVE  RecInv'
<1> DEFINE pc == IF j = "resume" THEN "advance" ELSE "hydrate"
           s == [job[j] EXCEPT !.pc = pc, !.reloaded = room.arm]
<1>0. job[j] \in JobState /\ job[j].pc = "reload" /\ Process(j) \in Processes
  BY StateTyped, ProcessOfJob DEF DropsCache, At
<1>1. Put(j, s) /\ UNCHANGED <<room, arms, thread, acted, lost>>
  BY DEF DropsCache, files, requests, tickets, history
<1>2. pc \in {"advance", "hydrate"} /\ (pc = "advance" <=> j = "resume")
  OBVIOUS
<1> HIDE DEF pc
<1>3. s.pc = pc /\ s.about = job[j].about /\ s.sensor = job[j].sensor
  BY <1>0 DEF JobState
<1> HIDE DEF s
<1>4. \A p \in Processes : get_room(p)' \in {get_room(p), room}
  BY <1>0, <1>1 DEF DropsCache, get_room, TypeInv, FilesTyped
<1>5. get_room(Process(j))' = room
  BY <1>0, <1>1 DEF DropsCache, get_room, TypeInv, FilesTyped
<1>6. \A k \in Jobs : job'[k] = job[k] \/ (k = j /\ job'[k] = s)
  BY <1>1 DEF Put, TypeInv, JobsTyped
<1>7. CommandBounds'
  BY <1>1, <1>3, <1>6 DEF RecInv, CommandBounds
<1>8. Commanded' => Commanded
  <2>1. CarriesIn(j, s) => Commanded
    BY <1>0, <1>2, <1>3 DEF CarriesIn, Commanded
  <2>2. \A y \in Sensors : thread'[y] = "verifier" /\ acted'[y] = arms => Commanded
    BY <1>1 DEF Commanded
  <2> QED  BY <1>1, <2>1, <2>2, CarriedBefore
<1>9. ASSUME ~lost' PROVE StrongInv' /\ VerifierReads' /\ \A k \in Jobs : DutyDone(k, job[k])'
  <2>1. StrongInv /\ VerifierReads /\ \A k \in Jobs : DutyDone(k, job[k])
    BY <1>1, <1>9 DEF RecInv
  <2>2. StrongInv'
    <3>1. ASSUME Commanded' PROVE room'.strong
      BY <1>1, <1>8, <2>1, <3>1 DEF StrongInv
    <3>2. ASSUME Commanded', NEW k \in Jobs, job'[k].pc \in Working
          PROVE  get_room(Process(k))'.strong
      <4>1. Commanded /\ room.strong
        BY <1>8, <2>1, <3>2 DEF StrongInv
      <4>2. CASE k = j
        BY <1>5, <4>1, <4>2
      <4>3. CASE k # j
        <5>1. job[k].pc \in Working
          BY <1>6, <3>2, <4>3
        <5>2. get_room(Process(k)).strong
          BY <2>1, <4>1, <5>1 DEF StrongInv
        <5> QED  BY <1>4, <4>1, <5>2, ProcessOfJob
      <4> QED  BY <4>2, <4>3
    <3> QED  BY <3>1, <3>2 DEF StrongInv
  <2>3. VerifierReads'
    <3>1. "resume" \in Jobs /\ "scheduler" \in Processes
      BY DEF Jobs, Processes
    <3>2. job'["resume"].pc = "verify" => job'["resume"] = job["resume"]
      BY <1>2, <1>3, <1>6, <3>1
    <3>3. get_room("scheduler")' \in {get_room("scheduler"), room}
      BY <1>4, <3>1
    <3> QED  BY <1>1, <2>1, <3>2, <3>3 DEF VerifierReads, At, InBand
  <2>4. ASSUME NEW k \in Jobs PROVE DutyDone(k, job[k])'
    <3>1. CASE job'[k] = job[k]
      BY <1>1, <2>1, <3>1 DEF DutyDone, AutoDuty, CarriesIn, InBand
    <3>2. CASE k = j /\ job'[k] = s
      <4>1. AutoDuty(j, s)
        BY <1>0, <1>2, <1>3, <2>1 DEF DutyDone, AutoDuty
      <4> QED  BY <1>2, <1>3, <3>2, <4>1 DEF DutyDone, AutoDuty
    <3> QED  BY <1>6, <3>1, <3>2
  <2> QED  BY <2>2, <2>3, <2>4
<1> QED  BY <1>7, <1>9 DEF RecInv

(* A copy changed and not yet saved: stronger ventilation, fewer sensors   *)
(* out of band; one made for the verifier is the strong one advanced.      *)
LEMMA RecChanges ==
  ASSUME TypeInv, RecInv, NEW j \in Jobs, NEW new \in Room, NEW then, NEW about,
         Changes(j, new, then, about), about <= arms,
         UNCHANGED <<room, arms, thread, acted, lost>>,
         job[j].pc \in Working, job[j].pc # "verify",
         new.out \subseteq get_room(Process(j)).out,
         get_room(Process(j)).strong => new.strong,
         ~lost => job[j].sensor \in AutoSensors,
         \/ then = "register" /\ new.strong
         \/ /\ then = "verify" /\ j = "resume" /\ job[j].pc = "advance"
            /\ about = job[j].about
            /\ get_room(Process(j)).strong => InBand(new)
  PROVE  RecInv'
<1> DEFINE s == [job[j] EXCEPT !.pc = "save", !.then = then, !.made = new, !.about = about]
<1>0. job[j] \in JobState /\ Process(j) \in Processes
  BY StateTyped, ProcessOfJob
<1>1. Put(j, s)
  BY DEF Changes
<1>2. s.pc = "save" /\ s.then = then /\ s.made = new /\ s.about = about
        /\ s.sensor = job[j].sensor
  BY <1>0 DEF JobState
<1> HIDE DEF s
<1>3. /\ get_room(Process(j))' = new
      /\ \A p \in Processes : p # Process(j) => get_room(p)' = get_room(p)
  BY <1>0, CopyChanges DEF Changes
<1>4. \A k \in Jobs : job'[k] = job[k] \/ (k = j /\ job'[k] = s)
  BY <1>1 DEF Put, TypeInv, JobsTyped
<1>5. CommandBounds'
  BY <1>2, <1>4 DEF RecInv, CommandBounds
<1>6. CarriesIn(j, s) => CarriesIn(j, job[j])
  BY <1>2 DEF CarriesIn
<1>7. Commanded' => Commanded
  <2>1. \A y \in Sensors : thread'[y] = "verifier" /\ acted'[y] = arms => Commanded
    BY DEF Commanded
  <2> QED  BY <1>1, <1>6, <2>1, CarriedBefore DEF Commanded
<1>8. ASSUME ~lost PROVE StrongInv' /\ VerifierReads' /\ \A k \in Jobs : DutyDone(k, job[k])'
  <2>1. StrongInv /\ VerifierReads /\ \A k \in Jobs : DutyDone(k, job[k])
    BY <1>8 DEF RecInv
  <2>2. StrongInv'
    <3>1. ASSUME Commanded' PROVE room'.strong
      BY <1>7, <2>1, <3>1 DEF StrongInv
    <3>2. ASSUME Commanded', NEW k \in Jobs, job'[k].pc \in Working
          PROVE  get_room(Process(k))'.strong
      <4>1. Commanded /\ job[k].pc \in Working
        BY <1>4, <1>7, <3>2
      <4>2. get_room(Process(k)).strong
        BY <2>1, <4>1 DEF StrongInv
      <4>3. CASE Process(k) = Process(j)
        BY <1>3, <4>2, <4>3
      <4>4. CASE Process(k) # Process(j)
        <5>1. Process(k) \in Processes
          BY ProcessOfJob
        <5>2. get_room(Process(k))' = get_room(Process(k))
          BY <1>3, <4>4, <5>1
        <5> QED  BY <4>2, <5>2
      <4> QED  BY <4>3, <4>4
    <3> QED  BY <3>1, <3>2 DEF StrongInv
  <2>3. VerifierReads'
    <3>1. "resume" \in Jobs /\ "scheduler" \in Processes
      BY DEF Jobs, Processes
    <3>2. job'["resume"].pc = "verify" => job'["resume"] = job["resume"]
      BY <1>2, <1>4, <3>1
    <3>3. get_room("scheduler")'.out \subseteq get_room("scheduler").out
      BY <1>0, <1>3, <3>1
    <3> QED  BY <2>1, <3>2, <3>3 DEF VerifierReads, At, InBand
  <2>4. ASSUME NEW k \in Jobs PROVE DutyDone(k, job[k])'
    <3>1. CASE job'[k] = job[k]
      BY <2>1, <3>1 DEF DutyDone, AutoDuty, CarriesIn, InBand
    <3>2. CASE k = j /\ job'[k] = s
      <4>1. new # None
        BY WorldAssumption
      <4>2. CarriesIn(j, s) /\ then = "verify" => InBand(new)
        BY <1>6, <2>1 DEF StrongInv, Commanded
      <4>3. DutyDone(j, s)
        BY <1>2, <1>8, <4>1, <4>2 DEF DutyDone, AutoDuty
      <4> QED  BY <3>2, <4>3 DEF DutyDone, AutoDuty, CarriesIn, InBand
    <3> QED  BY <1>4, <3>1, <3>2
  <2> QED  BY <2>2, <2>3, <2>4
<1> QED  BY <1>5, <1>8 DEF RecInv

LEMMA RecCommands ==
  ASSUME TypeInv, CopyInv, RecInv, NEW j \in Jobs, Commands(j)
  PROVE  RecInv'
<1> DEFINE r == get_room(Process(j))
<1>1. r \in Room /\ set_ventilation(r) \in Room
  BY RoomsTyped, ProcessOfJob
<1>2. Changes(j, set_ventilation(r), "register", r.arm)
        /\ UNCHANGED <<room, arms, thread, acted, lost>>
  BY DEF Commands, files, requests, tickets, history
<1>3. set_ventilation(r).out = r.out /\ set_ventilation(r).strong
  BY <1>1 DEF set_ventilation, Room
<1>4. r.arm <= arms
  BY ProcessOfJob DEF CopyInv, Arm
<1>5. job[j].pc = "command" /\ job[j].pc \in Working
  BY DEF Commands, At, Working, Pc
<1>6. ~lost => job[j].sensor \in AutoSensors
  BY <1>5 DEF RecInv, DutyDone, AutoDuty
<1> HIDE DEF r
<1> QED  BY <1>1, <1>2, <1>3, <1>4, <1>5, <1>6, RecChanges DEF r

LEMMA RecForwards ==
  ASSUME TypeInv, RecInv, FastForwards
  PROVE  RecInv'
<1> DEFINE r == get_room("scheduler")
<1>0. "resume" \in Jobs /\ Process("resume") = "scheduler"
  BY DEF Jobs, Process
<1>1. r \in Room /\ advance_minutes(r) \in Room
  BY <1>0, RoomsTyped, ProcessOfJob
<1>2. Changes("resume", advance_minutes(r), "verify", job["resume"].about)
        /\ UNCHANGED <<room, arms, thread, acted, lost>>
  BY DEF FastForwards, files, requests, tickets, history
<1>3. /\ advance_minutes(r).out \subseteq r.out
      /\ r.strong => advance_minutes(r).strong /\ InBand(advance_minutes(r))
  BY <1>1, WorldAssumption DEF advance_minutes, Room, InBand
<1>4. job["resume"].pc = "advance" /\ job["resume"].pc \in Working
  BY DEF FastForwards, At, Working, Pc
<1>5. ~lost => job["resume"].sensor \in AutoSensors
  BY <1>0, <1>4 DEF RecInv, DutyDone, AutoDuty
<1>6. job["resume"].about <= arms
  BY <1>0 DEF RecInv, CommandBounds
<1> QED  BY <1>0, <1>1, <1>2, <1>3, <1>4, <1>5, <1>6, RecChanges

(* A save that loses nothing: no other job is under way, and the copy that *)
(* is written is the one the job made.                                     *)
LEMMA RecSaves ==
  ASSUME TypeInv, RecInv, NEW j \in Jobs, Saves(j)
  PROVE  RecInv'
<1> DEFINE s == [job[j] EXCEPT !.pc = job[j].then, !.then = "idle", !.made = None]
<1>0. job[j] \in JobState /\ Process(j) \in Processes /\ job[j].pc = "save"
  BY StateTyped, ProcessOfJob DEF Saves, At
<1>1. Put(j, s) /\ UNCHANGED <<arms, thread, acted, cache>>
  BY DEF Saves, requests, tickets
<1>2. s.pc = job[j].then /\ s.about = job[j].about /\ s.sensor = job[j].sensor
  BY <1>0 DEF JobState
<1> HIDE DEF s
<1>3. job'[j] = s /\ \A k \in Jobs : k # j => job'[k] = job[k]
  BY <1>1 DEF Put, TypeInv, JobsTyped
<1>4. CommandBounds'
  BY <1>1, <1>2, <1>3 DEF RecInv, CommandBounds
<1>5. ASSUME ~lost' PROVE StrongInv' /\ VerifierReads' /\ \A k \in Jobs : DutyDone(k, job[k])'
  <2>1. /\ ~lost /\ cache[Process(j)] = job[j].made
        /\ \A k \in Jobs : k # j => job[k].pc \in {"idle", "waiting"}
    BY <1>5 DEF Saves
  <2>2. StrongInv /\ \A k \in Jobs : DutyDone(k, job[k])
    BY <2>1 DEF RecInv
  <2>3. /\ AutoDuty(j, job[j]) /\ job[j].made # None
        /\ job[j].then \in {"register", "verify"}
        /\ job[j].then = "register" => job[j].made.strong
        /\ job[j].then = "verify" =>
             j = "resume" /\ (CarriesIn(j, job[j]) => InBand(job[j].made))
    BY <1>0, <2>2 DEF DutyDone
  <2>4. get_room(Process(j)) = job[j].made /\ room' = job[j].made
          /\ get_room(Process(j))' = job[j].made
    BY <1>1, <2>1, <2>3 DEF Saves, get_room
  <2>5. Commanded' => job[j].made.strong
    <3>1. CASE job[j].then = "register"
      BY <2>3, <3>1
    <3>2. CASE job[j].then = "verify"
      <4>1. CarriesIn(j, s) => Commanded
        BY <1>0, <1>2, <2>3, <3>2 DEF CarriesIn, Commanded
      <4>2. \A y \in Sensors : thread'[y] = "verifier" /\ acted'[y] = arms => Commanded
        BY <1>1 DEF Commanded
      <4>3. Commanded' => Commanded
        BY <1>1, <4>1, <4>2, CarriedBefore
      <4>4. job[j].pc \in Working
        BY <1>0 DEF Working, Pc
      <4> QED  BY <2>2, <2>4, <4>3, <4>4 DEF StrongInv
    <3> QED  BY <2>3, <3>1, <3>2
  <2>6. StrongInv'
    <3>1. ASSUME NEW k \in Jobs, job'[k].pc \in Working PROVE k = j
      BY <1>3, <2>1, <3>1 DEF Working
    <3> QED  BY <2>4, <2>5, <3>1 DEF StrongInv
  <2>7. VerifierReads'
    <3>1. ASSUME job'["resume"].pc = "verify", job'["resume"].about = arms
          PROVE  InBand(job[j].made) /\ j = "resume"
      <4>1. "resume" \in Jobs
        BY DEF Jobs
      <4>2. j = "resume"
        BY <1>3, <2>1, <3>1, <4>1
      <4>3. CarriesIn(j, job[j]) /\ job[j].then = "verify"
        BY <1>0, <1>2, <1>3, <3>1, <4>2 DEF CarriesIn
      <4> QED  BY <2>3, <4>2, <4>3
    <3>2. j = "resume" => get_room("scheduler")' = job[j].made
      BY <2>4 DEF Process
    <3> QED  BY <1>1, <2>4, <3>1, <3>2 DEF VerifierReads, At, InBand
  <2>8. ASSUME NEW k \in Jobs PROVE DutyDone(k, job[k])'
    <3>1. CASE k = j
      <4>1. DutyDone(j, s)
        BY <1>0, <1>2, <2>3 DEF DutyDone, AutoDuty
      <4> QED  BY <1>1, <1>3, <3>1, <4>1 DEF DutyDone, AutoDuty, CarriesIn, InBand
    <3>2. CASE k # j
      BY <1>1, <1>3, <2>2, <3>2 DEF DutyDone, AutoDuty, CarriesIn, InBand
    <3> QED  BY <3>1, <3>2
  <2> QED  BY <2>6, <2>7, <2>8
<1> QED  BY <1>4, <1>5 DEF RecInv

(* No command so far was about a scenario armed just now. *)
LEMMA RecArms ==
  ASSUME TypeInv, RecInv, NEW x \in Sensors, InjectArms(x)
  PROVE  RecInv'
<1>1. job' = job /\ arms' = arms + 1 /\ UNCHANGED <<thread, acted, lost>>
  BY DEF InjectArms, tickets, history
<1>2. arms \in Nat /\ \A k \in Jobs : job[k].about \in Nat
  BY ArmsAreNumbers, StateTyped, WorldAssumption DEF JobState
<1>3. \A y \in Sensors : acted[y] \in Nat
  BY WorldAssumption DEF TypeInv, TicketsTyped
<1>4. CommandBounds
  BY DEF RecInv
<1>5. CommandBounds'
  BY <1>1, <1>2, <1>3, <1>4 DEF CommandBounds
<1>6. /\ \A k \in Jobs : job'[k].about # arms'
      /\ \A y \in Sensors : acted'[y] # arms'
  BY <1>1, <1>2, <1>3, <1>4 DEF CommandBounds
<1>7. \A k \in Jobs : ~CarriesIn(k, job[k])'
  BY <1>6 DEF CarriesIn
<1>8. StrongInv' /\ VerifierReads'
  <2>1. ~Commanded'
    BY <1>6, <1>7 DEF Commanded
  <2>2. "resume" \in Jobs
    BY DEF Jobs
  <2> QED  BY <1>6, <2>1, <2>2 DEF StrongInv, VerifierReads
<1>9. ASSUME ~lost', NEW k \in Jobs PROVE DutyDone(k, job[k])'
  <2>1. DutyDone(k, job[k])
    BY <1>1, <1>9 DEF RecInv
  <2> QED  BY <1>1, <1>7, <2>1 DEF DutyDone, AutoDuty
<1> QED  BY <1>5, <1>8, <1>9 DEF RecInv

(* The jobs, rooms and copies as they were, and no new verification.       *)
LEMMA RecStays ==
  ASSUME TypeInv, RecInv, UNCHANGED <<job, room, cache, arms, acted, lost>>,
         \A x \in Sensors : thread'[x] = "verifier" => thread[x] = "verifier"
  PROVE  RecInv'
<1>1. "resume" \in Jobs /\ job \in [Jobs -> JobState]
  BY DEF Jobs, TypeInv, JobsTyped
<1>2. CommandBounds'
  BY DEF RecInv, CommandBounds
<1>3. Commanded' => Commanded
  BY DEF Commanded, CarriesIn
<1>4. StrongInv => StrongInv'
  BY <1>3 DEF StrongInv, get_room
<1>5. VerifierReads => VerifierReads'
  BY DEF VerifierReads, At, InBand, get_room
<1>6. \A k \in Jobs : DutyDone(k, job[k]) => DutyDone(k, job[k])'
  BY DEF DutyDone, AutoDuty, CarriesIn, InBand
<1> QED  BY <1>2, <1>4, <1>5, <1>6 DEF RecInv

LEMMA RecRequests ==
  ASSUME TypeInv, RecInv,
         \/ TimePasses \/ InjectActivates \/ DecisionDeactivates \/ UNCHANGED vars
         \/ \E s \in Sensors : DecisionWrites(s)
  PROVE  RecInv'
<1> USE DEF files, requests, tickets, history
<1>1. CASE InjectActivates
  <2>1. UNCHANGED <<room, cache, arms, thread, acted, lost>>
    BY <1>1 DEF InjectActivates
  <2>2. CASE UNCHANGED job
    BY <2>1, <2>2, RecStays
  <2>3. CASE Goes("injected", "waiting")
    <3> DEFINE s == [job["injected"] EXCEPT !.pc = "waiting"]
    <3>1. "injected" \in Jobs
      BY DEF Jobs, Scans
    <3>2. job["injected"] \in JobState
      BY <3>1, StateTyped
    <3>3. s.pc = "waiting" /\ s.about = job["injected"].about
      BY <3>2 DEF JobState
    <3>4. Put("injected", s)
      BY <2>3 DEF Goes
    <3> HIDE DEF s
    <3>5. \A p \in Processes : get_room(p)' = get_room(p)
      BY <2>1 DEF get_room
    <3> QED  BY <2>1, <3>1, <3>3, <3>4, <3>5, RecPlain DEF Duties, Working
  <2> QED  BY <1>1, <2>2, <2>3 DEF InjectActivates
<1>2. ASSUME NEW x \in Sensors, DecisionWrites(x) PROVE RecInv'
  <2>1. UNCHANGED <<job, room, cache, arms, acted, lost>>
    BY <1>2 DEF DecisionWrites
  <2>2. \A y \in Sensors : thread'[y] = "verifier" => thread[y] = "verifier"
    BY <1>2 DEF DecisionWrites, TypeInv, TicketsTyped
  <2> QED  BY <2>1, <2>2, RecStays
<1>3. CASE TimePasses \/ DecisionDeactivates \/ UNCHANGED vars
  <2>1. UNCHANGED <<job, room, cache, arms, acted, lost, thread>>
    BY <1>3 DEF TimePasses, GraceElapses, TtlElapses, DecisionDeactivates, vars
  <2> QED  BY <2>1, RecStays
<1> QED  BY <1>1, <1>2, <1>3

(* A step of a job changes no other job. *)
LEMMA StepPuts ==
  ASSUME NEW j \in Jobs, JobStep(j), j # "resume"
  PROVE  \E s : Put(j, s)
<1>1. ASSUME NEW s, Asks(j, s) PROVE \E x : Put(j, x)
  BY <1>1 DEF Asks
<1>2. ASSUME Finishes(j) PROVE \E x : Put(j, x)
  BY <1>2 DEF Finishes
<1>3. CASE ScanReads(j) \/ Reconciles(j) \/ Routes(j)
  BY <1>1, <1>3 DEF ScanReads, ReadsSensors, Reconciles, Routes
<1>4. CASE ChecksGrace(j) \/ ReadsSensor(j)
  BY <1>1, <1>2, <1>4 DEF ChecksGrace, ReadsSensor
<1>5. CASE Registers(j) \/ NothingToClear(j) \/ Clears(j)
  BY <1>2, <1>5 DEF Registers, NothingToClear, Clears
<1>6. CASE \/ ScanStarts(j) \/ Hydrates(j) \/ Opens(j) \/ UnlinksExpired(j)
           \/ DropsCache(j) \/ Saves(j) \/ Commands(j)
  BY <1>6 DEF ScanStarts, Hydrates, Opens, UnlinksExpired, DropsCache, Saves, Commands,
              Changes, Goes
<1> QED  BY <1>3, <1>4, <1>5, <1>6 DEF JobStep, ScanStep, SharedStep

LEMMA RecStep == TypeInv /\ CopyInv /\ RecInv /\ [Next]_vars => RecInv'
<1> SUFFICES ASSUME TypeInv, CopyInv, RecInv, [Next]_vars PROVE RecInv'
  OBVIOUS
<1>1. ASSUME NEW j \in Jobs, JobStep(j) PROVE RecInv'
  <2>1. ASSUME ScanReads(j) PROVE RecInv'
    BY <2>1, RecReads DEF ScanReads
  <2>2. ASSUME j = "resume", Verifies PROVE RecInv'
    BY <2>2, RecReads DEF Verifies
  <2>3. \/ ScanReads(j)
        \/ DropsCache(j) \/ Hydrates(j) \/ Saves(j) \/ Commands(j)
        \/ j = "resume" /\ (FastForwards \/ Verifies \/ ResumeStarts \/ AsksWorld \/ Verdict)
        \/ j \in Scans /\ ScanStarts(j)
        \/ Reconciles(j) \/ Opens(j) \/ Routes(j) \/ Registers(j)
        \/ UnlinksExpired(j) \/ ChecksGrace(j) \/ ReadsSensor(j)
        \/ NothingToClear(j) \/ Clears(j)
    BY <1>1 DEF JobStep, ScanStep, ResumeStep, SharedStep
  <2> QED  BY <2>1, <2>2, <2>3, RecScans, RecRoutes, RecRegisters, RecResumes, RecAsksWorld,
              RecClears, RecDrops, RecCommands, RecForwards, RecSaves
<1> QED  BY <1>1, RecArms, RecRequests DEF Next, RequestStep

LEMMA RecInvariant == Spec => [](TypeInv /\ CopyInv /\ RecInv)
<1>1. TypeInv /\ CopyInv /\ RecInv /\ [Next]_vars => (TypeInv /\ CopyInv /\ RecInv)'
  BY TypeStep, CopyStep, RecStep
<1> QED  BY <1>1, TypeInit, CopyInit, RecInit, PTL DEF Spec

(***************************************************************************)
(* ops/scheduler.py _advance_sim_before_verify, sensing/simulator/room.py: *)
(* the verifier reads the anomaly of the latest scenario again only if a   *)
(* command or a fast-forward was lost, or exposed to another job's writes. *)
(***************************************************************************)
THEOREM RecoveryKept == Spec => RecoveryIsRead
<1>1. ASSUME TypeInv, RecInv, [Next]_vars,
             At("resume", "verify") /\ job'["resume"].pc = "verdict"
      PROVE  \/ job["resume"].sensor \notin job'["resume"].out
             \/ lost \/ arms # job["resume"].about
  <2> SUFFICES ASSUME ~lost, job["resume"].about = arms
               PROVE  job["resume"].sensor \notin job'["resume"].out
    OBVIOUS
  <2>0. "resume" \in Jobs /\ job["resume"] \in JobState /\ job["resume"].pc = "verify"
          /\ Process("resume") = "scheduler"
    BY <1>1, StateTyped DEF Jobs, At, Process
  <2>1. job["resume"].sensor \in AutoSensors
    BY <1>1, <2>0 DEF RecInv, DutyDone, AutoDuty
  <2>2. InBand(get_room("scheduler"))
    BY <1>1, <2>0 DEF RecInv, VerifierReads
  <2>3. job'["resume"] # job["resume"]
    BY <1>1, <2>0
  <2>4. ASSUME NEW j \in Jobs, JobStep(j), ~(j = "resume" /\ Verifies) PROVE FALSE
    <3>1. CASE j = "resume"
      BY <2>0, <2>4, <3>1
         DEF JobStep, ResumeStep, SharedStep, Scans, At, ResumeStarts, AsksWorld, FastForwards,
             Verdict, UnlinksExpired, DropsCache, Saves, Routes, Commands, Registers,
             ChecksGrace, ReadsSensor, NothingToClear, Clears
    <3>2. CASE j # "resume"
      <4>1. PICK s : Put(j, s)
        BY <2>4, <3>2, StepPuts
      <4> QED  BY <1>1, <2>0, <2>3, <3>2, <4>1 DEF Put, TypeInv, JobsTyped
    <3> QED  BY <3>1, <3>2
  <2>5. ASSUME RequestStep \/ TimePasses \/ UNCHANGED vars PROVE FALSE
    <3>1. job'["resume"] = job["resume"]
      BY <1>1, <2>5, <2>0 DEF RequestStep, TimePasses, GraceElapses, TtlElapses, vars,
           InjectArms, InjectActivates, DecisionWrites, DecisionDeactivates, Goes, Put,
           TypeInv, JobsTyped
    <3> QED  BY <2>3, <3>1
  <2>6. Verifies
    BY <1>1, <2>4, <2>5 DEF Next
  <2> DEFINE next == [job["resume"] EXCEPT !.pc = "verdict", !.out = Reading("resume")]
  <2>7. Asks("resume", next)
    BY <2>6 DEF Verifies, ReadsSensors
  <2>8. Reading("resume") \in SUBSET Sensors /\ "verdict" \in Pc
    BY <1>1, <2>0, RoomsTyped, ProcessOfJob DEF Reading, Room, Pc
  <2>9. next \in JobState /\ next.out = Reading("resume")
    BY <2>0, <2>8 DEF JobState
  <2> HIDE DEF next
  <2>10. PICK s \in JobState : Put("resume", s) /\ (s = next \/ s.pc = "unlink_expired")
    BY <1>1, <2>0, <2>7, <2>9, AsksPuts
  <2>11. job'["resume"].out = Reading("resume")
    BY <1>1, <2>0, <2>9, <2>10 DEF Put, TypeInv, JobsTyped
  <2> QED  BY <2>0, <2>1, <2>2, <2>11 DEF Reading, InBand
<1>2. TypeInv /\ RecInv /\ [Next]_vars
        => [At("resume", "verify") /\ job'["resume"].pc = "verdict"
              => \/ job["resume"].sensor \notin job'["resume"].out
                 \/ lost \/ arms # job["resume"].about]_vars
  BY <1>1
<1> QED  BY <1>2, RecInvariant, PTL DEF Spec, RecoveryIsRead
=============================================================================
