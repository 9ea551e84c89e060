---------------------- MODULE InjectionOverrideProofs ----------------------
(***************************************************************************)
(* Proofs about the injection override of SimulatedWorld, for any sensors  *)
(* and any number of injections: who may end an injected demo.             *)
(***************************************************************************)
EXTENDS SimulatedWorldProofs

(* Where a job goes on with what it has read of an override file. *)
Looking == {"resolve", "look_up", "unlink_expired"}

(* An injection still to be activated is newer than any override so far.   *)
OverrideArms ==
  override # None =>
    override.arm <= arms /\ (inject # None => override.arm < arms)

(* The file in place is one a job in state s has yet to look at, or it is  *)
(* the one it looked at, past its grace window.                            *)
FromThisFile(s) ==
  /\ s.arm = override.arm /\ override.age # "young"
  /\ s.pc = "unlink_expired" => override.age = "expired"
  /\ s.pc = "look_up" => s.sensor = override.sensor

Looked(s) ==
  s.pc \in Looking =>
    /\ s.arm <= arms /\ (inject # None => s.arm < arms)
    /\ override # None => s.arm < override.arm \/ FromThisFile(s)

(* No job goes from a save to a look at the override.                      *)
Follows(s) ==
  /\ s.pc = "save" => s.then \in {"register", "verify"}
  /\ s.pc = "unlink_expired" => s.then # "save"

LookInv ==
  /\ OverrideArms
  /\ \A j \in Jobs : Looked(job[j]) /\ Follows(job[j])

LEMMA LookInit == Init => LookInv
BY DEF Init, LookInv, OverrideArms, Looked, Follows, Looking, Idle

LEMMA LookNumbers ==
  ASSUME TypeInv
  PROVE  /\ arms \in Nat /\ (inject # None => 0 < arms)
         /\ override # None => override \in Override /\ override.arm \in Nat /\ 0 < override.arm
         /\ \A s \in JobState : s.arm \in Nat
<1>1. arms \in Nat /\ (inject # None => 0 < arms)
  BY WorldAssumption DEF TypeInv, RequestsTyped
<1>2. override # None => override \in Override /\ override.arm \in Nat /\ 0 < override.arm
  BY WorldAssumption DEF TypeInv, FilesTyped, Override
<1>3. \A s \in JobState : s.arm \in Nat
  BY WorldAssumption DEF JobState
<1> QED  BY <1>1, <1>2, <1>3

(* A job that moves, the override and the requests as they were. *)
LEMMA LookPut ==
  ASSUME TypeInv, LookInv, NEW j \in Jobs, NEW s, Put(j, s), Looked(s), Follows(s),
         UNCHANGED <<override, inject, arms>>
  PROVE  LookInv'
<1>1. ASSUME NEW k \in Jobs PROVE Looked(job[k])' /\ Follows(job[k])'
  <2>1. job'[k] = s \/ job'[k] = job[k]
    BY DEF Put, TypeInv, JobsTyped
  <2>2. Looked(job'[k]) /\ Follows(job'[k])
    BY <2>1 DEF LookInv
  <2> QED  BY <2>2 DEF Looked, Follows, FromThisFile
<1>2. OverrideArms'
  BY DEF LookInv, OverrideArms
<1> QED  BY <1>1, <1>2 DEF LookInv

(* A job that moves to a place of no interest here. *)
LEMMA LookElsewhere ==
  ASSUME TypeInv, LookInv, NEW j \in Jobs, NEW s, Put(j, s),
         s.pc \notin Looking \cup {"save"}, UNCHANGED <<override, inject, arms>>
  PROVE  LookInv'
<1>1. Looked(s) /\ Follows(s)
  BY DEF Looked, Follows, Looking
<1> QED  BY <1>1, LookPut

LEMMA LookFinish ==
  ASSUME TypeInv, LookInv, NEW j \in Jobs, Finishes(j), UNCHANGED <<override, inject, arms>>
  PROVE  LookInv'
<1>1. Put(j, Idle) /\ Idle.pc \notin Looking \cup {"save"}
  BY DEF Finishes, Idle, Looking
<1> QED  BY <1>1, LookElsewhere

(* A job that asks is_active() on its way to a place of no interest here. *)
LEMMA LookAsks ==
  ASSUME TypeInv, LookInv, NEW j \in Jobs, NEW next \in JobState, Asks(j, next),
         next.pc \notin {"resolve", "unlink_expired", "save"},
         next.pc = "look_up" => Looked(next), UNCHANGED <<override, inject, arms>>
  PROVE  LookInv'
<1>1. PICK s \in JobState :
        /\ Put(j, s) /\ s.sensor = next.sensor
        /\ \/ s = next
           \/ /\ s.pc = "unlink_expired" /\ s.then = next.pc /\ override # None
              /\ override.age = "expired" /\ s.arm = override.arm
  BY AsksPuts
<1>2. CASE s = next
  <2>1. Looked(s) /\ Follows(s)
    BY <1>2 DEF Looked, Follows, Looking
  <2> QED  BY <1>1, <2>1, LookPut
<1>3. CASE /\ s.pc = "unlink_expired" /\ s.then = next.pc /\ override # None
           /\ override.age = "expired" /\ s.arm = override.arm
  <2>1. OverrideArms
    BY DEF LookInv
  <2>2. Looked(s)
    BY <1>3, <2>1 DEF Looked, OverrideArms, FromThisFile
  <2>3. Follows(s)
    BY <1>3 DEF Follows
  <2> QED  BY <1>1, <2>2, <2>3, LookPut
<1> QED  BY <1>1, <1>2, <1>3

LEMMA LookReads ==
  ASSUME TypeInv, LookInv, NEW j \in Jobs, NEW from, NEW to \in {"reconcile", "verdict"},
         ReadsSensors(j, from, to)
  PROVE  LookInv'
<1> DEFINE next == [job[j] EXCEPT !.pc = to, !.out = Reading(j)]
<1>1. get_room(Process(j)) \in Room
  BY RoomsTyped, ProcessOfJob
<1>2. Reading(j) \in SUBSET Sensors
  BY <1>1 DEF Reading, Room
<1>3. job[j] \in JobState /\ to \in Pc
  BY StateTyped DEF Pc
<1>4. next \in JobState /\ next.pc = to
  BY <1>2, <1>3 DEF JobState
<1>5. Asks(j, next) /\ UNCHANGED <<override, inject, arms>>
  BY DEF ReadsSensors, files, requests
<1> HIDE DEF next
<1> QED  BY <1>4, <1>5, LookAsks

LEMMA LookRooms ==
  ASSUME TypeInv, LookInv, NEW j \in Jobs,
         \/ DropsCache(j) \/ Hydrates(j) \/ Saves(j) \/ Commands(j)
         \/ j = "resume" /\ FastForwards
  PROVE  LookInv'
<1>0. job[j] \in JobState
  BY StateTyped
<1> USE DEF files, requests
<1>1. CASE DropsCache(j)
  <2> DEFINE pc == IF j = "resume" THEN "advance" ELSE "hydrate"
             s == [job[j] EXCEPT !.pc = pc, !.reloaded = room.arm]
  <2>1. Put(j, s) /\ UNCHANGED <<override, inject, arms>>
    BY <1>1 DEF DropsCache
  <2>2. pc \notin Looking \cup {"save"}
    BY DEF Looking
  <2> HIDE DEF pc
  <2>3. s.pc = pc
    BY <1>0 DEF JobState
  <2> HIDE DEF s
  <2> QED  BY <2>1, <2>2, <2>3, LookElsewhere
<1>2. CASE Hydrates(j)
  <2> DEFINE s == [job[j] EXCEPT !.pc = "read"]
  <2>1. Put(j, s) /\ UNCHANGED <<override, inject, arms>>
    BY <1>2 DEF Hydrates, Goes
  <2>2. s.pc = "read"
    BY <1>0 DEF JobState
  <2> HIDE DEF s
  <2> QED  BY <2>1, <2>2, LookElsewhere DEF Looking
<1>3. CASE Saves(j)
  <2> DEFINE s == [job[j] EXCEPT !.pc = job[j].then, !.then = "idle", !.made = None]
  <2>1. Put(j, s) /\ UNCHANGED <<override, inject, arms>>
    BY <1>3 DEF Saves
  <2>2. s.pc = job[j].then
    BY <1>0 DEF JobState
  <2> HIDE DEF s
  <2>3. job[j].then \in {"register", "verify"}
    BY <1>3 DEF Saves, At, LookInv, Follows
  <2> QED  BY <2>1, <2>2, <2>3, LookElsewhere DEF Looking
<1>4. ASSUME NEW new, NEW then \in {"register", "verify"}, NEW about,
             Changes(j, new, then, about), UNCHANGED <<override, inject, arms>>
      PROVE  LookInv'
  <2> DEFINE s == [job[j] EXCEPT !.pc = "save", !.then = then, !.made = new, !.about = about]
  <2>1. Put(j, s)
    BY <1>4 DEF Changes
  <2>2. s.pc = "save" /\ s.then = then
    BY <1>0 DEF JobState
  <2> HIDE DEF s
  <2>3. Looked(s) /\ Follows(s)
    BY <2>2 DEF Looked, Follows, Looking
  <2> QED  BY <1>4, <2>1, <2>3, LookPut
<1>5. CASE Commands(j)
  <2> DEFINE r == get_room(Process(j))
  <2>1. Changes(j, set_ventilation(r), "register", r.arm) /\ UNCHANGED <<override, inject, arms>>
    BY <1>5 DEF Commands
  <2> QED  BY <1>4, <2>1
<1>6. CASE j = "resume" /\ FastForwards
  <2>1. Changes(j, advance_minutes(get_room("scheduler")), "verify", job[j].about)
          /\ UNCHANGED <<override, inject, arms>>
    BY <1>6 DEF FastForwards
  <2> QED  BY <1>4, <2>1
<1> QED  BY <1>1, <1>2, <1>3, <1>5, <1>6

LEMMA LookNodes ==
  ASSUME TypeInv, LookInv, NEW j \in Jobs,
         \/ ScanStarts(j) \/ Reconciles(j) \/ Opens(j) \/ Routes(j) \/ Registers(j)
         \/ j = "resume" /\ (ResumeStarts \/ AsksWorld \/ Verdict)
  PROVE  LookInv'
<1>0. job[j] \in JobState
  BY StateTyped
<1>0a. UNCHANGED <<override, inject, arms>>
  BY DEF ScanStarts, Reconciles, Opens, Routes, Registers, ResumeStarts, AsksWorld, Verdict,
         files, requests
<1>0b. ASSUME NEW pc \in {"clear", "open", "command", "register", "verify", "reload"},
              Asks(j, [job[j] EXCEPT !.pc = pc])
       PROVE  LookInv'
  <2>1. pc \in Pc
    BY DEF Pc
  <2>2. [job[j] EXCEPT !.pc = pc] \in JobState /\ [job[j] EXCEPT !.pc = pc].pc = pc
    BY <1>0, <2>1 DEF JobState
  <2> QED  BY <1>0a, <1>0b, <2>2, LookAsks
<1>1. CASE ScanStarts(j)
  <2>1. [Idle EXCEPT !.pc = "reload"].pc = "reload"
    BY DEF Idle
  <2> QED  BY <1>0a, <1>1, <2>1, LookElsewhere DEF ScanStarts, Looking
<1>2. CASE Reconciles(j)
  <2> DEFINE pc == IF job[j].out = {} THEN "clear" ELSE "open"
  <2>1. pc \in {"clear", "open"} /\ Asks(j, [job[j] EXCEPT !.pc = pc])
    BY <1>2 DEF Reconciles
  <2> HIDE DEF pc
  <2> QED  BY <1>0b, <2>1
<1>3. CASE Opens(j)
  <2>1. PICK s \in job[j].out :
          \/ Put(j, [Idle EXCEPT !.pc = "clear"])
          \/ Put(j, [job[j] EXCEPT !.pc = "act", !.sensor = s, !.out = {}])
    BY <1>3 DEF Opens
  <2>2. [Idle EXCEPT !.pc = "clear"].pc = "clear"
    BY DEF Idle
  <2>3. [job[j] EXCEPT !.pc = "act", !.sensor = s, !.out = {}].pc = "act"
    BY <1>0 DEF JobState
  <2> QED  BY <1>0a, <2>1, <2>2, <2>3, LookElsewhere DEF Looking
<1>4. CASE Routes(j)
  <2>1. PICK pc \in {"clear", "command", "register"} : Asks(j, [job[j] EXCEPT !.pc = pc])
    BY <1>4 DEF Routes
  <2> QED  BY <1>0b, <2>1
<1>5. CASE Registers(j)
  BY <1>0a, <1>5, LookFinish DEF Registers
<1>6. CASE j = "resume" /\ ResumeStarts
  <2>1. PICK s : Put(j, [Idle EXCEPT !.pc = "world", !.sensor = s, !.about = acted[s]])
    BY <1>6 DEF ResumeStarts
  <2>2. [Idle EXCEPT !.pc = "world", !.sensor = s, !.about = acted[s]].pc = "world"
    BY DEF Idle
  <2> QED  BY <1>0a, <2>1, <2>2, LookElsewhere DEF Looking
<1>7. CASE j = "resume" /\ AsksWorld
  <2> DEFINE pc == IF is_live_world THEN "verify" ELSE "reload"
  <2>1. pc \in {"verify", "reload"} /\ Asks(j, [job[j] EXCEPT !.pc = pc])
    BY <1>7 DEF AsksWorld
  <2> HIDE DEF pc
  <2> QED  BY <1>0b, <2>1
<1>8. CASE j = "resume" /\ Verdict
  <2>1. \/ Put(j, [Idle EXCEPT !.pc = "clear"])
        \/ Put(j, [job[j] EXCEPT !.pc = "act", !.out = {}])
    BY <1>8 DEF Verdict
  <2>2. [Idle EXCEPT !.pc = "clear"].pc = "clear"
    BY DEF Idle
  <2>3. [job[j] EXCEPT !.pc = "act", !.out = {}].pc = "act"
    BY <1>0 DEF JobState
  <2> QED  BY <1>0a, <2>1, <2>2, <2>3, LookElsewhere DEF Looking
<1> QED  BY <1>1, <1>2, <1>3, <1>4, <1>5, <1>6, <1>7, <1>8

(* Once there is no override, a look at an older one can do no harm.       *)
LEMMA LookEnds ==
  ASSUME TypeInv, LookInv, NEW j \in Jobs, NEW s, Put(j, s), Follows(s),
         s.pc \in Looking => s.arm = 0, override' = None, UNCHANGED <<inject, arms>>
  PROVE  LookInv'
<1>1. arms \in Nat /\ (inject # None => 0 < arms)
  BY LookNumbers
<1>2. ASSUME NEW k \in Jobs PROVE Looked(job[k])' /\ Follows(job[k])'
  <2>1. job'[k] = s \/ job'[k] = job[k]
    BY DEF Put, TypeInv, JobsTyped
  <2>2. CASE job'[k] = s
    BY <1>1, <2>2 DEF Looked, Follows
  <2>3. CASE job'[k] = job[k]
    BY <2>3 DEF LookInv, Looked, Follows
  <2> QED  BY <2>1, <2>2, <2>3
<1>3. OverrideArms'
  BY DEF OverrideArms
<1> QED  BY <1>2, <1>3 DEF LookInv

LEMMA LookClears ==
  ASSUME TypeInv, LookInv, NEW j \in Jobs,
         \/ UnlinksExpired(j) \/ ChecksGrace(j) \/ ReadsSensor(j)
         \/ NothingToClear(j) \/ Clears(j)
  PROVE  LookInv'
<1>0. job[j] \in JobState
  BY StateTyped
<1> USE DEF files, requests
<1>1. CASE UnlinksExpired(j)
  <2> DEFINE s == [job[j] EXCEPT !.pc = job[j].then, !.then = "idle", !.arm = 0]
  <2>1. Put(j, s) /\ override' = None /\ UNCHANGED <<inject, arms>>
    BY <1>1 DEF UnlinksExpired
  <2>2. s.pc = job[j].then /\ s.then = "idle" /\ s.arm = 0
    BY <1>0 DEF JobState
  <2> HIDE DEF s
  <2>3. job[j].then # "save"
    BY <1>1 DEF UnlinksExpired, At, LookInv, Follows
  <2>4. Follows(s)
    BY <2>2, <2>3 DEF Follows
  <2> QED  BY <2>1, <2>2, <2>4, LookEnds
<1>2. CASE ChecksGrace(j)
  <2>1. CASE override = None \/ override.age = "young"
    BY <1>2, <2>1, LookFinish DEF ChecksGrace
  <2>2. CASE ~(override = None \/ override.age = "young")
    <3> DEFINE s == [Idle EXCEPT !.pc = "resolve", !.arm = override.arm]
    <3>1. Put(j, s) /\ UNCHANGED <<override, inject, arms>>
      BY <1>2, <2>2 DEF ChecksGrace
    <3>2. s.pc = "resolve" /\ s.arm = override.arm
      BY DEF Idle
    <3> HIDE DEF s
    <3>3. Looked(s) /\ Follows(s)
      BY <2>2, <3>2 DEF LookInv, OverrideArms, Looked, Follows, FromThisFile
    <3> QED  BY <3>1, <3>3, LookPut
  <2> QED  BY <2>1, <2>2
<1>3. CASE ReadsSensor(j)
  <2>1. CASE override = None
    BY <1>3, <2>1, LookFinish DEF ReadsSensor
  <2>2. CASE override # None
    <3> DEFINE pc == IF is_active THEN "look_up" ELSE "done"
               s == [job[j] EXCEPT !.pc = pc, !.sensor = override.sensor]
    <3>1. pc \in Pc /\ pc \in {"look_up", "done"}
      BY DEF Pc
    <3>2. override.sensor \in Sensors
      BY <2>2 DEF TypeInv, FilesTyped, Override
    <3>3. Asks(j, s) /\ UNCHANGED <<override, inject, arms>>
      BY <1>3, <2>2 DEF ReadsSensor
    <3> HIDE DEF pc
    <3>4. s \in JobState /\ s.pc = pc /\ s.sensor = override.sensor /\ s.arm = job[j].arm
      BY <1>0, <3>1, <3>2 DEF JobState
    <3> HIDE DEF s
    <3>5. Looked(job[j]) /\ job[j].pc = "resolve"
      BY <1>3 DEF ReadsSensor, At, LookInv
    <3>6. s.pc = "look_up" => Looked(s)
      BY <3>4, <3>5 DEF Looked, Looking, FromThisFile
    <3> QED  BY <3>1, <3>3, <3>4, <3>6, LookAsks
  <2> QED  BY <2>1, <2>2
<1>4. CASE NothingToClear(j)
  BY <1>4, LookFinish DEF NothingToClear
<1>5. CASE Clears(j)
  <2>1. CASE override' = override
    BY <1>5, <2>1, LookFinish DEF Clears
  <2>2. CASE override' = None
    <3>1. Put(j, Idle) /\ Follows(Idle) /\ Idle.pc \notin Looking
      BY <1>5 DEF Clears, Finishes, Follows, Idle, Looking
    <3> QED  BY <1>5, <2>2, <3>1, LookEnds DEF Clears
  <2> QED  BY <1>5, <2>1, <2>2 DEF Clears
<1> QED  BY <1>1, <1>2, <1>3, <1>4, <1>5

LEMMA LookRequests ==
  ASSUME TypeInv, LookInv, RequestStep
  PROVE  LookInv'
<1>0. arms \in Nat
  BY LookNumbers
<1>1. ASSUME NEW s \in Sensors, InjectArms(s) PROVE LookInv'
  <2>1. inject = None /\ inject' # None /\ arms' = arms + 1 /\ override' = override /\ job' = job
    BY <1>1, WorldAssumption DEF InjectArms
  <2>2. OverrideArms'
    <3>1. override # None => override.arm \in Nat /\ override.arm <= arms
      BY LookNumbers DEF LookInv, OverrideArms
    <3> QED  BY <1>0, <2>1, <3>1 DEF OverrideArms
  <2>3. ASSUME NEW k \in Jobs PROVE Looked(job[k])' /\ Follows(job[k])'
    <3>1. job[k].arm \in Nat
      BY StateTyped, LookNumbers
    <3>2. Looked(job[k]) /\ Follows(job[k])
      BY DEF LookInv
    <3>3. job[k].pc \in Looking => job[k].arm <= arms
      BY <3>2 DEF Looked
    <3>4. Looked(job[k])'
      BY <1>0, <2>1, <3>1, <3>2, <3>3 DEF Looked, FromThisFile
    <3> QED  BY <2>1, <3>2, <3>4 DEF Follows
  <2> QED  BY <2>2, <2>3 DEF LookInv
<1>2. CASE InjectActivates
  <2>1. inject # None /\ inject' = None /\ arms' = arms
          /\ override' = [sensor |-> inject, age |-> "young", arm |-> arms]
    BY <1>2 DEF InjectActivates
  <2>2. OverrideArms'
    BY <1>0, <2>1 DEF OverrideArms
  <2>3. ASSUME NEW k \in Jobs PROVE Looked(job[k])' /\ Follows(job[k])'
    <3>1. Looked(job[k]) /\ Follows(job[k])
      BY DEF LookInv
    <3>2. CASE job'[k] = job[k]
      <4>1. job[k].pc \in Looking => job[k].arm <= arms /\ job[k].arm < arms
        BY <2>1, <3>1 DEF Looked
      <4>2. Looked(job[k])'
        BY <2>1, <3>2, <4>1 DEF Looked
      <4> QED  BY <3>1, <3>2, <4>2 DEF Follows
    <3>3. CASE job'[k] # job[k]
      <4>1. "injected" \in Jobs
        BY DEF Jobs, Scans
      <4>2. k = "injected" /\ job'[k] = [job[k] EXCEPT !.pc = "waiting"]
        BY <1>2, <3>3, <4>1 DEF InjectActivates, Goes, Put, TypeInv, JobsTyped
      <4>3. job[k] \in JobState
        BY StateTyped
      <4>4. job'[k].pc = "waiting"
        BY <4>2, <4>3 DEF JobState
      <4> QED  BY <4>4 DEF Looked, Follows, Looking
    <3> QED  BY <3>2, <3>3
  <2> QED  BY <2>2, <2>3 DEF LookInv
<1>3. ASSUME NEW s \in Sensors, DecisionWrites(s) PROVE LookInv'
  BY <1>3 DEF DecisionWrites, files, LookInv, OverrideArms, Looked, Follows, FromThisFile
<1>4. CASE DecisionDeactivates
  BY <1>4 DEF DecisionDeactivates, LookInv, OverrideArms, Looked, Follows
<1> QED  BY <1>1, <1>2, <1>3, <1>4 DEF RequestStep

LEMMA LookTime ==
  ASSUME TypeInv, LookInv, TimePasses
  PROVE  LookInv'
<1>1. PICK age \in {"settled", "expired"} :
        /\ override # None /\ override' = [override EXCEPT !.age = age]
        /\ override.age = "young" \/ (age = "expired" /\ override.age = "settled")
        /\ UNCHANGED <<job, inject, arms>>
  BY DEF TimePasses, GraceElapses, TtlElapses, requests
<1>2. override \in Override
  BY <1>1 DEF TypeInv, FilesTyped
<1>3. override'.arm = override.arm /\ override'.sensor = override.sensor /\ override'.age = age
  BY <1>1, <1>2 DEF Override
<1>4. OverrideArms'
  BY <1>1, <1>3 DEF LookInv, OverrideArms
<1>5. ASSUME NEW k \in Jobs PROVE Looked(job[k])' /\ Follows(job[k])'
  <2>1. Looked(job[k]) /\ Follows(job[k])
    BY DEF LookInv
  <2>2. FromThisFile(job[k]) => FromThisFile(job[k])'
    BY <1>1, <1>3 DEF FromThisFile
  <2>3. Looked(job[k])'
    BY <1>1, <1>3, <2>1, <2>2 DEF Looked
  <2> QED  BY <1>1, <2>1, <2>3 DEF Follows
<1> QED  BY <1>4, <1>5 DEF LookInv

LEMMA LookStep == TypeInv /\ LookInv /\ [Next]_vars => LookInv'
<1> SUFFICES ASSUME TypeInv, LookInv, [Next]_vars PROVE LookInv'
  OBVIOUS
<1>1. ASSUME NEW j \in Jobs, JobStep(j) PROVE LookInv'
  <2>1. ASSUME ScanReads(j) PROVE LookInv'
    BY <2>1, LookReads DEF ScanReads
  <2>2. ASSUME j = "resume", Verifies PROVE LookInv'
    BY <2>2, LookReads DEF Verifies
  <2>3. \/ ScanReads(j)
        \/ DropsCache(j) \/ Hydrates(j) \/ Saves(j) \/ Commands(j)
        \/ j = "resume" /\ FastForwards
        \/ j = "resume" /\ Verifies
        \/ ScanStarts(j) \/ Reconciles(j) \/ Opens(j) \/ Routes(j) \/ Registers(j)
        \/ j = "resume" /\ (ResumeStarts \/ AsksWorld \/ Verdict)
        \/ UnlinksExpired(j) \/ ChecksGrace(j) \/ ReadsSensor(j)
        \/ NothingToClear(j) \/ Clears(j)
    BY <1>1 DEF JobStep, ScanStep, ResumeStep, SharedStep
  <2> QED  BY <2>1, <2>2, <2>3, LookRooms, LookNodes, LookClears
<1>2. CASE UNCHANGED vars
  BY <1>2 DEF vars, files, requests, LookInv, OverrideArms, Looked, Follows, FromThisFile
<1> QED  BY <1>1, <1>2, LookTime, LookRequests DEF Next

LEMMA LookInvariant == Spec => [](TypeInv /\ LookInv)
<1>1. TypeInv /\ LookInv /\ [Next]_vars => (TypeInv /\ LookInv)'
  BY TypeStep, LookStep
<1> QED  BY <1>1, TypeInit, LookInit, PTL DEF Spec

-----------------------------------------------------------------------------
(* Who ends an override *)

(* A step that ends one is the operator's decision, or a job's that found  *)
(* the file expired or its incident gone.                                  *)
LEMMA OnlyEndedBy ==
  ASSUME TypeInv, LookInv, [Next]_vars, override # None, override' = None
  PROVE  \/ decision # None
         \/ \E j \in Jobs : At(j, "unlink_expired")
         \/ \E j \in Jobs : At(j, "look_up") /\ incident[job[j].sensor] = "none"
<1>1. override \in Override
  BY DEF TypeInv, FilesTyped
<1>2. ASSUME NEW j \in Jobs, JobStep(j)
      PROVE  \/ At(j, "unlink_expired")
             \/ At(j, "look_up") /\ incident[job[j].sensor] = "none"
  <2>1. UnlinksExpired(j) \/ Clears(j)
    BY <1>2 DEF JobStep, ScanStep, ResumeStep, SharedStep, files, ScanStarts, Hydrates,
                ScanReads, Reconciles, Opens, ResumeStarts, AsksWorld, FastForwards, Verifies,
                Verdict, ReadsSensors, DropsCache, Saves, Routes, Commands, Registers,
                ChecksGrace, ReadsSensor, NothingToClear
  <2> QED  BY <2>1 DEF UnlinksExpired, Clears
<1>3. ASSUME RequestStep PROVE decision # None
  <2>1. ASSUME InjectActivates PROVE FALSE
    <3>1. inject \in Sensors /\ arms \in 1 .. MaxInjections
      BY <2>1 DEF InjectActivates, TypeInv, RequestsTyped
    <3>2. override' \in Override
      BY <2>1, <3>1 DEF InjectActivates, Override, Ages
    <3> QED  BY <3>2, WorldAssumption
  <2> QED  BY <1>3, <2>1 DEF RequestStep, InjectArms, DecisionWrites, DecisionDeactivates, files
<1>4. ASSUME TimePasses PROVE FALSE
  <2>1. override' \in Override
    BY <1>1, <1>4 DEF TimePasses, GraceElapses, TtlElapses, Override, Ages
  <2> QED  BY <2>1, WorldAssumption
<1> QED  BY <1>2, <1>3, <1>4 DEF Next, vars, files

(***************************************************************************)
(* sensing/override.py clear_if_resolved, is_active: within its grace      *)
(* window an injection only ends by a decision of the operator, or by a    *)
(* job of either process that had looked at an earlier injection's file.   *)
(***************************************************************************)
THEOREM GraceKept == Spec => GraceIsRespected
<1>1. ASSUME TypeInv, LookInv, [Next]_vars, override # None, override.age = "young",
             override' = None, decision = None
      PROVE  \E j \in Jobs : /\ job[j].pc \in {"look_up", "unlink_expired"}
                             /\ job[j].arm < override.arm
  <2>1. PICK j \in Jobs : job[j].pc \in {"look_up", "unlink_expired"}
    BY <1>1, OnlyEndedBy DEF At
  <2>2. Looked(job[j])
    BY <1>1 DEF LookInv
  <2>3. job[j].arm < override.arm
    BY <1>1, <2>1, <2>2 DEF Looked, Looking, FromThisFile
  <2> QED  BY <2>1, <2>3
<1>2. TypeInv /\ LookInv /\ [Next]_vars
        => [override # None /\ override.age = "young" /\ override' = None
              => \/ decision # None
                 \/ \E j \in Jobs : /\ job[j].pc \in {"look_up", "unlink_expired"}
                                    /\ job[j].arm < override.arm]_vars
  BY <1>1
<1> QED  BY <1>2, LookInvariant, PTL DEF Spec, GraceIsRespected

(***************************************************************************)
(* sensing/override.py clear_if_resolved: while the incident of an         *)
(* injection is open its override only ends by its lifetime, by a decision *)
(* of the operator, or by a job that had looked at an earlier one's file.  *)
(***************************************************************************)
THEOREM DemoKept == Spec => DemoKeepsItsWorld
<1>1. ASSUME TypeInv, LookInv, [Next]_vars, override # None, override' = None,
             incident[override.sensor] = "open", override.age # "expired", decision = None
      PROVE  \E j \in Jobs : /\ job[j].pc \in {"look_up", "unlink_expired"}
                             /\ job[j].arm < override.arm
  <2>1. PICK j \in Jobs : \/ job[j].pc = "unlink_expired"
                          \/ job[j].pc = "look_up" /\ incident[job[j].sensor] = "none"
    BY <1>1, OnlyEndedBy DEF At
  <2>2. Looked(job[j])
    BY <1>1 DEF LookInv
  <2>3. job[j].arm < override.arm \/ FromThisFile(job[j])
    BY <1>1, <2>1, <2>2 DEF Looked, Looking
  <2>4. ~FromThisFile(job[j])
    BY <1>1, <2>1 DEF FromThisFile
  <2> QED  BY <2>1, <2>3, <2>4
<1>2. TypeInv /\ LookInv /\ [Next]_vars
        => [override # None /\ override' = None /\ incident[override.sensor] = "open"
              => \/ override.age = "expired" \/ decision # None
                 \/ \E j \in Jobs : /\ job[j].pc \in {"look_up", "unlink_expired"}
                                    /\ job[j].arm < override.arm]_vars
  BY <1>1
<1> QED  BY <1>2, LookInvariant, PTL DEF Spec, DemoKeepsItsWorld
=============================================================================
