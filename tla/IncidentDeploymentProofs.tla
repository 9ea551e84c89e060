----------------------- MODULE IncidentDeploymentProofs -----------------------
(***************************************************************************)
(* Proofs about IncidentDeployment, for every set of sensors, every replan *)
(* budget and any number of incidents, injections and faults, in layers of *)
(* inductive invariants, each of which assumes those before it: the frames *)
(* of the jobs (which job drives which thread), deduplication, where the   *)
(* threads are, that no active incident is forgotten, and that no          *)
(* checkpoint is left behind.                                              *)
(***************************************************************************)
EXTENDS IncidentDeployment, TLAPS

-----------------------------------------------------------------------------
(* Layer 1: the frames of the jobs.  A thread is driven by one job at a    *)
(* time, without any lock: a scan drives only the thread it has created    *)
(* and not registered yet, the resume job only registered ones.            *)

ScanDrives == {"run", "commit", "returned"}

ScanPcs == {"idle", "waiting", "monitor", "create", "clear"} \cup ScanDrives

ResumeDrives == {"invoke", "run", "commit", "returned", "register", "discard",
                 "purge"}

ResumePcs == {"idle", "next", "clear"} \cup ResumeDrives

(***************************************************************************)
(* A frame holds an incident exactly while its job drives a thread, and    *)
(* what the next step of the job needs.                                    *)
(***************************************************************************)
FramesWellFormed ==
  /\ \A j \in Scans :
       /\ job[j].pc \in ScanPcs
       /\ job[j].incident # None <=> job[j].pc \in ScanDrives
       /\ job[j].pc = "create" => job[j].sensor \in Sensors
  /\ job["resume"].pc \in ResumePcs
  /\ job["resume"].incident # None <=> job["resume"].pc \in ResumeDrives
  /\ \A j \in Jobs :
       /\ job[j].pc = "run" => job[j].node \in Position \ {"end"}
       /\ job[j].pc = "commit" => job[j].next \in Position \cup {"replan"}
  /\ decision.pc # "idle" => decision.incident # None /\ decision.verdict # None

(* What a job or the registry knows has a row, and a row has its sensor.   *)
KnownIsOpened ==
  \A i \in Incidents :
    /\ ticket[i] # None <=> sensor[i] # None
    /\ i \in Driven \cup Registered \cup pending \cup {decision.incident}
         => ticket[i] # None

(***************************************************************************)
(* Two jobs never drive one thread, and a scan never one that the registry *)
(* or the resume job's list of due threads knows before the scan is        *)
(* through with it.                                                        *)
(***************************************************************************)
OneDriver ==
  /\ \A j \in Scans, i \in Incidents :
       job[j].incident = i => i \notin Registered \cup pending
  /\ \A j, k \in Jobs :
       j # k /\ job[j].incident # None => job[j].incident # job[k].incident

(* A finished thread is discarded, never invoked again.                    *)
InvokesUnfinished == At("invoke") => checkpoint[job["resume"].incident] # "end"

(* A replan that is about to be counted is within the budget.              *)
BudgetLeft ==
  \A j \in Jobs : job[j].pc = "commit" /\ job[j].next = "replan"
    => replans[job[j].incident] < MaxReplans

FrameInv ==
  /\ TypeOK /\ FramesWellFormed /\ KnownIsOpened /\ OneDriver
  /\ InvokesUnfinished /\ BudgetLeft

(* No job runs at first.                                                   *)
LEMMA FrameInit == Init => FrameInv
BY DeploymentAssumption
DEF Init, FrameInv, TypeOK, FramesWellFormed, ScanPcs, ScanDrives, ResumePcs,
    ResumeDrives, KnownIsOpened, Driven, Registered, OneDriver,
    InvokesUnfinished,
    BudgetLeft, At, Idle, NoDecision, Jobs, Scans

(* A node writes a status and goes on to a node; it replans within budget. *)
LEMMA EffectTypes ==
  ASSUME NEW i \in Incidents, sensor[i] \in Sensors,
         NEW node \in Position \ {"end"}, NEW e \in Effects(i, node)
  PROVE  /\ e.write \in Status \cup {None} /\ e.next \in Position \cup {"replan"}
         /\ e.next = "replan" => replans_left(i)
<1> USE DeploymentAssumption DEF Sensors, Status, Terminal, Position, Suspended
<1>1. CASE node = "diagnose"
  <2>1. PICK j \in {"approved", "disapproved", "no_diagnosis"} :
          e = [write |-> CriticWrite(i, j), next |-> CriticRoute(i, j)]
    BY <1>1 DEF Effects
  <2>2. CriticWrite(i, j) \in Status \cup {None}
    BY DEF CriticWrite
  <2>3. /\ CriticRoute(i, j) \in Position \cup {"replan"}
        /\ CriticRoute(i, j) = "replan" => replans_left(i)
    BY DEF CriticRoute
  <2> QED BY <2>1, <2>2, <2>3
<1>2. CASE node # "diagnose"
  BY <1>2 DEF Effects
<1> QED BY <1>1, <1>2

(* The reconciliation closes rows and neither opens nor forgets any.       *)
LEMMA ReconciledRows ==
  ASSUME ticket \in [Incidents -> Status \cup {None}], NEW inBand \in SUBSET Sensors
  PROVE  /\ Reconciled(inBand) \in [Incidents -> Status \cup {None}]
         /\ \A i \in Incidents :
              /\ Reconciled(inBand)[i] # None <=> ticket[i] # None
              /\ Reconciled(inBand)[i] \in {ticket[i], "closed"}
<1>1. "closed" \in Status /\ None # "closed"
  BY DeploymentAssumption DEF Status, Terminal
<1>2. ASSUME NEW i \in UNION {Newest(ActiveOf(ticket, s)) : s \in inBand}
      PROVE  ticket[i] # None
  BY <1>2 DEF Newest, ActiveOf, Active
<1> QED BY <1>1, <1>2 DEF Reconciled

(* Stopped jobs leave the stores as they are and drive nothing any more.   *)
LEMMA FrameStops ==
  ASSUME FrameInv, NEW J \in SUBSET Jobs, JobsStop(J),
         decision' \in {decision, NoDecision}
  PROVE  FrameInv'
<1> USE DeploymentAssumption DEF FrameInv, JobsStop, rows, threads, Jobs, Scans
<1>1. /\ \A j \in Jobs : job'[j] \in {job[j], Idle}
      /\ pending' \subseteq pending
  BY DEF TypeOK
<1>2. TypeOK'
  <2>1. job' \in [Jobs ->
       [pc : {"idle", "waiting", "monitor", "create", "run", "commit", "returned",
              "next", "invoke", "register", "discard", "purge", "clear"},
        incident : Incidents \cup {None},
        sensor : Sensors \cup {None},
        node : Position \cup {"monitor", None},
        next : Position \cup {"replan", None}]]
    BY DEF TypeOK, Idle
  <2>2. decision' \in [pc : {"idle", "write", "drop", "discard", "deactivate"},
                   incident : Incidents \cup {None}, verdict : Terminal \cup {None}]
    BY DEF TypeOK, NoDecision
  <2>3. orphaned' \subseteq Incidents /\ faults' \in 0 .. MaxFaults
    BY DEF TypeOK, Dropped
  <2>4. lock' \in Scans \cup {None}
    BY DEF TypeOK
  <2> QED BY <1>1, <2>1, <2>2, <2>3, <2>4 DEF TypeOK
<1>3. FramesWellFormed'
  BY <1>1
  DEF FramesWellFormed, ScanPcs, ScanDrives, ResumePcs, ResumeDrives, Idle,
              NoDecision
<1>4. KnownIsOpened'
  BY <1>1 DEF KnownIsOpened, Driven, Registered, Idle, NoDecision, TypeOK
<1>5. OneDriver'
  BY <1>1 DEF OneDriver, Registered, Idle
<1>6. InvokesUnfinished' /\ BudgetLeft'
  BY <1>1 DEF InvokesUnfinished, BudgetLeft, At, Idle
<1> QED BY <1>2, <1>3, <1>4, <1>5, <1>6

(***************************************************************************)
(* Every step keeps the frames: a job takes a thread over only when no     *)
(* other has it.                                                           *)
(***************************************************************************)
LEMMA FrameStep == FrameInv /\ [Next]_vars => FrameInv'
<1> SUFFICES ASSUME FrameInv, [Next]_vars PROVE FrameInv'
  OBVIOUS
<1> USE DeploymentAssumption
    DEF FrameInv, TypeOK, FramesWellFormed, ScanPcs, ScanDrives, ResumePcs,
        ResumeDrives,
        KnownIsOpened, OneDriver, InvokesUnfinished, BudgetLeft, Driven,
        Registered,
        Idle, NoDecision, rows, threads, bounds, history, Jobs, Scans, At
<1>1. CASE HeartbeatStarts
  BY <1>1 DEF HeartbeatStarts
<1>2. ASSUME NEW s \in Sensors, Inject(s)
      PROVE  FrameInv'
  BY <1>2 DEF Inject
<1>3. CASE InjectedScanLocks
  BY <1>3 DEF InjectedScanLocks
<1>4. ASSUME NEW j \in Scans, Monitor(j)
      PROVE  FrameInv'
  <2>1. PICK inBand \in SUBSET Sensors :
          /\ ticket' = Reconciled(inBand)
          /\ \/ job' = [job EXCEPT ![j].pc = "clear"]
             \/ \E s \in Sensors :
                  job' = [job EXCEPT ![j].pc = "create", ![j].sensor = s]
    BY <1>4 DEF Monitor
  <2>2. /\ ticket' \in [Incidents -> Status \cup {None}]
        /\ \A i \in Incidents : ticket'[i] # None <=> ticket[i] # None
    BY <2>1, ReconciledRows
  <2>3. ended' \subseteq Incidents
    BY <1>4 DEF Monitor
  <2> QED BY <1>4, <2>1, <2>2, <2>3 DEF Monitor
<1>5. ASSUME NEW j \in Scans, Create(j)
      PROVE  FrameInv'
  <2>1. PICK i \in Incidents \ Opened :
          /\ sensor' = [sensor EXCEPT ![i] = job[j].sensor]
          /\ ticket' = [ticket EXCEPT ![i] = "open"]
          /\ job' = [job EXCEPT ![j] = [pc |-> "commit", incident |-> i, sensor |-> None,
                                       node |-> "monitor", next |-> "diagnose"]]
    BY <1>5 DEF Create
  <2>2. i \notin Driven \cup Registered \cup pending
    BY <2>1 DEF Opened
  <2> QED BY <1>5, <2>1, <2>2 DEF Create, Opened, Status, Position
<1>6. ASSUME NEW j \in Jobs, NodeRuns(j)
      PROVE  FrameInv'
  <2> DEFINE i == job[j].incident
  <2>1. i \in Incidents /\ sensor[i] \in Sensors /\ job[j].node \in Position \ {"end"}
    BY <1>6 DEF NodeRuns
  <2>2. PICK e \in Effects(i, job[j].node) :
          /\ e.write = None => UNCHANGED <<ticket, ended>>
          /\ e.write # None => SetTicket(i, e.write)
          /\ job' = [job EXCEPT ![j].pc = "commit", ![j].next = e.next]
    BY <1>6 DEF NodeRuns
  <2>3. /\ e.write \in Status \cup {None} /\ e.next \in Position \cup {"replan"}
        /\ e.next = "replan" => replans[i] < MaxReplans
    BY <2>1, <2>2, EffectTypes DEF replans_left
  <2>4. /\ ticket' \in [Incidents -> Status \cup {None}] /\ ended' \subseteq Incidents
        /\ \A k \in Incidents : ticket'[k] # None <=> ticket[k] # None
    BY <2>1, <2>2, <2>3 DEF SetTicket
  <2> QED BY <1>6, <2>1, <2>2, <2>3, <2>4 DEF NodeRuns
<1>7. ASSUME NEW j \in Jobs, NodeCommits(j)
      PROVE  FrameInv'
  <2> DEFINE i == job[j].incident
             next == IF job[j].next = "replan" THEN "diagnose" ELSE job[j].next
  <2>1. i \in Incidents /\ next \in Position
    BY <1>7 DEF NodeCommits, Position
  <2>2. /\ replans' \in [Incidents -> 0 .. MaxReplans]
        /\ \A k \in Incidents \ {i} : replans'[k] = replans[k]
    BY <1>7, <2>1 DEF NodeCommits, Replans
  <2>3. /\ checkpoint' \in [Incidents -> Position \cup {None}]
        /\ \A k \in Incidents \ {i} : checkpoint'[k] = checkpoint[k]
    BY <1>7, <2>1 DEF NodeCommits
  <2>4. \/ job' = [job EXCEPT ![j].pc = "returned", ![j].node = None, ![j].next = None]
        \/ /\ next # "end"
           /\ job' = [job EXCEPT ![j].pc = "run", ![j].node = next, ![j].next = None]
    BY <1>7 DEF NodeCommits
  <2>5. job' \in [Jobs ->
       [pc : {"idle", "waiting", "monitor", "create", "run", "commit", "returned",
              "next", "invoke", "register", "discard", "purge", "clear"},
        incident : Incidents \cup {None},
        sensor : Sensors \cup {None},
        node : Position \cup {"monitor", None},
        next : Position \cup {"replan", None}]]
    BY <2>1, <2>4
  <2>6. TypeOK'
    BY <1>7, <2>2, <2>3, <2>5 DEF NodeCommits
  <2>7. /\ \A k \in Jobs \ {j} : job'[k] = job[k]
        /\ job'[j].incident = i /\ job'[j].sensor = job[j].sensor
        /\ \/ job'[j].pc = "returned"
           \/ job'[j].pc = "run" /\ job'[j].node \in Position \ {"end"}
    BY <2>1, <2>4
  <2>8. job[j].pc = "commit" /\ UNCHANGED <<sensor, ticket, window, pending, decision>>
    BY <1>7 DEF NodeCommits
  <2>9. FramesWellFormed'
    BY <2>7, <2>8
  <2>10. KnownIsOpened' /\ OneDriver'
    BY <2>7, <2>8
  <2>11. InvokesUnfinished' /\ BudgetLeft'
    BY <2>1, <2>2, <2>3, <2>7, <2>8
  <2> QED BY <2>6, <2>9, <2>10, <2>11
<1>8. ASSUME NEW j \in Scans, ScanReturns(j)
      PROVE  FrameInv'
  BY <1>8 DEF ScanReturns
<1>9. ASSUME NEW j \in Scans, ScanClears(j)
      PROVE  FrameInv'
  BY <1>9 DEF ScanClears, clear_if_resolved
<1>10. ASSUME NEW i \in Incidents, WindowElapses(i)
       PROVE  FrameInv'
  BY <1>10 DEF WindowElapses
<1>11. CASE ResumeStarts
  BY <1>11 DEF ResumeStarts, Due
<1>12. ASSUME NEW i \in Incidents, ResumeVisits(i)
       PROVE  FrameInv'
  BY <1>12 DEF ResumeVisits
<1>13. CASE ResumeEnds
  BY <1>13 DEF ResumeEnds
<1>14. CASE ResumeInvokes
  BY <1>14 DEF ResumeInvokes
<1>15. CASE ResumeReturns
  BY <1>15 DEF ResumeReturns
<1>16. CASE ResumeRegisters
  BY <1>16 DEF ResumeRegisters
<1>17. CASE ResumeDiscards
  BY <1>17 DEF ResumeDiscards
<1>18. CASE ResumePurges
  BY <1>18 DEF ResumePurges
<1>19. CASE ResumeClears
  BY <1>19 DEF ResumeClears, clear_if_resolved
<1>20. ASSUME NEW i \in Incidents, NEW v \in Terminal, DecisionRead(i, v)
       PROVE  FrameInv'
  BY <1>20 DEF DecisionRead, Status, Terminal
<1>21. CASE DecisionWritten
  <2>1. decision.incident \in Incidents /\ decision.verdict \in Terminal
    BY <1>21 DEF DecisionWritten
  <2> QED BY <1>21, <2>1 DEF DecisionWritten, SetTicket, Status, Terminal
<1>22. CASE DecisionDropsThread
  BY <1>22 DEF DecisionDropsThread, Position
<1>23. CASE DecisionKeepsCheckpoint
  BY <1>23 DEF DecisionKeepsCheckpoint
<1>24. CASE DecisionDiscards
  BY <1>24 DEF DecisionDiscards
<1>25. CASE DecisionDeactivates
  BY <1>25 DEF DecisionDeactivates
<1>26. CASE DecisionRaises
  BY <1>26 DEF DecisionRaises
<1>27. CASE OverrideExpires
  BY <1>27 DEF OverrideExpires
<1>28. ASSUME NEW j \in Jobs, JobRaises(j)
       PROVE  FrameInv'
  BY <1>28, FrameStops DEF JobRaises
<1>29. CASE SchedulerDies
  BY <1>29, FrameStops DEF SchedulerDies
<1>30. CASE WebDies
  BY <1>30, FrameStops DEF WebDies
<1>31. CASE UNCHANGED vars
  BY <1>31 DEF vars
<1> HIDE DEF FrameInv
<1> QED
  BY <1>1, <1>2, <1>3, <1>4, <1>5, <1>6, <1>7, <1>8, <1>9, <1>10, <1>11, <1>12,
     <1>13, <1>14, <1>15, <1>16, <1>17, <1>18, <1>19, <1>20, <1>21, <1>22,
     <1>23, <1>24, <1>25, <1>26, <1>27, <1>28, <1>29, <1>30, <1>31
  DEF Next, ScanStep, ResumeStep, DecisionStep, GraphStep

(* The frames are well formed in every reachable state.                    *)
LEMMA FrameInvariant == Spec => []FrameInv
BY FrameInit, FrameStep, PTL DEF Spec

(***************************************************************************)
(* Every row, checkpoint, registry entry and frame keeps its shape, for    *)
(* every instance; in particular no thread replans more than MAX_REPLANS   *)
(* times, whoever drives it.                                               *)
(***************************************************************************)
THEOREM DeploymentTypeCorrect == Spec => []TypeOK
<1>1. FrameInv => TypeOK
  BY DEF FrameInv
<1> QED BY <1>1, FrameInvariant, PTL

-----------------------------------------------------------------------------
(* Layer 2: deduplication.  The scan between its check and its insert      *)
(* holds the lock, so that no other scan inserts a row in between, and the *)
(* other writers make a row active again only if it had been ended.        *)

(* The advisory lock belongs to the one scan that is under way.            *)
HolderScans ==
  \A j \in Scans : lock = j <=> job[j].pc \notin {"idle", "waiting"}

(* The history of ended incidents is complete.                             *)
EndedIsRecorded == \A i \in Incidents : ticket[i] \in Terminal => i \in ended

(* Nobody opens an incident between a scan's check and its insert.         *)
ChosenSensorIsFree ==
  \A j \in Scans : job[j].pc = "create" =>
    \A i \in Opened : sensor[i] = job[j].sensor => i \in ended

OpenedInOrder ==
  \A i, k \in Incidents : i < k /\ k \in Opened => i \in Opened

(* Of two incidents of a sensor the older one has been ended.              *)
OlderIsEnded ==
  \A i, k \in Opened : i < k /\ sensor[i] = sensor[k] => i \in ended

DedupInv ==
  /\ HolderScans /\ EndedIsRecorded /\ ChosenSensorIsFree /\ OpenedInOrder
  /\ OlderIsEnded

(* Nothing is open at first.                                               *)
LEMMA DedupInit == Init => DedupInv
BY DeploymentAssumption
DEF Init, DedupInv, HolderScans, EndedIsRecorded, ChosenSensorIsFree,
    OpenedInOrder,
    OlderIsEnded, Opened, Terminal, Status, Idle, Jobs, Scans

(* A write to a row there is: nothing is opened, what ends is recorded.    *)
LEMMA WrittenRow ==
  ASSUME ticket \in [Incidents -> Status \cup {None}], EndedIsRecorded,
         NEW i \in Opened, NEW st \in Status, SetTicket(i, st)
  PROVE  Opened' = Opened /\ ended \subseteq ended' /\ EndedIsRecorded'
BY DeploymentAssumption DEF SetTicket, Opened, EndedIsRecorded

(***************************************************************************)
(* Every step keeps the order of a sensor's incidents: the scan that       *)
(* checks and inserts holds the lock, everything else writes to rows there *)
(* are.                                                                    *)
(***************************************************************************)
LEMMA DedupStep == FrameInv /\ DedupInv /\ [Next]_vars => DedupInv'
<1> SUFFICES ASSUME FrameInv, DedupInv, [Next]_vars PROVE DedupInv'
  OBVIOUS
<1> USE DeploymentAssumption
    DEF DedupInv, HolderScans, EndedIsRecorded, ChosenSensorIsFree,
        OpenedInOrder,
        OlderIsEnded, Opened, Idle, rows, threads, bounds, history, Jobs, Scans,
        At
<1>a. TypeOK /\ FramesWellFormed
  BY DEF FrameInv
<1>1. CASE HeartbeatStarts
  BY <1>a, <1>1 DEF HeartbeatStarts, TypeOK, FramesWellFormed
<1>2. ASSUME NEW s \in Sensors, Inject(s)
      PROVE  DedupInv'
  BY <1>a, <1>2 DEF Inject, TypeOK, FramesWellFormed
<1>3. CASE InjectedScanLocks
  BY <1>a, <1>3 DEF InjectedScanLocks, TypeOK, FramesWellFormed
<1>4. ASSUME NEW j \in Scans, Monitor(j)
      PROVE  DedupInv'
  <2>1. PICK inBand \in SUBSET Sensors :
          /\ ticket' = Reconciled(inBand)
          /\ ended' = ended \cup {i \in Incidents : ticket'[i] \in Terminal}
          /\ \/ job' = [job EXCEPT ![j].pc = "clear"]
             \/ \E s \in Sensors :
                  /\ ActiveOf(ticket', s) = {}
                  /\ job' = [job EXCEPT ![j].pc = "create", ![j].sensor = s]
    BY <1>4 DEF Monitor
  <2>2. Opened' = Opened
    BY <1>a, <2>1, ReconciledRows DEF TypeOK
  <2>3. job'[j].pc = "create" =>
          \A i \in Opened : sensor[i] = job'[j].sensor => i \in ended'
    BY <1>a, <1>4, <2>1, <2>2 DEF ActiveOf, Active, TypeOK, Monitor
  <2>4. ended \subseteq ended' /\ EndedIsRecorded'
    BY <2>1
  <2>5. /\ job[j].pc = "monitor" /\ job'[j].pc \in {"clear", "create"}
        /\ \A k \in Jobs \ {j} : job'[k] = job[k]
        /\ UNCHANGED <<sensor, lock>>
    BY <1>a, <1>4 DEF Monitor, TypeOK
  <2> QED BY <2>2, <2>3, <2>4, <2>5
<1>5. ASSUME NEW j \in Scans, Create(j)
      PROVE  DedupInv'
  <2>1. PICK i \in Incidents \ Opened :
          /\ \A k \in Incidents : k < i => k \in Opened
          /\ sensor' = [sensor EXCEPT ![i] = job[j].sensor]
          /\ ticket' = [ticket EXCEPT ![i] = "open"]
    BY <1>5 DEF Create
  <2>2. /\ job[j].pc = "create" /\ lock = j
        /\ job'[j].pc = "commit" /\ \A k \in Jobs \ {j} : job'[k] = job[k]
        /\ UNCHANGED <<lock, ended>>
    BY <1>a, <1>5 DEF Create, TypeOK
  <2>3. Opened' = Opened \cup {i} /\ \A k \in Opened : sensor'[k] = sensor[k]
    BY <1>a, <2>1 DEF TypeOK, Status
  <2>4. EndedIsRecorded'
    BY <1>a, <2>1, <2>2 DEF TypeOK, Terminal
  <2>5. OpenedInOrder' /\ HolderScans'
    BY <1>a, <2>1, <2>2, <2>3
  <2>6. \A k \in Opened : k < i
    BY <2>1 DEF Incidents
  <2>7. OlderIsEnded'
    BY <1>a, <2>1, <2>2, <2>3, <2>6 DEF TypeOK
  <2>8. ChosenSensorIsFree'
    BY <2>1, <2>2, <2>3
  <2> QED BY <2>4, <2>5, <2>7, <2>8
<1>6. ASSUME NEW j \in Jobs, NodeRuns(j)
      PROVE  DedupInv'
  <2> DEFINE i == job[j].incident
  <2>1. /\ i \in Opened /\ sensor[i] \in Sensors /\ job[j].node \in Position \ {"end"}
        /\ job[j].pc = "run"
    BY <1>a, <1>6
    DEF NodeRuns, FrameInv, TypeOK, FramesWellFormed, KnownIsOpened, Driven,
                      ScanDrives, ResumeDrives
  <2>2. PICK e \in Effects(i, job[j].node) :
          /\ e.write = None => UNCHANGED <<ticket, ended>>
          /\ e.write # None => SetTicket(i, e.write)
          /\ job' = [job EXCEPT ![j].pc = "commit", ![j].next = e.next]
    BY <1>6 DEF NodeRuns
  <2>3. e.write \in Status \cup {None}
    BY <2>1, <2>2, EffectTypes
  <2>4. Opened' = Opened /\ ended \subseteq ended' /\ EndedIsRecorded'
    <3>1. CASE e.write = None
      BY <2>2, <3>1
    <3>2. CASE e.write # None
      BY <1>a, <2>1, <2>2, <2>3, <3>2, WrittenRow DEF TypeOK
    <3> QED BY <3>1, <3>2
  <2>5. /\ job'[j].pc = "commit" /\ \A k \in Jobs \ {j} : job'[k] = job[k]
        /\ UNCHANGED <<sensor, lock>>
    BY <1>a, <1>6, <2>2 DEF NodeRuns, TypeOK
  <2> QED BY <2>1, <2>4, <2>5
<1>7. ASSUME NEW j \in Jobs, NodeCommits(j)
      PROVE  DedupInv'
  BY <1>a, <1>7 DEF NodeCommits, TypeOK, FramesWellFormed
<1>8. ASSUME NEW j \in Scans, ScanReturns(j)
      PROVE  DedupInv'
  BY <1>a, <1>8 DEF ScanReturns, TypeOK, FramesWellFormed
<1>9. ASSUME NEW j \in Scans, ScanClears(j)
      PROVE  DedupInv'
  BY <1>a, <1>9 DEF ScanClears, clear_if_resolved, TypeOK, FramesWellFormed
<1>10. ASSUME NEW i \in Incidents, WindowElapses(i)
       PROVE  DedupInv'
  BY <1>a, <1>10 DEF WindowElapses, TypeOK, FramesWellFormed
<1>11. CASE ResumeStarts
  BY <1>a, <1>11 DEF ResumeStarts, Due, TypeOK, FramesWellFormed
<1>12. ASSUME NEW i \in Incidents, ResumeVisits(i)
       PROVE  DedupInv'
  BY <1>a, <1>12 DEF ResumeVisits, TypeOK, FramesWellFormed
<1>13. CASE ResumeEnds
  BY <1>a, <1>13 DEF ResumeEnds, TypeOK, FramesWellFormed
<1>14. CASE ResumeInvokes
  BY <1>a, <1>14 DEF ResumeInvokes, TypeOK, FramesWellFormed
<1>15. CASE ResumeReturns
  BY <1>a, <1>15 DEF ResumeReturns, TypeOK, FramesWellFormed
<1>16. CASE ResumeRegisters
  BY <1>a, <1>16 DEF ResumeRegisters, TypeOK, FramesWellFormed
<1>17. CASE ResumeDiscards
  BY <1>a, <1>17 DEF ResumeDiscards, TypeOK, FramesWellFormed
<1>18. CASE ResumePurges
  BY <1>a, <1>18 DEF ResumePurges, TypeOK, FramesWellFormed
<1>19. CASE ResumeClears
  BY <1>a, <1>19 DEF ResumeClears, clear_if_resolved, TypeOK, FramesWellFormed
<1>20. ASSUME NEW i \in Incidents, NEW v \in Terminal, DecisionRead(i, v)
       PROVE  DedupInv'
  BY <1>a, <1>20 DEF DecisionRead, Status, Terminal, TypeOK, FramesWellFormed
<1>21. CASE DecisionWritten
  <2>1. decision.incident \in Opened /\ decision.verdict \in Status
    BY <1>a, <1>21
    DEF DecisionWritten, FrameInv, TypeOK, FramesWellFormed, KnownIsOpened,
                       Status
  <2>2. /\ SetTicket(decision.incident, decision.verdict)
        /\ UNCHANGED <<sensor, lock, job>>
    BY <1>21 DEF DecisionWritten
  <2>3. Opened' = Opened /\ ended \subseteq ended' /\ EndedIsRecorded'
    BY <1>a, <2>1, <2>2, WrittenRow DEF TypeOK
  <2> QED BY <2>2, <2>3
<1>22. CASE DecisionDropsThread
  BY <1>a, <1>22 DEF DecisionDropsThread, Position, TypeOK, FramesWellFormed
<1>23. CASE DecisionKeepsCheckpoint
  BY <1>a, <1>23 DEF DecisionKeepsCheckpoint, TypeOK, FramesWellFormed
<1>24. CASE DecisionDiscards
  BY <1>a, <1>24 DEF DecisionDiscards, TypeOK, FramesWellFormed
<1>25. CASE DecisionDeactivates
  BY <1>a, <1>25 DEF DecisionDeactivates, TypeOK, FramesWellFormed
<1>26. CASE DecisionRaises
  BY <1>a, <1>26 DEF DecisionRaises, TypeOK, FramesWellFormed
<1>27. CASE OverrideExpires
  BY <1>a, <1>27 DEF OverrideExpires, TypeOK, FramesWellFormed
<1>28. ASSUME NEW j \in Jobs, JobRaises(j)
       PROVE  DedupInv'
  BY <1>a, <1>28 DEF JobRaises, JobsStop, TypeOK, FramesWellFormed
<1>29. CASE SchedulerDies
  BY <1>a, <1>29 DEF SchedulerDies, JobsStop, TypeOK, FramesWellFormed
<1>30. CASE WebDies
  BY <1>a, <1>30 DEF WebDies, JobsStop, TypeOK, FramesWellFormed
<1>31. CASE UNCHANGED vars
  BY <1>31 DEF vars
<1> HIDE DEF DedupInv
<1> QED
  BY <1>1, <1>2, <1>3, <1>4, <1>5, <1>6, <1>7, <1>8, <1>9, <1>10, <1>11, <1>12,
     <1>13, <1>14, <1>15, <1>16, <1>17, <1>18, <1>19, <1>20, <1>21, <1>22,
     <1>23, <1>24, <1>25, <1>26, <1>27, <1>28, <1>29, <1>30, <1>31
  DEF Next, ScanStep, ResumeStep, DecisionStep, GraphStep, Jobs, Scans

(* Deduplication holds in every reachable state.                           *)
LEMMA DedupInvariant == Spec => []DedupInv
BY FrameInvariant, DedupInit, DedupStep, PTL DEF Spec

(***************************************************************************)
(* The scans of the two processes never open a second incident for a       *)
(* sensor with an active one, for every instance: of two active incidents  *)
(* of one sensor the older had been ended and was reopened by a late write *)
(* of its thread.                                                          *)
(***************************************************************************)
THEOREM Deduplicated == Spec => []OneActiveUnlessReopened
<1>1. FrameInv /\ DedupInv => OneActiveUnlessReopened
  BY DeploymentAssumption
  DEF FrameInv, TypeOK, DedupInv, OlderIsEnded, OneActiveUnlessReopened, Opened,
      Active
<1> QED BY <1>1, FrameInvariant, DedupInvariant, PTL

-----------------------------------------------------------------------------
(* The steps of a driver, in the terms of the remaining layers.            *)

(* Where a node leads, and what it writes on the way: the edges by tier.    *)
LeadsOn(i, node, e) ==
  /\ sensor[i] \in AutoSensors /\ node \notin {"gate", "blank"} =>
       /\ e.next \in {"action", "advisory", "verifier", "replan", "end"}
       /\ e.write # "awaiting_approval"
  /\ sensor[i] \in ApproveSensors /\ node \notin {"action", "verifier"} =>
       e.next \in {"advisory", "gate", "blank", "end"}
  /\ node = "gate" => e.next = "gate"
  /\ node = "blank" => e.next = "end" /\ e.write = None
  /\ node = "advisory" => e.next = "end"
  /\ e.next = "end" => node = "blank" \/ e.write \in Terminal \cup {"observing"}
  /\ e.next = "blank" => e.write \in Terminal
  /\ e.write = "awaiting_approval" => e.next \in {"advisory", "gate"}

OtherJobsUnchanged(j) == \A k \in Jobs \ {j} : job'[k] = job[k]

MonitorEffect(j) ==
  /\ Opened' = Opened
  /\ \A i \in Incidents : ticket'[i] \in {ticket[i], "closed"}
  /\ job[j].pc = "monitor" /\ job'[j].pc \in {"clear", "create"}
  /\ job'[j].incident = job[j].incident
  /\ job'[j].node = job[j].node /\ job'[j].next = job[j].next
  /\ OtherJobsUnchanged(j)
  /\ UNCHANGED <<sensor, checkpoint, window, pending, decision, orphaned, decided>>

CreateEffect(j, i) ==
  /\ Opened' = Opened \cup {i} /\ ticket'[i] = "open"
  /\ \A k \in Incidents \ {i} : ticket'[k] = ticket[k] /\ sensor'[k] = sensor[k]
  /\ sensor'[i] = job[j].sensor
  /\ OtherJobsUnchanged(j)
  /\ job[j].pc = "create" /\ job[j].incident = None
  /\ job'[j].pc = "commit" /\ job'[j].incident = i
  /\ job'[j].node = "monitor" /\ job'[j].next = "diagnose"
  /\ i \notin Registered \cup pending /\ i # decision.incident
  /\ \A k \in Jobs : job[k].incident # i
  /\ UNCHANGED <<checkpoint, window, pending, decision, orphaned, decided>>

RunEffect(j, e) ==
  LET i == job[j].incident IN
  /\ i \in Opened /\ i \in Incidents /\ sensor[i] \in Sensors
  /\ job[j].node \in Position \ {"end"} /\ job[j].pc = "run"
  /\ e.write \in Status \cup {None} /\ LeadsOn(i, job[j].node, e)
  /\ \A k \in Incidents \ {i} : ticket'[k] = ticket[k]
  /\ ticket'[i] = IF e.write = None THEN ticket[i] ELSE e.write
  /\ Opened' = Opened
  /\ job'[j].pc = "commit" /\ job'[j].next = e.next
  /\ job'[j].node = job[j].node /\ job'[j].incident = i
  /\ OtherJobsUnchanged(j)
  /\ UNCHANGED <<sensor, checkpoint, window, pending, decision, orphaned, decided>>

CommitEffect(j) ==
  LET i == job[j].incident
      next == IF job[j].next = "replan" THEN "diagnose" ELSE job[j].next
  IN
  /\ i \in Opened /\ i \in Incidents /\ job[j].pc = "commit"
  /\ job[j].next \in Position \cup {"replan"}
  /\ \A k \in Incidents \ {i} : checkpoint'[k] = checkpoint[k]
  /\ checkpoint'[i] = IF job[j].node = "gate" THEN checkpoint[i] ELSE next
  /\ OtherJobsUnchanged(j)
  /\ job'[j].incident = i /\ job'[j].next = None
  /\ IF job[j].node = "gate" \/ job[j].next \in {"verifier", "blank", "end"}
     THEN job'[j].pc = "returned" /\ job'[j].node = None
     ELSE job'[j].pc = "run" /\ job'[j].node = next
  /\ UNCHANGED <<sensor, ticket, window, pending, decision, orphaned, decided>>

ReturnEffect(j) ==
  LET i == job[j].incident IN
  /\ i \in Opened /\ i \in Incidents /\ job[j].pc = "returned"
  /\ OtherJobsUnchanged(j)
  /\ job'[j].incident = None /\ job'[j].pc \in {"idle", "clear"}
  /\ job'[j].node \in {None, job[j].node} /\ job'[j].next \in {None, job[j].next}
  /\ \A k \in Incidents \ {i} : checkpoint'[k] = checkpoint[k] /\ window'[k] = window[k]
  /\ \/ /\ checkpoint[i] \in Suspended
        /\ checkpoint'[i] = checkpoint[i] /\ window'[i] = "waiting"
     \/ /\ checkpoint[i] \notin Suspended
        /\ checkpoint'[i] = None /\ window'[i] = window[i]
  /\ UNCHANGED <<sensor, ticket, pending, decision, orphaned, decided>>

(* The edges of the graph keep the tiers apart, and what ends is settled.   *)
LEMMA EffectPlaces ==
  ASSUME NEW i \in Incidents, sensor[i] \in Sensors,
         NEW node \in Position \ {"end"}, NEW e \in Effects(i, node)
  PROVE  LeadsOn(i, node, e)
<1> USE DeploymentAssumption
    DEF LeadsOn, Sensors, Status, Terminal, Position, Suspended
<1>1. CASE node = "diagnose"
  <2>1. PICK j \in {"approved", "disapproved", "no_diagnosis"} :
          e = [write |-> CriticWrite(i, j), next |-> CriticRoute(i, j)]
    BY <1>1 DEF Effects
  <2>2. CASE sensor[i] \in AutoSensors
    <3>1. sensor[i] \notin ApproveSensors
      BY <2>2
    <3>2. CriticRoute(i, j) = IF is_live_world THEN "advisory"
                              ELSE IF j = "approved" THEN "action"
                              ELSE IF replans_left(i) THEN "replan" ELSE "end"
      BY <2>2, <3>1 DEF CriticRoute
    <3>3. /\ CriticWrite(i, j) \in {"failed", None}
          /\ ~replans_left(i) /\ j # "approved" => CriticWrite(i, j) = "failed"
      BY <2>2, <3>1 DEF CriticWrite
    <3> QED BY <1>1, <2>1, <2>2, <3>1, <3>2, <3>3
  <2>3. CASE sensor[i] \in ApproveSensors
    <3>1. sensor[i] \notin AutoSensors
      BY <2>3
    <3>2. CriticRoute(i, j) = IF is_live_world THEN "advisory"
                              ELSE IF j = "no_diagnosis" THEN "blank" ELSE "gate"
      BY <2>3, <3>1 DEF CriticRoute
    <3>3. CriticWrite(i, j) = IF j = "no_diagnosis" THEN "failed"
                              ELSE IF j = "approved" THEN None
                              ELSE "awaiting_approval"
      BY <2>3, <3>1 DEF CriticWrite
    <3> QED BY <1>1, <2>1, <2>3, <3>1, <3>2, <3>3
  <2> QED BY <2>2, <2>3
<1>2. CASE node # "diagnose"
  BY <1>2 DEF Effects
<1> QED BY <1>1, <1>2

(* What each of these steps changes follows from the frames.               *)
LEMMA MonitorChanges ==
  ASSUME FrameInv, NEW j \in Scans, Monitor(j)
  PROVE  MonitorEffect(j)
<1> USE DEF Jobs, Scans
<1>1. PICK inBand \in SUBSET Sensors :
        /\ ticket' = Reconciled(inBand)
        /\ \/ job' = [job EXCEPT ![j].pc = "clear"]
           \/ \E s \in Sensors :
                job' = [job EXCEPT ![j].pc = "create", ![j].sensor = s]
  BY DEF Monitor
<1>2. /\ Opened' = Opened
      /\ \A i \in Incidents : ticket'[i] \in {ticket[i], "closed"}
  BY <1>1, ReconciledRows DEF FrameInv, TypeOK, Opened
<1> QED
  BY <1>1, <1>2
  DEF Monitor, MonitorEffect, OtherJobsUnchanged, FrameInv, TypeOK, threads,
      bounds,
      history

LEMMA CreateChanges ==
  ASSUME FrameInv, NEW j \in Scans, Create(j)
  PROVE  \E i \in Incidents \ Opened : CreateEffect(j, i)
<1> USE DeploymentAssumption DEF Jobs, Scans, Opened, FrameInv
<1>1. PICK i \in Incidents \ Opened :
        /\ sensor' = [sensor EXCEPT ![i] = job[j].sensor]
        /\ ticket' = [ticket EXCEPT ![i] = "open"]
        /\ job' = [job EXCEPT ![j] = [pc |-> "commit", incident |-> i,
                                      sensor |-> None, node |-> "monitor",
                                      next |-> "diagnose"]]
  BY DEF Create
<1>2. /\ Opened' = Opened \cup {i} /\ ticket'[i] = "open"
      /\ \A k \in Incidents \ {i} : ticket'[k] = ticket[k] /\ sensor'[k] = sensor[k]
      /\ sensor'[i] = job[j].sensor
  BY <1>1 DEF TypeOK, Status
<1>3. /\ OtherJobsUnchanged(j)
      /\ job[j].pc = "create" /\ job[j].incident = None
      /\ job'[j].pc = "commit" /\ job'[j].incident = i
      /\ job'[j].node = "monitor" /\ job'[j].next = "diagnose"
  BY <1>1 DEF Create, OtherJobsUnchanged, TypeOK, FramesWellFormed, ScanDrives
<1>4. UNCHANGED <<checkpoint, window, pending, decision, orphaned, decided>>
  BY DEF Create, threads, history
<1>5. /\ i \notin Registered \cup pending /\ i # decision.incident
      /\ \A k \in Jobs : job[k].incident # i
  BY <1>1 DEF KnownIsOpened, Driven
<1> QED BY <1>2, <1>3, <1>4, <1>5 DEF CreateEffect

LEMMA RunChanges ==
  ASSUME FrameInv, NEW j \in Jobs, NodeRuns(j)
  PROVE  \E e \in Effects(job[j].incident, job[j].node) : RunEffect(j, e)
<1> USE DeploymentAssumption DEF Jobs, Scans, Opened, FrameInv
<1> DEFINE i == job[j].incident
<1>1. /\ i \in Opened /\ i \in Incidents /\ sensor[i] \in Sensors
      /\ job[j].node \in Position \ {"end"} /\ job[j].pc = "run"
  BY DEF NodeRuns, TypeOK, FramesWellFormed, KnownIsOpened, Driven, ScanDrives,
         ResumeDrives
<1>2. PICK e \in Effects(i, job[j].node) :
        /\ e.write = None => UNCHANGED <<ticket, ended>>
        /\ e.write # None => SetTicket(i, e.write)
        /\ job' = [job EXCEPT ![j].pc = "commit", ![j].next = e.next]
  BY DEF NodeRuns
<1>3. e.write \in Status \cup {None} /\ e.next \in Position \cup {"replan"}
  BY <1>1, <1>2, EffectTypes
<1>4. LeadsOn(i, job[j].node, e)
  BY <1>1, <1>2, EffectPlaces
<1>5. /\ \A k \in Incidents \ {i} : ticket'[k] = ticket[k]
      /\ ticket'[i] = IF e.write = None THEN ticket[i] ELSE e.write
  BY <1>1, <1>2 DEF SetTicket, TypeOK
<1>6. Opened' = Opened
  BY <1>1, <1>3, <1>5
<1>7. /\ job'[j].pc = "commit" /\ job'[j].next = e.next
      /\ job'[j].node = job[j].node /\ job'[j].incident = i
      /\ OtherJobsUnchanged(j)
  BY <1>2 DEF TypeOK, OtherJobsUnchanged
<1>8. UNCHANGED <<sensor, checkpoint, window, pending, decision, orphaned, decided>>
  BY DEF NodeRuns, threads
<1> QED BY <1>1, <1>2, <1>3, <1>4, <1>5, <1>6, <1>7, <1>8 DEF RunEffect

LEMMA CommitChanges ==
  ASSUME FrameInv, NEW j \in Jobs, NodeCommits(j)
  PROVE  CommitEffect(j)
<1> USE DeploymentAssumption DEF Jobs, Scans, Opened, FrameInv
<1> DEFINE i == job[j].incident
           next == IF job[j].next = "replan" THEN "diagnose" ELSE job[j].next
           parks == \/ job[j].node = "gate"
                    \/ job[j].next \in {"verifier", "blank", "end"}
<1>1. /\ i \in Opened /\ i \in Incidents /\ job[j].pc = "commit"
      /\ job[j].next \in Position \cup {"replan"}
  BY DEF NodeCommits, TypeOK, FramesWellFormed, KnownIsOpened, Driven,
     ScanDrives,
         ResumeDrives
<1>2. /\ \A k \in Incidents \ {i} : checkpoint'[k] = checkpoint[k]
      /\ checkpoint'[i] = IF job[j].node = "gate" THEN checkpoint[i] ELSE next
  BY <1>1 DEF NodeCommits, TypeOK
<1>3. /\ OtherJobsUnchanged(j)
      /\ job'[j].incident = i /\ job'[j].next = None
      /\ IF parks THEN job'[j].pc = "returned" /\ job'[j].node = None
         ELSE job'[j].pc = "run" /\ job'[j].node = next
  BY DEF NodeCommits, TypeOK, OtherJobsUnchanged
<1>4. UNCHANGED <<sensor, ticket, window, pending, decision, orphaned, decided>>
  BY DEF NodeCommits, rows, history
<1> QED BY <1>1, <1>2, <1>3, <1>4 DEF CommitEffect

LEMMA ReturnChanges ==
  ASSUME FrameInv, NEW j \in Scans, ScanReturns(j)
  PROVE  ReturnEffect(j)
<1> USE DeploymentAssumption DEF Jobs, Scans, Opened, FrameInv, Idle
<1> DEFINE i == job[j].incident
<1>1. i \in Opened /\ i \in Incidents /\ job[j].pc = "returned"
  BY DEF ScanReturns, TypeOK, FramesWellFormed, KnownIsOpened, Driven,
     ScanDrives
<1>2. /\ OtherJobsUnchanged(j)
      /\ job'[j].incident = None /\ job'[j].pc \in {"idle", "clear"}
      /\ job'[j].node \in {None, job[j].node} /\ job'[j].next \in {None, job[j].next}
  BY DEF ScanReturns, TypeOK, OtherJobsUnchanged
<1>3. /\ \A k \in Incidents \ {i} :
           checkpoint'[k] = checkpoint[k] /\ window'[k] = window[k]
      /\ \/ /\ checkpoint[i] \in Suspended
            /\ checkpoint'[i] = checkpoint[i] /\ window'[i] = "waiting"
         \/ /\ checkpoint[i] \notin Suspended
            /\ checkpoint'[i] = None /\ window'[i] = window[i]
  BY <1>1 DEF ScanReturns, TypeOK
<1>4. UNCHANGED <<sensor, ticket, pending, decision, orphaned, decided>>
  BY DEF ScanReturns, rows, history
<1> QED BY <1>1, <1>2, <1>3, <1>4 DEF ReturnEffect

-----------------------------------------------------------------------------
(* Layer 3: where the threads are.  A thread is, with its checkpoint and   *)
(* the frame of the job that drives it, at places its tier allows.         *)

(* A thread's checkpoint and the frame of its driver are at these places.  *)
Within(i, places) ==
  /\ checkpoint[i] \in places
  /\ \A j \in Jobs : job[j].incident = i =>
       job[j].node \in places /\ job[j].next \in places

(* The threads that the resume job has, or may come to have.               *)
Resumable == Registered \cup pending \cup {job["resume"].incident}

(* Only a job inside the graph has a node, and a next one to commit.       *)
BetweenNodes ==
  \A j \in Jobs :
    /\ job[j].pc \in {"run", "commit"} <=> job[j].node # None
    /\ job[j].pc # "commit" => job[j].next = None

(* A driver runs the node of the checkpoint, unless that has been deleted, *)
(* which happens only to registered threads.                               *)
DriverAtCheckpoint ==
  /\ \A j \in Jobs : job[j].pc \in {"run", "commit"} /\ job[j].node # "monitor" =>
       \/ checkpoint[job[j].incident] = job[j].node
       \/ j = "resume" /\ checkpoint[job[j].incident] = None
  /\ \A j \in Scans :
       /\ job[j].pc = "commit" /\ job[j].node = "monitor" =>
            checkpoint[job[j].incident] = None /\ job[j].next = "diagnose"
       /\ job[j].pc = "returned" =>
            checkpoint[job[j].incident] \in Suspended \cup {"end"}
  /\ job["resume"].node # "monitor"

(* A Tier 1 thread never waits for an operator.                            *)
AutoPlaces == {None, "monitor", "diagnose", "action", "advisory", "verifier",
               "replan", "end"}

(* A Tier 3 thread never actuates and never replans.                       *)
ApprovePlaces == {None, "monitor", "diagnose", "advisory", "gate", "blank", "end"}

(* In the hands of the resume job a Tier 3 thread is parked or at its end. *)
PlacesOfTier ==
  \A i \in Opened :
    /\ sensor[i] \in AutoSensors => Within(i, AutoPlaces)
    /\ sensor[i] \in ApproveSensors => Within(i, ApprovePlaces)
    /\ sensor[i] \in ApproveSensors /\ i \in Resumable =>
         Within(i, {None, "gate", "blank", "end"})
    /\ ticket[i] = "awaiting_approval" => sensor[i] \in ApproveSensors

(* The resume job visits a thread once, and purges unregistered ones.      *)
ResumesOnce ==
  /\ job["resume"].incident \notin pending
  /\ At("purge") => job["resume"].incident \notin Registered

UnopenedIsBlank == \A i \in Incidents \ Opened : checkpoint[i] = None

PlaceInv ==
  /\ BetweenNodes /\ DriverAtCheckpoint /\ PlacesOfTier /\ ResumesOnce
  /\ UnopenedIsBlank

(* No thread exists at first.                                              *)
LEMMA PlaceInit == Init => PlaceInv
BY DeploymentAssumption
DEF Init, PlaceInv, BetweenNodes, DriverAtCheckpoint, PlacesOfTier, ResumesOnce,
    UnopenedIsBlank, Opened, Resumable, Registered, At, Idle, Jobs, Scans,
    Position, Suspended

(* Every step takes a thread from an allowed place to an allowed place.    *)
LEMMA PlaceStep == FrameInv /\ PlaceInv /\ [Next]_vars => PlaceInv'
<1> SUFFICES ASSUME FrameInv, PlaceInv, [Next]_vars PROVE PlaceInv'
  OBVIOUS
<1> USE DeploymentAssumption
    DEF PlaceInv, BetweenNodes, DriverAtCheckpoint, PlacesOfTier, ResumesOnce,
        UnopenedIsBlank, Within, AutoPlaces, ApprovePlaces, Opened, Resumable,
        Registered, Idle, rows, threads, bounds, history, Jobs, Scans, At
<1>a. TypeOK /\ FramesWellFormed /\ KnownIsOpened /\ OneDriver
  BY DEF FrameInv
<1>b. /\ TypeOK /\ OneDriver
      /\ \A i \in Opened : sensor[i] \in Sensors
      /\ \A j \in Scans : job[j].incident # None <=> job[j].pc \in ScanDrives
      /\ job["resume"].incident # None <=> job["resume"].pc \in ResumeDrives
      /\ \A i \in Incidents : i \in Resumable => i \in Opened
  BY <1>a DEF TypeOK, FramesWellFormed, KnownIsOpened, Driven
<1>c. DriverAtCheckpoint /\ PlacesOfTier
  OBVIOUS
<1>1. ASSUME NEW j \in Scans, Monitor(j)
      PROVE  PlaceInv'
  <2>1. MonitorEffect(j)
    BY <1>1, MonitorChanges
  <2>2. BetweenNodes'
    BY <1>b, <2>1 DEF MonitorEffect, OtherJobsUnchanged
  <2>3. DriverAtCheckpoint'
    BY <1>b, <2>1 DEF MonitorEffect, OtherJobsUnchanged
  <2>4. PlacesOfTier'
    BY <1>b, <2>1 DEF MonitorEffect, OtherJobsUnchanged
  <2>5. ResumesOnce'
    BY <1>b, <2>1 DEF MonitorEffect, OtherJobsUnchanged
  <2>6. UnopenedIsBlank'
    BY <1>b, <2>1 DEF MonitorEffect, OtherJobsUnchanged
  <2> QED BY <2>2, <2>3, <2>4, <2>5, <2>6
<1>2. ASSUME NEW j \in Jobs, NodeRuns(j)
      PROVE  PlaceInv'
  <2> DEFINE i == job[j].incident
  <2>1. PICK e \in Effects(i, job[j].node) : RunEffect(j, e)
    BY <1>2, RunChanges
  <2>2. BetweenNodes' /\ ResumesOnce' /\ UnopenedIsBlank'
    BY <1>b, <2>1 DEF RunEffect, OtherJobsUnchanged
  <2>3. DriverAtCheckpoint'
    BY <1>b, <2>1 DEF RunEffect, OtherJobsUnchanged, Position, Suspended
  <2>4. Resumable' = Resumable
    BY <2>1 DEF RunEffect, OtherJobsUnchanged
  <2>5. PlacesOfTier'
    <3> SUFFICES ASSUME NEW m \in Opened
                 PROVE  /\ sensor[m] \in AutoSensors => Within(m, AutoPlaces)'
                        /\ sensor[m] \in ApproveSensors => Within(m, ApprovePlaces)'
                        /\ sensor[m] \in ApproveSensors /\ m \in Resumable =>
                             Within(m, {None, "gate", "blank", "end"})'
                        /\ ticket'[m] = "awaiting_approval" => sensor[m] \in ApproveSensors
      BY <2>1, <2>4 DEF RunEffect, OtherJobsUnchanged
    <3>1. CASE m = i
      <4>1. \A k \in Jobs : job'[k].incident = m => k = j
        BY <1>b, <2>1, <3>1 DEF RunEffect, OtherJobsUnchanged, OneDriver
      <4> QED BY <1>b, <2>1, <3>1, <4>1
      DEF RunEffect, OtherJobsUnchanged, LeadsOn, Sensors
    <3>2. CASE m # i
      BY <2>1, <3>2 DEF RunEffect, OtherJobsUnchanged
    <3> QED BY <3>1, <3>2
  <2> QED BY <2>2, <2>3, <2>5
<1>3. ASSUME NEW j \in Jobs, NodeCommits(j)
      PROVE  PlaceInv'
  <2> DEFINE i == job[j].incident
  <2>1. CommitEffect(j)
    BY <1>3, CommitChanges
  <2>2. BetweenNodes' /\ ResumesOnce' /\ UnopenedIsBlank' /\ Resumable' = Resumable
    BY <1>b, <2>1 DEF CommitEffect, OtherJobsUnchanged, Position, Suspended
  <2>3. \A k \in Jobs \ {j} : job[k].incident # i
    BY <1>b, <2>1 DEF CommitEffect, OtherJobsUnchanged, OneDriver
  <2>4. job[j].node = "gate" => checkpoint[i] \in {"gate", None}
    <3>1. \A k \in Jobs : job[k].pc \in {"run", "commit"} /\ job[k].node # "monitor" =>
            \/ checkpoint[job[k].incident] = job[k].node
            \/ k = "resume" /\ checkpoint[job[k].incident] = None
      BY <1>c
    <3> QED BY <2>1, <3>1 DEF CommitEffect, OtherJobsUnchanged
  <2>5. DriverAtCheckpoint'
    <3>1. ASSUME NEW k \in Jobs, job'[k].pc \in {"run", "commit"}, job'[k].node # "monitor"
          PROVE  \/ checkpoint'[job'[k].incident] = job'[k].node
                 \/ k = "resume" /\ checkpoint'[job'[k].incident] = None
      BY <1>b, <2>1, <2>3, <3>1
      DEF CommitEffect, OtherJobsUnchanged, TypeOK, ScanDrives, ResumeDrives
    <3>2. ASSUME NEW k \in Scans
          PROVE  /\ job'[k].pc = "commit" /\ job'[k].node = "monitor" =>
                      checkpoint'[job'[k].incident] = None /\ job'[k].next = "diagnose"
                 /\ job'[k].pc = "returned" =>
                      checkpoint'[job'[k].incident] \in Suspended \cup {"end"}
      BY <1>b, <2>1, <2>3, <2>4, <3>2
      DEF CommitEffect, OtherJobsUnchanged, TypeOK, ScanDrives, Suspended
    <3>3. job'["resume"].node # "monitor"
      BY <2>1 DEF CommitEffect, OtherJobsUnchanged, Position, Suspended
    <3> QED BY <3>1, <3>2, <3>3
  <2>6. PlacesOfTier'
    <3> SUFFICES ASSUME NEW m \in Opened
                 PROVE  /\ sensor[m] \in AutoSensors => Within(m, AutoPlaces)'
                        /\ sensor[m] \in ApproveSensors => Within(m, ApprovePlaces)'
                        /\ sensor[m] \in ApproveSensors /\ m \in Resumable =>
                             Within(m, {None, "gate", "blank", "end"})'
      BY <2>1, <2>2 DEF CommitEffect, OtherJobsUnchanged
    <3>1. CASE m = i
      <4>1. \A k \in Jobs : job'[k].incident = m => k = j
        BY <2>1, <2>3, <3>1 DEF CommitEffect, OtherJobsUnchanged
      <4>2. /\ checkpoint'[m] \in {checkpoint[m], job[j].next, "diagnose"}
            /\ checkpoint'[m] = "diagnose" /\ checkpoint[m] # "diagnose"
                 => job[j].next \in {"replan", "diagnose"}
            /\ checkpoint'[m] = "replan" => checkpoint[m] = "replan"
            /\ job'[j].node \in {None, job[j].next, "diagnose"}
            /\ job'[j].node = "diagnose" => job[j].next \in {"replan", "diagnose"}
            /\ job'[j].next = None
        BY <2>1, <3>1 DEF CommitEffect, OtherJobsUnchanged, Position, Suspended
      <4>3. CASE sensor[m] \in AutoSensors
        <5>1. sensor[m] \notin ApproveSensors
          BY <4>3
        <5>2. /\ checkpoint[m] \in AutoPlaces /\ job[j].node \in AutoPlaces
              /\ job[j].next \in AutoPlaces
          BY <1>c, <3>1, <4>3
        <5>3. /\ checkpoint'[m] \in AutoPlaces /\ job'[j].node \in AutoPlaces
              /\ job'[j].next \in AutoPlaces
          BY <4>2, <5>2
        <5> QED BY <3>1, <4>1, <5>1, <5>3
      <4>4. CASE sensor[m] \in ApproveSensors
        <5>1. sensor[m] \notin AutoSensors
          BY <4>4
        <5>2. /\ checkpoint[m] \in ApprovePlaces /\ job[j].node \in ApprovePlaces
              /\ job[j].next \in ApprovePlaces
              /\ m \in Resumable =>
                   {checkpoint[m], job[j].node, job[j].next}
                     \subseteq {None, "gate", "blank", "end"}
          BY <1>c, <3>1, <4>4
        <5>3. /\ checkpoint'[m] \in ApprovePlaces /\ job'[j].node \in ApprovePlaces
              /\ job'[j].next \in ApprovePlaces
          BY <4>2, <5>2
        <5>4. ASSUME m \in Resumable
              PROVE  /\ checkpoint'[m] \in {None, "gate", "blank", "end"}
                     /\ job'[j].node \in {None, "gate", "blank", "end"}
                     /\ job'[j].next \in {None, "gate", "blank", "end"}
          BY <4>2, <5>2, <5>4
        <5> QED BY <3>1, <4>1, <5>1, <5>3, <5>4, <2>2
      <4> QED BY <4>3, <4>4
    <3>2. CASE m # i
      BY <1>b, <2>1, <3>2 DEF CommitEffect, OtherJobsUnchanged
    <3> QED BY <3>1, <3>2
  <2> QED BY <2>2, <2>5, <2>6
<1>4. ASSUME NEW j \in Scans, ScanReturns(j)
      PROVE  PlaceInv'
  <2> DEFINE i == job[j].incident
  <2>1. ReturnEffect(j)
    BY <1>4, ReturnChanges
  <2>2. \A k \in Jobs \ {j} : job[k].incident # i
    BY <1>b, <2>1 DEF ReturnEffect, OtherJobsUnchanged, OneDriver
  <2>3. BetweenNodes' /\ UnopenedIsBlank' /\ PlacesOfTier'
    <3>1. BetweenNodes' /\ UnopenedIsBlank'
      BY <1>b, <2>1 DEF ReturnEffect, OtherJobsUnchanged
    <3> SUFFICES ASSUME NEW m \in Opened
                 PROVE  /\ sensor[m] \in AutoSensors => Within(m, AutoPlaces)'
                        /\ sensor[m] \in ApproveSensors => Within(m, ApprovePlaces)'
                        /\ sensor[m] \in ApproveSensors /\ m \in Resumable' =>
                             Within(m, {None, "gate", "blank", "end"})'
      BY <2>1, <3>1 DEF ReturnEffect, OtherJobsUnchanged
    <3>2. CASE m = i
      <4>1. \A k \in Jobs : job'[k].incident # m
        BY <1>b, <2>1, <2>2, <3>2 DEF ReturnEffect, OtherJobsUnchanged
      <4> QED BY <2>1, <3>2, <4>1
      DEF ReturnEffect, OtherJobsUnchanged, Suspended
    <3>3. CASE m # i
      <4>1. m \in Resumable' => m \in Resumable
        BY <1>b, <2>1, <3>3 DEF ReturnEffect, OtherJobsUnchanged
      <4> QED BY <2>1, <3>3, <4>1 DEF ReturnEffect, OtherJobsUnchanged
    <3> QED BY <3>2, <3>3
  <2>4. ResumesOnce' /\ DriverAtCheckpoint'
    <3>1. UNCHANGED job["resume"]
      BY <2>1 DEF ReturnEffect, OtherJobsUnchanged
    <3>2. ResumesOnce'
      BY <1>b, <2>1, <2>2, <3>1
      DEF ReturnEffect, OtherJobsUnchanged, ResumeDrives
    <3>3. DriverAtCheckpoint'
      BY <1>b, <2>1, <2>2, <3>1
      DEF ReturnEffect, OtherJobsUnchanged, TypeOK, ScanDrives, ResumeDrives
    <3> QED BY <3>2, <3>3
  <2> QED BY <2>3, <2>4
<1> USE <1>a
    DEF TypeOK, FramesWellFormed, ScanDrives, ResumeDrives, KnownIsOpened,
        OneDriver, Driven, Status, Terminal
<1>5. CASE HeartbeatStarts
  BY <1>5 DEF HeartbeatStarts
<1>6. ASSUME NEW s \in Sensors, Inject(s)
      PROVE  PlaceInv'
  BY <1>6 DEF Inject
<1>7. CASE InjectedScanLocks
  BY <1>7 DEF InjectedScanLocks
<1>8. ASSUME NEW j \in Scans, Create(j)
      PROVE  PlaceInv'
  BY <1>8 DEF Create
<1>9. ASSUME NEW j \in Scans, ScanClears(j)
      PROVE  PlaceInv'
  BY <1>9 DEF ScanClears, clear_if_resolved
<1>10. ASSUME NEW i \in Incidents, WindowElapses(i)
       PROVE  PlaceInv'
  BY <1>10 DEF WindowElapses
<1>11. CASE ResumeStarts
  BY <1>11 DEF ResumeStarts, Due
<1>12. ASSUME NEW i \in Incidents, ResumeVisits(i)
       PROVE  PlaceInv'
  BY <1>12 DEF ResumeVisits
<1>13. CASE ResumeEnds
  BY <1>13 DEF ResumeEnds
<1>14. CASE ResumeInvokes
  BY <1>14 DEF ResumeInvokes
<1>15. CASE ResumeReturns
  BY <1>15 DEF ResumeReturns
<1>16. CASE ResumeRegisters
  BY <1>16 DEF ResumeRegisters
<1>17. CASE ResumeDiscards
  BY <1>17 DEF ResumeDiscards
<1>18. CASE ResumePurges
  BY <1>18 DEF ResumePurges
<1>19. CASE ResumeClears
  BY <1>19 DEF ResumeClears, clear_if_resolved
<1>20. ASSUME NEW i \in Incidents, NEW v \in Terminal, DecisionRead(i, v)
       PROVE  PlaceInv'
  BY <1>20 DEF DecisionRead
<1>21. CASE DecisionWritten
  BY <1>21 DEF DecisionWritten, SetTicket
<1>22. CASE DecisionDropsThread
  BY <1>22 DEF DecisionDropsThread
<1>23. CASE DecisionKeepsCheckpoint
  BY <1>23 DEF DecisionKeepsCheckpoint
<1>24. CASE DecisionDiscards
  BY <1>24 DEF DecisionDiscards
<1>25. CASE DecisionDeactivates
  BY <1>25 DEF DecisionDeactivates
<1>26. CASE DecisionRaises
  BY <1>26 DEF DecisionRaises
<1>27. CASE OverrideExpires
  BY <1>27 DEF OverrideExpires
<1>28. ASSUME NEW j \in Jobs, JobRaises(j)
       PROVE  PlaceInv'
  BY <1>28 DEF JobRaises, JobsStop
<1>29. CASE SchedulerDies
  BY <1>29 DEF SchedulerDies, JobsStop
<1>30. CASE WebDies
  BY <1>30 DEF WebDies, JobsStop
<1>31. CASE UNCHANGED vars
  BY <1>31 DEF vars
<1> HIDE DEF PlaceInv
<1> QED
  BY <1>1, <1>2, <1>3, <1>4, <1>5, <1>6, <1>7, <1>8, <1>9, <1>10, <1>11, <1>12,
     <1>13, <1>14, <1>15, <1>16, <1>17, <1>18, <1>19, <1>20, <1>21, <1>22,
     <1>23, <1>24, <1>25, <1>26, <1>27, <1>28, <1>29, <1>30, <1>31
  DEF Next, ScanStep, ResumeStep, DecisionStep, GraphStep, Jobs, Scans

-----------------------------------------------------------------------------
(* Layer 4: nothing is forgotten.                                          *)

Settled(i) == ticket[i] \in Terminal \cup {"observing"}

(* What is about to be dropped is settled, or an operator has decided it.  *)
EndIsSettled ==
  \A i \in Opened \ decided :
    \/ Settled(i)
    \/ /\ checkpoint[i] \notin {"blank", "end"}
       /\ \A j \in Jobs : job[j].incident = i =>
            /\ job[j].node # "blank" /\ job[j].next \notin {"blank", "end"}
            /\ job[j].pc \notin {"discard", "purge"}

(* A thread to resume loses its checkpoint only to a decision.             *)
OnlyDecisionsDrop ==
  /\ \A i \in Incidents : i \in Resumable /\ checkpoint[i] = None => i \in decided
  /\ decision.pc \in {"drop", "discard", "deactivate"} => decision.incident \in decided

MemoryInv == EndIsSettled /\ OnlyDecisionsDrop /\ NothingForgotten


(* No incident exists at first.                                            *)
LEMMA MemoryInit == Init => MemoryInv
BY DeploymentAssumption
DEF Init, MemoryInv, EndIsSettled, OnlyDecisionsDrop, NothingForgotten, Opened,
    Active,
    Resumable, Registered, Idle, NoDecision, Jobs, Scans, Status, Terminal

(***************************************************************************)
(* Every step keeps track of the active incidents: whoever lets go of a    *)
(* thread has registered it, has settled its row or raises.                *)
(***************************************************************************)
LEMMA MemoryStep == FrameInv /\ PlaceInv /\ MemoryInv /\ [Next]_vars => MemoryInv'
<1> SUFFICES ASSUME FrameInv, PlaceInv, MemoryInv, [Next]_vars PROVE MemoryInv'
  OBVIOUS
<1> USE DeploymentAssumption
    DEF MemoryInv, EndIsSettled, OnlyDecisionsDrop, NothingForgotten, Settled,
        Opened, Active, Resumable, Registered, Driven, Idle, NoDecision, rows,
        threads, bounds, history, Jobs, Scans, At, Terminal
<1>a. TypeOK /\ FramesWellFormed /\ KnownIsOpened /\ OneDriver
  BY DEF FrameInv
<1>c. BetweenNodes /\ DriverAtCheckpoint /\ ResumesOnce /\ UnopenedIsBlank
  BY DEF PlaceInv
<1>b. /\ TypeOK /\ OneDriver
      /\ decision.pc # "idle" => decision.incident \in Incidents
      /\ \A i \in Opened : sensor[i] \in Sensors
      /\ \A j \in Scans : job[j].incident # None <=> job[j].pc \in ScanDrives
      /\ job["resume"].incident # None <=> job["resume"].pc \in ResumeDrives
      /\ \A i \in Incidents : i \in Resumable => i \in Opened
  BY <1>a DEF TypeOK, FramesWellFormed, KnownIsOpened
<1>1. ASSUME NEW j \in Scans, Monitor(j)
      PROVE  MemoryInv'
  <2>1. MonitorEffect(j)
    BY <1>1, MonitorChanges
  <2>2. EndIsSettled'
    BY <1>b, <2>1 DEF MonitorEffect, OtherJobsUnchanged, Status, Terminal
  <2>3. OnlyDecisionsDrop'
    BY <1>b, <2>1 DEF MonitorEffect, OtherJobsUnchanged, Status, Terminal
  <2>4. NothingForgotten'
    BY <1>b, <2>1 DEF MonitorEffect, OtherJobsUnchanged, Status, Terminal
  <2> QED BY <2>2, <2>3, <2>4
<1>2. ASSUME NEW j \in Scans, Create(j)
      PROVE  MemoryInv'
  <2>1. PICK i \in Incidents \ Opened : CreateEffect(j, i)
    BY <1>2, CreateChanges
  <2>2. EndIsSettled'
    BY <1>b, <1>c, <2>1
    DEF CreateEffect, OtherJobsUnchanged, UnopenedIsBlank, Status, Position,
        Suspended
  <2>3. OnlyDecisionsDrop'
    BY <1>b, <1>c, <2>1
    DEF CreateEffect, OtherJobsUnchanged, UnopenedIsBlank, Status, Position,
        Suspended
  <2>4. NothingForgotten'
    BY <1>b, <1>c, <2>1
    DEF CreateEffect, OtherJobsUnchanged, UnopenedIsBlank, Status, Position,
        Suspended
  <2> QED BY <2>2, <2>3, <2>4
<1>3. ASSUME NEW j \in Jobs, NodeRuns(j)
      PROVE  MemoryInv'
  <2> DEFINE i == job[j].incident
  <2>1. PICK e \in Effects(i, job[j].node) : RunEffect(j, e)
    BY <1>3, RunChanges
  <2>2. EndIsSettled'
    <3> SUFFICES ASSUME NEW m \in Opened, m \notin decided, ~Settled(m)'
                 PROVE  /\ checkpoint[m] \notin {"blank", "end"}
                        /\ \A k \in Jobs : job'[k].incident = m =>
                             /\ job'[k].node # "blank"
                             /\ job'[k].next \notin {"blank", "end"}
                             /\ job'[k].pc \notin {"discard", "purge"}
      BY <2>1 DEF RunEffect, OtherJobsUnchanged
    <3>1. CASE m # i
      BY <2>1, <3>1 DEF RunEffect, OtherJobsUnchanged
    <3>2. CASE m = i
      <4>1. \A k \in Jobs : job'[k].incident = m => k = j
        BY <1>b, <2>1, <3>2 DEF RunEffect, OtherJobsUnchanged, OneDriver
      <4>2. job[j].node # "blank"
        BY <2>1, <3>2 DEF RunEffect, OtherJobsUnchanged, LeadsOn
      <4>3. checkpoint[m] \in {job[j].node, None}
        BY <1>c, <2>1, <3>2
        DEF RunEffect, OtherJobsUnchanged, DriverAtCheckpoint, Position,
            Suspended
      <4>4. e.next \notin {"blank", "end"}
        BY <2>1, <3>2, <4>2 DEF RunEffect, OtherJobsUnchanged, LeadsOn, Status
      <4> QED BY <2>1, <4>1, <4>2, <4>3, <4>4
      DEF RunEffect, OtherJobsUnchanged, Position, Suspended
    <3> QED BY <3>1, <3>2
  <2>3. OnlyDecisionsDrop' /\ NothingForgotten'
    BY <1>b, <2>1 DEF RunEffect, OtherJobsUnchanged
  <2> QED BY <2>2, <2>3
<1>4. ASSUME NEW j \in Jobs, NodeCommits(j)
      PROVE  MemoryInv'
  <2> DEFINE i == job[j].incident
  <2>1. CommitEffect(j)
    BY <1>4, CommitChanges
  <2>2. \A k \in Jobs \ {j} : job[k].incident # i
    BY <1>b, <2>1 DEF CommitEffect, OtherJobsUnchanged, OneDriver
  <2>3. i \in decided \/ Settled(i) \/ job[j].next \notin {"blank", "end"}
    BY <2>1 DEF CommitEffect, OtherJobsUnchanged
  <2>4. EndIsSettled'
    <3> SUFFICES ASSUME NEW m \in Opened, m \notin decided, ~Settled(m)
                 PROVE  /\ checkpoint'[m] \notin {"blank", "end"}
                        /\ \A k \in Jobs : job'[k].incident = m =>
                             /\ job'[k].node # "blank"
                             /\ job'[k].next \notin {"blank", "end"}
                             /\ job'[k].pc \notin {"discard", "purge"}
      BY <2>1 DEF CommitEffect, OtherJobsUnchanged
    <3>1. CASE m # i
      BY <2>1, <3>1 DEF CommitEffect, OtherJobsUnchanged
    <3>2. CASE m = i
      <4>1. checkpoint[m] \notin {"blank", "end"} /\ job[j].next \notin {"blank", "end"}
        BY <2>3, <3>2
      <4>2. checkpoint'[m] \notin {"blank", "end"}
        BY <2>1, <3>2, <4>1 DEF CommitEffect, OtherJobsUnchanged
      <4>3. \A k \in Jobs : job'[k].incident = m => k = j
        BY <2>1, <2>2, <3>2 DEF CommitEffect, OtherJobsUnchanged
      <4>4. None \notin {"blank", "end"}
        BY DEF Position, Suspended
      <4>5. job'[j].node # "blank" /\ job'[j].next \notin {"blank", "end"}
        BY <2>1, <4>1, <4>4 DEF CommitEffect, OtherJobsUnchanged
      <4> QED BY <2>1, <4>2, <4>3, <4>5 DEF CommitEffect, OtherJobsUnchanged
    <3> QED BY <3>1, <3>2
  <2>5. Resumable' = Resumable /\ Driven' = Driven
    BY <2>1 DEF CommitEffect, OtherJobsUnchanged
  <2>6. checkpoint'[i] = None => checkpoint[i] = None
    BY <2>1 DEF CommitEffect, OtherJobsUnchanged, Position, Suspended
  <2>7. OnlyDecisionsDrop' /\ NothingForgotten'
    BY <1>b, <2>1, <2>5, <2>6 DEF CommitEffect, OtherJobsUnchanged
  <2> QED BY <2>4, <2>7
<1>5. ASSUME NEW j \in Scans, ScanReturns(j)
      PROVE  MemoryInv'
  <2> DEFINE i == job[j].incident
  <2>1. ReturnEffect(j)
    BY <1>5, ReturnChanges
  <2>2. \A k \in Jobs \ {j} : job[k].incident # i
    BY <1>b, <2>1 DEF ReturnEffect, OtherJobsUnchanged, OneDriver
  <2>3. i \notin Resumable
    BY <1>b, <2>1, <2>2 DEF ReturnEffect, OtherJobsUnchanged, OneDriver
  <2>4. checkpoint[i] \in Suspended \cup {"end"}
    BY <1>c, <2>1 DEF ReturnEffect, OtherJobsUnchanged, DriverAtCheckpoint
  <2>5. None \notin Suspended \cup {"blank", "end"} /\ "end" \notin Suspended
    BY DEF Position, Suspended
  <2>6. EndIsSettled'
    <3> SUFFICES ASSUME NEW m \in Opened, m \notin decided, ~Settled(m)
                 PROVE  /\ checkpoint'[m] \notin {"blank", "end"}
                        /\ \A k \in Jobs : job'[k].incident = m =>
                             /\ job'[k].node # "blank"
                             /\ job'[k].next \notin {"blank", "end"}
                             /\ job'[k].pc \notin {"discard", "purge"}
      BY <2>1 DEF ReturnEffect, OtherJobsUnchanged
    <3>1. \A k \in Jobs : job'[k].incident = m => k # j /\ job[k].incident = m
      BY <2>1 DEF ReturnEffect, OtherJobsUnchanged
    <3>2. checkpoint'[m] \in {checkpoint[m], None}
      BY <2>1 DEF ReturnEffect, OtherJobsUnchanged
    <3>3. checkpoint'[m] \notin {"blank", "end"}
      BY <2>5, <3>2
    <3> QED BY <2>1, <3>1, <3>3 DEF ReturnEffect, OtherJobsUnchanged
  <2>7. OnlyDecisionsDrop'
    <3>1. \A m \in Resumable' : m \in Resumable \/ (m = i /\ checkpoint'[i] \in Suspended)
      BY <2>1 DEF ReturnEffect, OtherJobsUnchanged
    <3> HIDE DEF Resumable
    <3> QED BY <2>1, <2>3, <2>5, <3>1 DEF ReturnEffect, OtherJobsUnchanged
  <2>8. NothingForgotten'
    <3>1. i \in Registered' \/ i \in decided \/ Settled(i)
      BY <2>1, <2>4 DEF ReturnEffect, OtherJobsUnchanged
    <3>2. \A m \in Incidents \ {i} :
            /\ m \in Driven => m \in Driven'
            /\ m \in Registered => m \in Registered'
      BY <2>1 DEF ReturnEffect, OtherJobsUnchanged
    <3>3. ASSUME NEW m \in Incidents, Active(ticket, m), ticket[m] # "observing"
          PROVE  m \in Driven' \cup Registered' \cup orphaned \cup decided
      <4> HIDE DEF Driven, Registered
      <4>1. m \in Driven \cup Registered \cup orphaned \cup decided
        BY <3>3
      <4>2. CASE m = i
        BY <3>1, <3>3, <4>2
      <4>3. CASE m # i
        BY <3>2, <4>1, <4>3
      <4> QED BY <4>2, <4>3
    <3> HIDE DEF Driven, Registered
    <3> QED BY <2>1, <3>3 DEF ReturnEffect, OtherJobsUnchanged
  <2> QED BY <2>6, <2>7, <2>8
<1> USE <1>a, <1>c
    DEF TypeOK, FramesWellFormed, ScanDrives, ResumeDrives, KnownIsOpened,
        OneDriver, BetweenNodes, DriverAtCheckpoint, ResumesOnce,
        UnopenedIsBlank
<1>6. CASE HeartbeatStarts
  BY <1>6 DEF HeartbeatStarts
<1>7. ASSUME NEW s \in Sensors, Inject(s)
      PROVE  MemoryInv'
  BY <1>7 DEF Inject
<1>8. CASE InjectedScanLocks
  BY <1>8 DEF InjectedScanLocks
<1>9. ASSUME NEW j \in Scans, ScanClears(j)
      PROVE  MemoryInv'
  BY <1>9 DEF ScanClears, clear_if_resolved
<1>10. ASSUME NEW i \in Incidents, WindowElapses(i)
       PROVE  MemoryInv'
  BY <1>10 DEF WindowElapses
<1>11. CASE ResumeStarts
  BY <1>11 DEF ResumeStarts, Due
<1>12. ASSUME NEW i \in Incidents, ResumeVisits(i)
       PROVE  MemoryInv'
  BY <1>12 DEF ResumeVisits
<1>13. CASE ResumeEnds
  BY <1>13 DEF ResumeEnds
<1>14. CASE ResumeInvokes
  BY <1>14 DEF ResumeInvokes
<1>15. CASE ResumeReturns
  BY <1>15 DEF ResumeReturns
<1>16. CASE ResumeRegisters
  BY <1>16 DEF ResumeRegisters
<1>17. CASE ResumeDiscards
  BY <1>17 DEF ResumeDiscards
<1>18. CASE ResumePurges
  BY <1>18 DEF ResumePurges
<1>19. CASE ResumeClears
  BY <1>19 DEF ResumeClears, clear_if_resolved
<1>20. ASSUME NEW i \in Incidents, NEW v \in Terminal, DecisionRead(i, v)
       PROVE  MemoryInv'
  BY <1>20 DEF DecisionRead
<1>21. CASE DecisionWritten
  BY <1>21 DEF DecisionWritten, SetTicket
<1>22. CASE DecisionDropsThread
  BY <1>22 DEF DecisionDropsThread
<1>23. CASE DecisionKeepsCheckpoint
  BY <1>23 DEF DecisionKeepsCheckpoint
<1>24. CASE DecisionDiscards
  BY <1>24 DEF DecisionDiscards
<1>25. CASE DecisionDeactivates
  BY <1>25 DEF DecisionDeactivates
<1>26. CASE DecisionRaises
  BY <1>26 DEF DecisionRaises
<1>27. CASE OverrideExpires
  BY <1>27 DEF OverrideExpires
<1>28. ASSUME NEW j \in Jobs, JobRaises(j)
       PROVE  MemoryInv'
  BY <1>28 DEF JobRaises, JobsStop, Dropped
<1>29. CASE SchedulerDies
  BY <1>29 DEF SchedulerDies, JobsStop, Dropped
<1>30. CASE WebDies
  BY <1>30 DEF WebDies, JobsStop, Dropped
<1>31. CASE UNCHANGED vars
  BY <1>31 DEF vars
<1> HIDE DEF MemoryInv
<1> QED
  BY <1>1, <1>2, <1>3, <1>4, <1>5, <1>6, <1>7, <1>8, <1>9, <1>10, <1>11, <1>12,
     <1>13, <1>14, <1>15, <1>16, <1>17, <1>18, <1>19, <1>20, <1>21, <1>22,
     <1>23, <1>24, <1>25, <1>26, <1>27, <1>28, <1>29, <1>30, <1>31
  DEF Next, ScanStep, ResumeStep, DecisionStep, GraphStep, Jobs, Scans

-----------------------------------------------------------------------------
(* Layer 5: no checkpoint is left behind.                                  *)

(* A thread a human may decide stays at the gate.                          *)
WaitsAtGate ==
  \A i \in Incidents : ticket[i] = "awaiting_approval" \/ decision.incident = i =>
    /\ sensor[i] \in ApproveSensors
    /\ i \in Resumable => Within(i, {None, "gate"})
    /\ \A j \in Scans : job[j].incident = i =>
         /\ job[j].pc = "run" => job[j].node \in {"gate", "advisory"}
         /\ job[j].pc = "commit" => job[j].next \in {"gate", "advisory", "end"}
         /\ job[j].pc = "returned" => checkpoint[i] \in {"gate", "end"}

(***************************************************************************)
(* The row is discarded after the thread, and nobody can bring its         *)
(* checkpoint back in between.                                             *)
(***************************************************************************)
DroppedBeforeDiscarded ==
  decision.pc = "discard" =>
    /\ checkpoint[decision.incident] = None \/ decision.incident \in orphaned
    /\ \A j \in Scans : job[j].incident # decision.incident

(***************************************************************************)
(* No checkpoint outlives its thread: what is stored belongs to a driven   *)
(* or a registered thread, or was left behind by a driver that failed.     *)
(***************************************************************************)
CheckpointsAccountedFor ==
  \A i \in Incidents :
    checkpoint[i] # None => i \in Driven \cup Registered \cup orphaned

CheckpointInv == WaitsAtGate /\ DroppedBeforeDiscarded /\ CheckpointsAccountedFor

(* No checkpoint exists at first.                                          *)
LEMMA CheckpointInit == Init => CheckpointInv
BY DeploymentAssumption
DEF Init, CheckpointInv, WaitsAtGate, DroppedBeforeDiscarded,
    CheckpointsAccountedFor,
    Idle, NoDecision, Status

(***************************************************************************)
(* Every step keeps track of the checkpoints: a thread that leaves its     *)
(* driver and the registry is purged, unless the purge failed.             *)
(***************************************************************************)
LEMMA CheckpointStep == FrameInv /\ PlaceInv /\ CheckpointInv /\ [Next]_vars
                        => CheckpointInv'
<1> SUFFICES ASSUME FrameInv, PlaceInv, CheckpointInv, [Next]_vars PROVE CheckpointInv'
  OBVIOUS
<1> USE DeploymentAssumption
    DEF CheckpointInv, WaitsAtGate, DroppedBeforeDiscarded,
        CheckpointsAccountedFor, Within, Opened, Resumable, Registered, Driven,
        Idle, NoDecision, rows, threads, bounds, history, Jobs, Scans, At
<1>a. TypeOK /\ FramesWellFormed /\ KnownIsOpened /\ OneDriver
  BY DEF FrameInv
<1>c. /\ BetweenNodes /\ DriverAtCheckpoint /\ PlacesOfTier
      /\ ResumesOnce /\ UnopenedIsBlank
  BY DEF PlaceInv
<1>b. /\ TypeOK /\ OneDriver
      /\ decision.pc # "idle" => decision.incident \in Incidents
      /\ \A i \in Opened : sensor[i] \in Sensors
      /\ \A j \in Scans : job[j].incident # None <=> job[j].pc \in ScanDrives
      /\ job["resume"].incident # None <=> job["resume"].pc \in ResumeDrives
      /\ \A i \in Incidents : i \in Resumable => i \in Opened
  BY <1>a DEF TypeOK, FramesWellFormed, KnownIsOpened
<1>1. ASSUME NEW j \in Scans, Monitor(j)
      PROVE  CheckpointInv'
  <2>1. MonitorEffect(j)
    BY <1>1, MonitorChanges
  <2>2. WaitsAtGate'
    BY <1>b, <2>1 DEF MonitorEffect, OtherJobsUnchanged, Status, Terminal
  <2>3. DroppedBeforeDiscarded'
    BY <1>b, <2>1 DEF MonitorEffect, OtherJobsUnchanged, Status, Terminal
  <2>4. CheckpointsAccountedFor'
    BY <1>b, <2>1 DEF MonitorEffect, OtherJobsUnchanged, Status, Terminal
  <2> QED BY <2>2, <2>3, <2>4
<1>2. ASSUME NEW j \in Scans, Create(j)
      PROVE  CheckpointInv'
  <2>1. PICK i \in Incidents \ Opened : CreateEffect(j, i)
    BY <1>2, CreateChanges
  <2>2. WaitsAtGate'
    BY <1>b, <1>c, <2>1
    DEF CreateEffect, OtherJobsUnchanged, Status, Terminal, Position, Suspended,
        ScanDrives, ResumeDrives, OneDriver
  <2>3. DroppedBeforeDiscarded'
    BY <1>b, <1>c, <2>1
    DEF CreateEffect, OtherJobsUnchanged, Status, Terminal, Position, Suspended,
        ScanDrives, ResumeDrives, OneDriver
  <2>4. CheckpointsAccountedFor'
    BY <1>b, <1>c, <2>1
    DEF CreateEffect, OtherJobsUnchanged, Status, Terminal, Position, Suspended,
        ScanDrives, ResumeDrives, OneDriver
  <2> QED BY <2>2, <2>3, <2>4
<1>3. ASSUME NEW j \in Jobs, NodeRuns(j)
      PROVE  CheckpointInv'
  <2> DEFINE i == job[j].incident
  <2>1. PICK e \in Effects(i, job[j].node) : RunEffect(j, e)
    BY <1>3, RunChanges
  <2>2. WaitsAtGate'
    <3> SUFFICES ASSUME NEW m \in Incidents,
                        ticket'[m] = "awaiting_approval" \/ decision.incident = m
                 PROVE  /\ sensor[m] \in ApproveSensors
                        /\ m \in Resumable => Within(m, {None, "gate"})'
                        /\ \A k \in Scans : job'[k].incident = m =>
                             /\ job'[k].pc = "run" => job'[k].node \in {"gate", "advisory"}
                             /\ job'[k].pc = "commit" =>
                                  job'[k].next \in {"gate", "advisory", "end"}
                             /\ job'[k].pc = "returned" => checkpoint[m] \in {"gate", "end"}
      BY <2>1 DEF RunEffect, OtherJobsUnchanged
    <3>1. CASE m # i
      BY <2>1, <3>1 DEF RunEffect, OtherJobsUnchanged
    <3>2. CASE m = i
      <4>1. \A k \in Jobs : job'[k].incident = m => k = j
        BY <1>b, <2>1, <3>2 DEF RunEffect, OtherJobsUnchanged, OneDriver
      <4>2. job[j].node \notin {"blank", "gate"} \/ sensor[i] \in ApproveSensors
        BY <1>c, <2>1
        DEF RunEffect, OtherJobsUnchanged, PlacesOfTier, AutoPlaces, Position,
            Suspended, Sensors
      <4>3. sensor[m] \in ApproveSensors
        BY <2>1, <3>2, <4>2 DEF RunEffect, OtherJobsUnchanged, LeadsOn, Sensors
      <4>4. j \in Scans => e.next \in {"gate", "advisory", "end"}
        BY <2>1, <3>2
        DEF RunEffect, OtherJobsUnchanged, LeadsOn, Position, Suspended
      <4>5. ASSUME m \in Resumable
            PROVE  job[j].node = "gate" /\ checkpoint[m] \in {None, "gate"}
        <5>1. job[j].node \in {"gate", "blank"} /\ j = "resume"
          BY <1>b, <1>c, <2>1, <3>2, <4>3, <4>5
          DEF RunEffect, OtherJobsUnchanged, PlacesOfTier, OneDriver, Position,
              Suspended
        <5>2. job[j].node # "blank"
          BY <2>1, <3>2, <4>5
          DEF RunEffect, OtherJobsUnchanged, LeadsOn, Position, Suspended
        <5>3. checkpoint[i] \in {job[j].node, None}
          BY <1>c, <2>1, <5>1
          DEF RunEffect, OtherJobsUnchanged, DriverAtCheckpoint
        <5> QED BY <3>2, <5>1, <5>2, <5>3
      <4> QED BY <2>1, <3>2, <4>1, <4>3, <4>4, <4>5
      DEF RunEffect, OtherJobsUnchanged, LeadsOn
    <3> QED BY <3>1, <3>2
  <2>3. DroppedBeforeDiscarded' /\ CheckpointsAccountedFor'
    BY <1>b, <2>1 DEF RunEffect, OtherJobsUnchanged
  <2> QED BY <2>2, <2>3
<1>4. ASSUME NEW j \in Jobs, NodeCommits(j)
      PROVE  CheckpointInv'
  <2> DEFINE i == job[j].incident
  <2>1. CommitEffect(j)
    BY <1>4, CommitChanges
  <2>2. WaitsAtGate'
    BY <1>b, <1>c, <2>1
    DEF CommitEffect, OtherJobsUnchanged, Status, Terminal, Position, Suspended,
        ScanDrives, ResumeDrives, OneDriver, DriverAtCheckpoint, BetweenNodes
  <2>3. DroppedBeforeDiscarded'
    BY <1>b, <1>c, <2>1
    DEF CommitEffect, OtherJobsUnchanged, Status, Terminal, Position, Suspended,
        ScanDrives, ResumeDrives, OneDriver, DriverAtCheckpoint, BetweenNodes
  <2>4. CheckpointsAccountedFor'
    BY <1>b, <1>c, <2>1
    DEF CommitEffect, OtherJobsUnchanged, Status, Terminal, Position, Suspended,
        ScanDrives, ResumeDrives, OneDriver, DriverAtCheckpoint, BetweenNodes
  <2> QED BY <2>2, <2>3, <2>4
<1>5. ASSUME NEW j \in Scans, ScanReturns(j)
      PROVE  CheckpointInv'
  <2> DEFINE i == job[j].incident
  <2>1. ReturnEffect(j)
    BY <1>5, ReturnChanges
  <2>2. WaitsAtGate'
    BY <1>b, <1>c, <2>1
    DEF ReturnEffect, OtherJobsUnchanged, Status, Terminal, Position, Suspended,
        ScanDrives, ResumeDrives, OneDriver
  <2>3. DroppedBeforeDiscarded'
    BY <1>b, <1>c, <2>1
    DEF ReturnEffect, OtherJobsUnchanged, Status, Terminal, Position, Suspended,
        ScanDrives, ResumeDrives, OneDriver
  <2>4. CheckpointsAccountedFor'
    BY <1>b, <1>c, <2>1
    DEF ReturnEffect, OtherJobsUnchanged, Status, Terminal, Position, Suspended,
        ScanDrives, ResumeDrives, OneDriver
  <2> QED BY <2>2, <2>3, <2>4
<1> USE <1>a, <1>c
    DEF TypeOK, FramesWellFormed, ScanDrives, ResumeDrives, KnownIsOpened,
        OneDriver, BetweenNodes, DriverAtCheckpoint, ResumesOnce, PlacesOfTier
<1>6. CASE HeartbeatStarts
  BY <1>6 DEF HeartbeatStarts
<1>7. ASSUME NEW s \in Sensors, Inject(s)
      PROVE  CheckpointInv'
  BY <1>7 DEF Inject
<1>8. CASE InjectedScanLocks
  BY <1>8 DEF InjectedScanLocks
<1>9. ASSUME NEW j \in Scans, ScanClears(j)
      PROVE  CheckpointInv'
  BY <1>9 DEF ScanClears, clear_if_resolved
<1>10. ASSUME NEW i \in Incidents, WindowElapses(i)
       PROVE  CheckpointInv'
  BY <1>10 DEF WindowElapses
<1>11. CASE ResumeStarts
  BY <1>11 DEF ResumeStarts, Due
<1>12. ASSUME NEW i \in Incidents, ResumeVisits(i)
       PROVE  CheckpointInv'
  BY <1>12 DEF ResumeVisits
<1>13. CASE ResumeEnds
  BY <1>13 DEF ResumeEnds
<1>14. CASE ResumeInvokes
  BY <1>14 DEF ResumeInvokes
<1>15. CASE ResumeReturns
  BY <1>15 DEF ResumeReturns
<1>16. CASE ResumeRegisters
  BY <1>16 DEF ResumeRegisters
<1>17. CASE ResumeDiscards
  BY <1>17 DEF ResumeDiscards
<1>18. CASE ResumePurges
  BY <1>18 DEF ResumePurges
<1>19. CASE ResumeClears
  BY <1>19 DEF ResumeClears, clear_if_resolved
<1>20. ASSUME NEW i \in Incidents, NEW v \in Terminal, DecisionRead(i, v)
       PROVE  CheckpointInv'
  BY <1>20 DEF DecisionRead
<1>21. CASE DecisionWritten
  BY <1>21 DEF DecisionWritten, SetTicket
<1>22. CASE DecisionDropsThread
  BY <1>22 DEF DecisionDropsThread
<1>23. CASE DecisionKeepsCheckpoint
  BY <1>23 DEF DecisionKeepsCheckpoint
<1>24. CASE DecisionDiscards
  BY <1>24 DEF DecisionDiscards
<1>25. CASE DecisionDeactivates
  BY <1>25 DEF DecisionDeactivates
<1>26. CASE DecisionRaises
  BY <1>26 DEF DecisionRaises
<1>27. CASE OverrideExpires
  BY <1>27 DEF OverrideExpires
<1>28. ASSUME NEW j \in Jobs, JobRaises(j)
       PROVE  CheckpointInv'
  BY <1>28 DEF JobRaises, JobsStop, Dropped
<1>29. CASE SchedulerDies
  BY <1>29 DEF SchedulerDies, JobsStop, Dropped
<1>30. CASE WebDies
  BY <1>30 DEF WebDies, JobsStop, Dropped
<1>31. CASE UNCHANGED vars
  BY <1>31 DEF vars
<1> HIDE DEF CheckpointInv
<1> QED
  BY <1>1, <1>2, <1>3, <1>4, <1>5, <1>6, <1>7, <1>8, <1>9, <1>10, <1>11, <1>12,
     <1>13, <1>14, <1>15, <1>16, <1>17, <1>18, <1>19, <1>20, <1>21, <1>22,
     <1>23, <1>24, <1>25, <1>26, <1>27, <1>28, <1>29, <1>30, <1>31
  DEF Next, ScanStep, ResumeStep, DecisionStep, GraphStep, Jobs, Scans

(* Layers 3 to 5 hold in every reachable state.                            *)
LEMMA StoresInvariant == Spec => [](MemoryInv /\ CheckpointInv)
<1>1. Spec => []PlaceInv
  BY FrameInvariant, PlaceInit, PlaceStep, PTL DEF Spec
<1>2. Spec => []MemoryInv
  BY <1>1, FrameInvariant, MemoryInit, MemoryStep, PTL DEF Spec
<1>3. Spec => []CheckpointInv
  BY <1>1, FrameInvariant, CheckpointInit, CheckpointStep, PTL DEF Spec
<1> QED BY <1>2, <1>3, PTL

(***************************************************************************)
(* No incident is forgotten, for every instance: an active incident that   *)
(* is not merely watched is driven by a job or known to the registry,      *)
(* unless its driver failed or an operator has decided it.                 *)
(***************************************************************************)
THEOREM IncidentsRemembered == Spec => []NothingForgotten
<1>1. MemoryInv => NothingForgotten
  BY DEF MemoryInv
<1> QED BY <1>1, StoresInvariant, PTL

(***************************************************************************)
(* No checkpoint outlives its thread, for every instance: what is stored   *)
(* belongs to a driven or registered thread or was left by a failure.      *)
(***************************************************************************)
THEOREM CheckpointsPurged == Spec => []CheckpointsAccountedFor
<1>1. CheckpointInv => CheckpointsAccountedFor
  BY DEF CheckpointInv
<1> QED BY <1>1, StoresInvariant, PTL

-----------------------------------------------------------------------------
(* Custody: the deployment implements ThreadCustody.  Every step passes at *)
(* most one thread on, or is a failure.                                    *)

(***************************************************************************)
(* Two jobs never drive one thread, and a scan never one that the registry *)
(* or the resume job's list of due threads knows, for every instance: the  *)
(* resume job needs no lock.                                               *)
(***************************************************************************)
THEOREM DriversApart == Spec => []OneDriver
<1>1. FrameInv => OneDriver
  BY DEF FrameInv
<1> QED BY <1>1, FrameInvariant, PTL

(* The holder of a thread changes with these alone.                        *)
LEMMA HoldersStay ==
  ASSUME \A k \in Incidents :
           /\ ticket'[k] = None <=> ticket[k] = None
           /\ window'[k] = "absent" <=> window[k] = "absent"
           /\ k \notin Driven \cup Registered \cup pending =>
                checkpoint'[k] = checkpoint[k] /\ (k \in orphaned' <=> k \in orphaned),
         \A j \in Jobs : job'[j].incident = job[j].incident,
         pending' = pending
  PROVE  \A k \in Incidents : Custody(k)' = Custody(k)
<1> SUFFICES ASSUME NEW k \in Incidents PROVE Custody(k)' = Custody(k)
  OBVIOUS
<1>1. CASE k \in Driven \cup Registered \cup pending
  BY <1>1, DeploymentAssumption DEF Custody, Driven, Registered, Jobs, Scans
<1>2. CASE k \notin Driven \cup Registered \cup pending
  BY <1>2 DEF Custody, Driven, Registered, Jobs, Scans
<1> QED BY <1>1, <1>2

(* A step that passes thread i on and leaves the others with their holders. *)
LEMMA HandedOver ==
  ASSUME NEW i \in Incidents,
         \A k \in Incidents \ {i} : Custody(k)' = Custody(k)
  PROVE  Threads!Passes(i, Custody(i), Custody(i)')
BY DEF Threads!Passes

(* Thread k stays where it is, or is dropped by a failure.                 *)
KeptOrDropped(k) ==
  \/ Custody(k)' = Custody(k)
  \/ Custody(k) = "resume" /\ Custody(k)' = "registry"
  \/ /\ Custody(k) \in {"scan", "registry", "resume"}
     /\ \/ Custody(k)' = "lost"
        \/ Custody(k)' = "done" /\ checkpoint[k] = None

(* A step that only a failure can explain.                                 *)
LEMMA Failed ==
  ASSUME \A k \in Incidents : KeptOrDropped(k), UNCHANGED checkpoint
  PROVE  Threads!Next
<1>1. [k \in Incidents |-> Custody(k)]' \in [Incidents -> Threads!Holders]
  BY DEF Custody, Threads!Holders
<1>2. ASSUME NEW k \in Incidents
      PROVE  \/ [i \in Incidents |-> Custody(i)]'[k] = [i \in Incidents |-> Custody(i)][k]
             \/ Threads!Drops(k)
  BY DEF KeptOrDropped, Threads!Drops
<1> QED BY <1>1, <1>2 DEF Threads!Next, Threads!Fail

(* A step that changes neither the holders nor the checkpoints.            *)
LEMMA NothingHappens ==
  ASSUME \A k \in Incidents : Custody(k)' = Custody(k), UNCHANGED checkpoint
  PROVE  UNCHANGED Threads!custodyVars
BY DEF Threads!custodyVars

(* Nobody holds a thread at first.                                         *)
LEMMA CustodyInit == Init => Threads!Init
BY DEF Init, Threads!Init, Custody

(* Only one scan drives a thread: it has the lock.                         *)
LEMMA OneScan ==
  ASSUME FrameInv, DedupInv, NEW j \in Scans, job[j].pc \in {"create"} \cup ScanDrives
  PROVE  \A k \in Scans \ {j} : job[k].incident = None
BY DEF FrameInv, FramesWellFormed, DedupInv, HolderScans, ScanDrives, Scans

(***************************************************************************)
(* Jobs that let go of their threads and of the list: what is still stored *)
(* of an unregistered thread is known to have been left behind.            *)
(***************************************************************************)
LEMMA JobsLetGo ==
  ASSUME FrameInv, CheckpointsAccountedFor',
         \A j \in Jobs : job'[j].incident \in {job[j].incident, None},
         pending' \subseteq pending \cup Registered,
         orphaned \subseteq orphaned', orphaned' \subseteq orphaned \cup Driven,
         UNCHANGED <<ticket, checkpoint, window>>
  PROVE  Threads!Next
<1>1. ASSUME NEW k \in Incidents
      PROVE  KeptOrDropped(k)
  <2> USE DeploymentAssumption DEF Driven, Registered, Jobs, Scans
  <2>1. /\ k # None
        /\ \A j \in Scans : job[j].incident = k =>
             k \notin Registered \cup pending /\ job["resume"].incident # k
    BY DEF FrameInv, OneDriver
  <2>2. checkpoint'[k] # None => k \in Driven' \cup Registered' \cup orphaned'
    BY DEF CheckpointsAccountedFor
  <2>3. CASE k \in Driven' \cup Registered' \cup pending'
    BY <2>1, <2>3 DEF Custody, KeptOrDropped
  <2>4. CASE k \notin Driven' \cup Registered' \cup pending'
    <3>1. Custody(k)' \in {"none", "lost", "done"}
      BY <2>4 DEF Custody
    <3>2. Custody(k)' = "done" => checkpoint[k] = None
      BY <2>2, <2>4 DEF Custody
    <3>3. CASE k \in Driven \cup Registered \cup pending
      BY <3>1, <3>2, <3>3 DEF Custody, KeptOrDropped
    <3>4. CASE k \notin Driven \cup Registered \cup pending
      BY <2>4, <3>4 DEF Custody, KeptOrDropped
    <3> QED BY <3>3, <3>4
  <2> QED BY <2>3, <2>4
<1> QED BY <1>1, Failed

(* Stopped jobs give up their threads, and the resume job its list.        *)
LEMMA CustodyStops ==
  ASSUME FrameInv, CheckpointsAccountedFor', NEW J \in SUBSET Jobs, JobsStop(J)
  PROVE  Threads!Next
<1>1. /\ \A j \in Jobs : job'[j].incident \in {job[j].incident, None}
      /\ pending' \subseteq pending
      /\ UNCHANGED <<ticket, checkpoint, window>>
      /\ orphaned \subseteq orphaned' /\ orphaned' \subseteq orphaned \cup Driven
  BY DEF JobsStop, Idle, rows, threads, Dropped, Driven
<1> QED BY <1>1, JobsLetGo

(* Every step of the deployment is one of ThreadCustody, or none there.    *)
LEMMA CustodyStep ==
  FrameInv /\ DedupInv /\ ResumesOnce /\ CheckpointInv /\ CheckpointInv'
    /\ [Next]_vars
    => [Threads!Next]_(Threads!custodyVars)
<1> SUFFICES ASSUME FrameInv, DedupInv, ResumesOnce, CheckpointInv, CheckpointInv',
                    [Next]_vars
             PROVE  [Threads!Next]_(Threads!custodyVars)
  OBVIOUS
<1> USE DeploymentAssumption DEF rows, threads, bounds, history, Jobs, Scans, At
<1>a. /\ TypeOK /\ OneDriver
      /\ \A j \in Scans : job[j].incident # None <=> job[j].pc \in ScanDrives
      /\ job["resume"].incident # None <=> job["resume"].pc \in ResumeDrives
      /\ \A i \in Incidents :
           i \in Driven \cup Registered \cup pending \cup {decision.incident}
             => ticket[i] # None
  BY DEF FrameInv, FramesWellFormed, KnownIsOpened
<1>b. CheckpointsAccountedFor'
  BY DEF CheckpointInv
<1>1. CASE HeartbeatStarts
  <2>1. \A j \in Jobs : job'[j].incident = job[j].incident
    BY <1>1, <1>a DEF HeartbeatStarts, TypeOK
  <2> QED BY <1>1, <2>1, HoldersStay, NothingHappens DEF HeartbeatStarts
<1>2. ASSUME NEW s \in Sensors, Inject(s)
      PROVE  UNCHANGED Threads!custodyVars
  <2>1. \A j \in Jobs : job'[j].incident = job[j].incident
    BY <1>2, <1>a DEF Inject, TypeOK
  <2> QED BY <1>2, <2>1, HoldersStay, NothingHappens DEF Inject
<1>3. CASE InjectedScanLocks
  <2>1. \A j \in Jobs : job'[j].incident = job[j].incident
    BY <1>3, <1>a DEF InjectedScanLocks, TypeOK
  <2> QED BY <1>3, <2>1, HoldersStay, NothingHappens DEF InjectedScanLocks
<1>4. ASSUME NEW j \in Scans, Monitor(j)
      PROVE  UNCHANGED Threads!custodyVars
  <2>1. MonitorEffect(j)
    BY <1>4, MonitorChanges
  <2>2. /\ \A k \in Jobs : job'[k].incident = job[k].incident
        /\ \A k \in Incidents : ticket'[k] = None <=> ticket[k] = None
    BY <2>1 DEF MonitorEffect, OtherJobsUnchanged, Opened
  <2> QED BY <2>1, <2>2, HoldersStay, NothingHappens DEF MonitorEffect
<1>5. ASSUME NEW j \in Scans, Create(j)
      PROVE  Threads!Next
  <2>1. PICK i \in Incidents \ Opened : CreateEffect(j, i)
    BY <1>5, CreateChanges
  <2>2. \A k \in Scans : job[k].incident = None
    BY <2>1, OneScan DEF CreateEffect
  <2>3. Custody(i) = "none" /\ Custody(i)' = "scan"
    BY <2>1 DEF Custody, CreateEffect, Opened
  <2>4. \A k \in Incidents \ {i} : Custody(k)' = Custody(k)
    BY <2>1 DEF Custody, CreateEffect, OtherJobsUnchanged
  <2>5. \A k \in Incidents : Custody(k) # "scan"
    BY <2>2 DEF Custody
  <2>6. Threads!Begin(i)
    BY <2>1, <2>3, <2>4, <2>5, HandedOver
    DEF Threads!Begin, Threads!Nobody, CreateEffect
  <2> QED BY <2>6 DEF Threads!Next
<1>6. ASSUME NEW j \in Jobs, NodeRuns(j)
      PROVE  UNCHANGED Threads!custodyVars
  <2>1. PICK e \in Effects(job[j].incident, job[j].node) : RunEffect(j, e)
    BY <1>6, RunChanges
  <2>2. /\ \A k \in Jobs : job'[k].incident = job[k].incident
        /\ \A k \in Incidents : ticket'[k] = None <=> ticket[k] = None
    BY <2>1 DEF RunEffect, OtherJobsUnchanged, Opened
  <2> QED BY <2>1, <2>2, HoldersStay, NothingHappens DEF RunEffect
<1>7. ASSUME NEW j \in Jobs, NodeCommits(j)
      PROVE  [Threads!Next]_(Threads!custodyVars)
  <2> DEFINE i == job[j].incident
  <2>1. CommitEffect(j)
    BY <1>7, CommitChanges
  <2>2. \A k \in Jobs : job'[k].incident = job[k].incident
    BY <2>1 DEF CommitEffect, OtherJobsUnchanged
  <2>3. \A k \in Incidents : Custody(k)' = Custody(k)
    <3>1. \A k \in Incidents \ Driven : checkpoint'[k] = checkpoint[k]
      BY <2>1 DEF CommitEffect, Driven
    <3> QED BY <2>1, <2>2, <3>1, HoldersStay DEF CommitEffect
  <2>4. CASE job[j].node = "gate"
    BY <2>1, <2>3, <2>4, <1>7, NothingHappens DEF NodeCommits
  <2>5. CASE job[j].node # "gate"
    <3>1. Custody(i) \in {"scan", "resume"} /\ i \in Incidents
      BY <1>a, <2>1 DEF CommitEffect, Custody, Opened
    <3>2. \E p \in Position : checkpoint' = [checkpoint EXCEPT ![i] = p]
      BY <1>7, <2>1, <2>5 DEF NodeCommits, CommitEffect, Position
    <3>3. Threads!Advance(i)
      BY <2>3, <3>1, <3>2 DEF Threads!Advance
    <3> QED BY <3>1, <3>3 DEF Threads!Next
  <2> QED BY <2>4, <2>5
<1>8. ASSUME NEW j \in Scans, ScanReturns(j)
      PROVE  Threads!Next
  <2>1. ReturnEffect(j)
    BY <1>8, ReturnChanges
  <2> PICK i \in Incidents : i = job[j].incident
    BY <2>1 DEF ReturnEffect
  <2>2. i \in Incidents /\ Custody(i) = "scan"
    BY <1>a, <2>1 DEF ReturnEffect, Custody, Opened
  <2>3. \A k \in Scans : job'[k].incident = None
    BY <2>1, OneScan DEF ReturnEffect, OtherJobsUnchanged, ScanDrives
  <2>4. job'["resume"].incident = job["resume"].incident /\ job["resume"].incident # i
    BY <1>a, <2>1, <2>2 DEF ReturnEffect, OtherJobsUnchanged, OneDriver
  <2>5. \A k \in Incidents \ {i} : Custody(k)' = Custody(k)
    BY <2>1, <2>3, <2>4, OneScan
    DEF ReturnEffect, OtherJobsUnchanged, Custody, ScanDrives
  <2>6. CASE checkpoint[i] \in Suspended
    <3>1. Custody(i)' = "registry"
      BY <1>a, <2>1, <2>2, <2>3, <2>4, <2>6 DEF ReturnEffect, Custody, Opened
    <3>2. Threads!Register(i)
      BY <1>8, <2>2, <2>5, <2>6, <3>1, HandedOver
      DEF Threads!Register, ScanReturns
    <3> QED BY <2>2, <3>2 DEF Threads!Next
  <2>7. CASE checkpoint[i] \notin Suspended
    <3>1. Custody(i)' = "done"
      BY <1>a, <2>1, <2>2, <2>3, <2>4, <2>7
      DEF ReturnEffect, Custody, Opened, OneDriver, Registered
    <3>2. Threads!Finish(i)
      BY <1>8, <2>2, <2>5, <2>7, <3>1, HandedOver
      DEF Threads!Finish, ScanReturns
    <3> QED BY <2>2, <3>2 DEF Threads!Next
  <2> QED BY <2>6, <2>7
<1>9. ASSUME NEW j \in Scans, ScanClears(j)
      PROVE  UNCHANGED Threads!custodyVars
  <2>1. \A k \in Jobs : job'[k].incident = job[k].incident
    BY <1>9, <1>a DEF ScanClears, TypeOK, Idle, ScanDrives
  <2> QED BY <1>9, <2>1, HoldersStay, NothingHappens DEF ScanClears
<1>10. ASSUME NEW i \in Incidents, WindowElapses(i)
       PROVE  UNCHANGED Threads!custodyVars
  <2>1. \A k \in Incidents : window'[k] = "absent" <=> window[k] = "absent"
    BY <1>10, <1>a DEF WindowElapses, TypeOK
  <2> QED BY <1>10, <2>1, HoldersStay, NothingHappens DEF WindowElapses
<1>11. CASE ResumeStarts
  <2>1. /\ \A k \in Jobs : job'[k].incident = job[k].incident
        /\ pending' \subseteq Registered
        /\ UNCHANGED <<ticket, checkpoint, window, orphaned>>
    BY <1>11, <1>a DEF ResumeStarts, TypeOK, Due, Registered
  <2> QED BY <1>b, <2>1, JobsLetGo
<1>12. ASSUME NEW i \in Incidents, ResumeVisits(i)
       PROVE  Threads!Next
  <2>1. /\ job["resume"].incident = None /\ job'["resume"].incident = i
        /\ \A j \in Scans : job'[j].incident = job[j].incident
        /\ i \in pending /\ pending' = pending \ {i}
        /\ UNCHANGED <<ticket, checkpoint, window, orphaned>>
    BY <1>12, <1>a DEF ResumeVisits, TypeOK, ResumeDrives
  <2>2. \A j \in Scans : job[j].incident # i
    BY <1>a, <2>1 DEF OneDriver
  <2>3. Custody(i) = "registry" /\ Custody(i)' = "resume"
    BY <1>a, <2>1, <2>2 DEF Custody
  <2>4. \A k \in Incidents \ {i} : Custody(k)' = Custody(k)
    BY <2>1 DEF Custody
  <2>5. \A k \in Incidents : Custody(k) # "resume"
    BY <2>1 DEF Custody
  <2>6. Threads!Take(i)
    BY <2>1, <2>3, <2>4, <2>5, HandedOver DEF Threads!Take, Threads!Nobody
  <2> QED BY <2>6 DEF Threads!Next
<1>13. CASE ResumeEnds
  <2>1. \A k \in Jobs : job'[k].incident = job[k].incident
    BY <1>13, <1>a DEF ResumeEnds, TypeOK, Idle, ResumeDrives
  <2> QED BY <1>13, <2>1, HoldersStay, NothingHappens DEF ResumeEnds
<1>14. CASE ResumeInvokes
  <2>1. /\ \A k \in Jobs : job'[k].incident \in {job[k].incident, None}
        /\ pending' \subseteq pending
        /\ UNCHANGED <<ticket, checkpoint, window, orphaned>>
    BY <1>14, <1>a DEF ResumeInvokes, TypeOK, Idle
  <2> QED BY <1>b, <2>1, JobsLetGo
<1>15. CASE ResumeReturns
  <2>1. \A k \in Jobs : job'[k].incident = job[k].incident
    BY <1>15, <1>a DEF ResumeReturns, TypeOK
  <2> QED BY <1>15, <2>1, HoldersStay, NothingHappens DEF ResumeReturns
<1>16. CASE ResumeRegisters
  <2> PICK i \in Incidents : i = job["resume"].incident
    BY <1>16, <1>a DEF ResumeRegisters, TypeOK, ResumeDrives
  <2>1. /\ job'["resume"].incident = None
        /\ \A j \in Scans : job'[j].incident = job[j].incident /\ job[j].incident # i
        /\ window'[i] = "waiting"
        /\ \A k \in Incidents \ {i} : window'[k] = window[k]
        /\ UNCHANGED <<ticket, checkpoint, pending, orphaned>>
    BY <1>16, <1>a DEF ResumeRegisters, TypeOK, ResumeDrives, OneDriver
  <2>2. Custody(i) = "resume" /\ Custody(i)' = "registry"
    BY <1>a, <2>1 DEF Custody, Driven
  <2>3. \A k \in Incidents \ {i} : Custody(k)' = Custody(k)
    BY <2>1 DEF Custody
  <2>4. Threads!GiveBack(i)
    BY <2>1, <2>2, <2>3, HandedOver DEF Threads!GiveBack
  <2> QED BY <2>1, <2>4 DEF Threads!Next
<1>17. CASE ResumeDiscards
  <2> DEFINE i == job["resume"].incident
  <2>1. /\ i \in Incidents
        /\ \A j \in Jobs : job'[j].incident = job[j].incident
        /\ \A k \in Incidents \ {i} : window'[k] = window[k]
        /\ UNCHANGED <<ticket, checkpoint, pending, orphaned>>
    BY <1>17, <1>a DEF ResumeDiscards, TypeOK, ResumeDrives
  <2>2. \A k \in Incidents : Custody(k)' = Custody(k)
    BY <2>1 DEF Custody
  <2> QED BY <2>1, <2>2, NothingHappens
<1>18. CASE ResumePurges
  <2> PICK i \in Incidents : i = job["resume"].incident
    BY <1>18, <1>a DEF ResumePurges, TypeOK, ResumeDrives
  <2>1. /\ job'["resume"].incident = None
        /\ \A j \in Scans : job'[j].incident = job[j].incident /\ job[j].incident # i
        /\ checkpoint' = [checkpoint EXCEPT ![i] = None] /\ checkpoint'[i] = None
        /\ UNCHANGED <<ticket, window, pending, orphaned>>
    BY <1>18, <1>a DEF ResumePurges, TypeOK, ResumeDrives, OneDriver
  <2>2. window[i] = "absent" /\ i \notin pending
    BY <1>18, <2>1 DEF ResumePurges, ResumesOnce, Registered
  <2>3. Custody(i) = "resume" /\ Custody(i)' = "done"
    BY <1>a, <2>1, <2>2 DEF Custody, Driven
  <2>4. \A k \in Incidents \ {i} : Custody(k)' = Custody(k)
    BY <2>1 DEF Custody
  <2>5. Threads!Finish(i)
    BY <2>1, <2>3, <2>4, HandedOver DEF Threads!Finish
  <2> QED BY <2>1, <2>5 DEF Threads!Next
<1>19. CASE ResumeClears
  <2>1. \A k \in Jobs : job'[k].incident = job[k].incident
    BY <1>19, <1>a DEF ResumeClears, TypeOK
  <2> QED BY <1>19, <2>1, HoldersStay, NothingHappens DEF ResumeClears
<1>20. ASSUME NEW i \in Incidents, NEW v \in Terminal, DecisionRead(i, v)
       PROVE  UNCHANGED Threads!custodyVars
  BY <1>20, HoldersStay, NothingHappens DEF DecisionRead
<1>21. CASE DecisionWritten
  <2>1. \A k \in Incidents : ticket'[k] = None <=> ticket[k] = None
    BY <1>21, <1>a
    DEF DecisionWritten, SetTicket, TypeOK, FrameInv, FramesWellFormed, Status,
        Terminal
  <2> QED BY <1>21, <2>1, HoldersStay, NothingHappens DEF DecisionWritten
<1>22. CASE DecisionDropsThread
  <2> PICK i \in Incidents : i = decision.incident
    BY <1>22, <1>a DEF DecisionDropsThread, TypeOK, FrameInv, FramesWellFormed
  <2>1. \A k \in Incidents : Custody(k)' = Custody(k)
    <3>1. \A k \in Incidents \ Registered : checkpoint'[k] = checkpoint[k]
      BY <1>22, <1>a DEF DecisionDropsThread, Registered, TypeOK
    <3> QED BY <1>22, <3>1, HoldersStay DEF DecisionDropsThread
  <2>2. CASE window[i] = "absent"
    BY <1>22, <2>1, <2>2, NothingHappens DEF DecisionDropsThread
  <2>3. CASE window[i] # "absent"
    <3>1. Custody(i) \in {"registry", "resume"}
      BY <1>a, <2>3 DEF Custody, OneDriver, Registered
    <3>2. Threads!Delete(i)
      BY <1>22, <2>1, <2>3, <3>1 DEF Threads!Delete, DecisionDropsThread
    <3> QED BY <3>2 DEF Threads!Next
  <2> QED BY <2>2, <2>3
<1>23. CASE DecisionKeepsCheckpoint
  <2>1. \A k \in Incidents \ Registered : k \in orphaned' <=> k \in orphaned
    BY <1>23 DEF DecisionKeepsCheckpoint, Registered
  <2> QED BY <1>23, <2>1, HoldersStay, NothingHappens DEF DecisionKeepsCheckpoint
<1>24. CASE DecisionDiscards
  <2> PICK i \in Incidents : i = decision.incident
    BY <1>24, <1>a DEF DecisionDiscards, TypeOK, FrameInv, FramesWellFormed
  <2>1. /\ window' = [window EXCEPT ![i] = "absent"]
        /\ UNCHANGED <<ticket, job, checkpoint, pending, orphaned>>
    BY <1>24, <1>a DEF DecisionDiscards, TypeOK, FrameInv, FramesWellFormed
  <2>2. \A k \in Incidents \ {i} : Custody(k)' = Custody(k)
    BY <1>a, <2>1 DEF Custody, TypeOK
  <2>3. KeptOrDropped(i)
    BY <1>a, <1>b, <2>1
    DEF Custody, TypeOK, KeptOrDropped, CheckpointsAccountedFor, Driven, Registered
  <2>4. \A k \in Incidents : KeptOrDropped(k)
    BY <2>2, <2>3 DEF KeptOrDropped
  <2> QED BY <2>1, <2>4, Failed
<1>25. CASE DecisionDeactivates
  BY <1>25, HoldersStay, NothingHappens DEF DecisionDeactivates
<1>26. CASE DecisionRaises
  BY <1>26, HoldersStay, NothingHappens DEF DecisionRaises
<1>27. CASE OverrideExpires
  BY <1>27, HoldersStay, NothingHappens DEF OverrideExpires
<1>28. ASSUME NEW j \in Jobs, JobRaises(j)
       PROVE  Threads!Next
  BY <1>28, <1>b, CustodyStops DEF JobRaises
<1>29. CASE SchedulerDies
  BY <1>29, <1>b, CustodyStops DEF SchedulerDies
<1>30. CASE WebDies
  BY <1>30, <1>b, CustodyStops DEF WebDies
<1>31. CASE UNCHANGED vars
  BY <1>31, HoldersStay, NothingHappens DEF vars
<1> QED
  BY <1>1, <1>2, <1>3, <1>4, <1>5, <1>6, <1>7, <1>8, <1>9, <1>10, <1>11, <1>12,
     <1>13, <1>14, <1>15, <1>16, <1>17, <1>18, <1>19, <1>20, <1>21, <1>22,
     <1>23, <1>24, <1>25, <1>26, <1>27, <1>28, <1>29, <1>30, <1>31
  DEF Next, ScanStep, ResumeStep, DecisionStep, GraphStep

(***************************************************************************)
(* The deployment implements ThreadCustody, for every instance: threads    *)
(* pass from holder to holder although only the scans take a lock, and     *)
(* what nobody holds any more is never driven or written again.            *)
(***************************************************************************)
THEOREM ImplementsCustody == Spec => CustodySpec
<1>1. FrameInv /\ DedupInv /\ PlaceInv /\ CheckpointInv /\ CheckpointInv' /\ [Next]_vars
        => [Threads!Next]_(Threads!custodyVars)
  BY CustodyStep DEF PlaceInv
<1>2. Spec => []PlaceInv
  BY FrameInvariant, PlaceInit, PlaceStep, PTL DEF Spec
<1> QED
  BY <1>1, <1>2, CustodyInit, FrameInvariant, DedupInvariant, StoresInvariant, PTL
  DEF Spec, CustodySpec, Threads!Spec

=============================================================================
