----------------------------- MODULE Reflection -----------------------------
(***************************************************************************)
(* The weekly reflection (core/reflection.py, agents/reflector.py) and the *)
(* two memory tiers it writes: semantic facts in a Qdrant collection       *)
(* (memory/semantic.py) and SOP templates in Postgres                      *)
(* (memory/procedural.py).  A pass is a process started by cron or by hand *)
(* and nothing keeps two of them apart; it may fail at any call.  Humans   *)
(* review the SOPs it queues.                                              *)
(***************************************************************************)
EXTENDS Naturals, Sequences, FiniteSets, Functions

CONSTANTS
  Incidents,   \* incidents, a trajectory in episodic memory once closed
  Types,       \* incident types, the specialists' domains
  TypeOf,      \* the type of each incident's sensor
  Weeks,       \* ISO weeks
  YearOf,      \* the year of each week
  Processes,   \* processes that can run a pass
  Reviewers,   \* humans who review SOPs
  MaxDrafts,   \* bound on what one LLM answer drafts
  MaxPasses,   \* bound on the passes started
  None

ASSUME ReflectionAssumption ==
  /\ TypeOf \in [Incidents -> Types]
  /\ YearOf \in [Weeks -> Nat]
  /\ MaxDrafts \in Nat /\ MaxPasses \in Nat

VARIABLES
  collection,  \* whether the collection of facts has been created
  facts,       \* fact of each SF-{week}-{seq} id
  sops,        \* draft and status of each SOP-{year}-{seq} id
  pass,        \* each process's pass
  listing,     \* each reviewer's last list of pending SOPs
  started      \* passes started so far

vars == <<collection, facts, sops, pass, listing, started>>
stores == <<collection, facts, sops>>

Verdicts == {"met", "missed"}

(* What was drafted is told apart by its pass, its type and its number. *)
Draft == [run : 1 .. MaxPasses, type : Types, nr : 1 .. MaxDrafts]
Statuses == {"pending", "active", "rejected"}
SOPTemplate == [draft : Draft, status : Statuses]

(* A pass: the trajectories of the branches still to run, its drafts not   *)
(* yet stored, how many SOPs it drafted, and the last count a writer took. *)
Idle == [pc |-> "idle", run |-> 0, week |-> None, cases |-> <<>>,
         fact_drafts |-> <<>>, sop_drafts |-> <<>>, drafted |-> 0, n |-> 0]

Pc == {"idle", "reflect", "consolidate", "create", "count", "upsert",
       "queue", "insert"}

Init ==
  /\ collection = FALSE /\ facts = <<>> /\ sops = <<>>
  /\ pass = [p \in Processes |-> Idle]
  /\ listing = [r \in Reviewers |-> <<>>]
  /\ started = 0

At(p, pc) == pass[p].pc = pc
Put(p, state) == pass' = [pass EXCEPT ![p] = state]
Goes(p, pc) == Put(p, [pass[p] EXCEPT !.pc = pc])

-----------------------------------------------------------------------------
(* The graph *)

types(cases) == {TypeOf[i] : i \in DOMAIN cases}
ofType(cases, t) == {i \in DOMAIN cases : TypeOf[i] = t}

(* list_trajectories: the verdicts of whatever incidents had closed in the *)
(* window; then one branch for each type it has.  Bound: MaxPasses.        *)
load_episodes(p) ==
  /\ At(p, "idle") /\ started < MaxPasses
  /\ started' = started + 1
  /\ \E week \in Weeks, closed \in SUBSET Incidents :
       \E cases \in [closed -> Verdicts] :
         Put(p, [Idle EXCEPT !.pc = IF closed = {} THEN "consolidate" ELSE "reflect",
                             !.run = started + 1, !.week = week, !.cases = cases])
  /\ UNCHANGED <<stores, listing>>

(* What one LLM call drafts: nothing when it fails or its answer does.     *)
(* The drafts of a pass have distinct identities.                          *)
Drafted(p, t, k) == [i \in 1 .. k |-> [run |-> pass[p].run, type |-> t, nr |-> i]]

(* Only resolved trajectories make a procedure. *)
resolved(cases, t) == {i \in ofType(cases, t) : cases[i] = "met"}

(* One branch; the reducers append what it returns. *)
reflect(p, t) ==
  LET cases == pass[p].cases
  IN  /\ At(p, "reflect") /\ t \in types(cases)
      /\ \E k \in 0 .. MaxDrafts, l \in 0 .. MaxDrafts :
           /\ resolved(cases, t) = {} => l = 0
           /\ Put(p, [pass[p] EXCEPT
                        !.cases = Restrict(@, DOMAIN @ \ ofType(@, t)),
                        !.fact_drafts = @ \o Drafted(p, t, k),
                        !.sop_drafts = @ \o Drafted(p, t, l),
                        !.drafted = @ + l,
                        !.pc = IF types(cases) = {t} THEN "consolidate" ELSE @])
      /\ UNCHANGED <<stores, listing, started>>

(* An exception outside the caught ones, a lost connection, a kill. *)
Dies(p) ==
  /\ ~At(p, "idle")
  /\ Put(p, Idle)
  /\ UNCHANGED <<stores, listing, started>>

-----------------------------------------------------------------------------
(* save_facts() *)

SavesNothing(p) ==
  /\ At(p, "consolidate") /\ pass[p].fact_drafts = <<>>
  /\ Goes(p, "queue")
  /\ UNCHANGED <<stores, listing, started>>

ChecksCollection(p) ==
  /\ At(p, "consolidate") /\ pass[p].fact_drafts # <<>>
  /\ Goes(p, IF collection THEN "count" ELSE "create")
  /\ UNCHANGED <<stores, listing, started>>

(* create_collection() of one that exists by now fails. *)
CreatesCollection(p) ==
  /\ At(p, "create")
  /\ IF collection THEN Put(p, Idle) ELSE Goes(p, "count")
  /\ collection' = TRUE
  /\ UNCHANGED <<facts, sops, listing, started>>

FactIds(week) == {id \in DOMAIN facts : id[1] = week}

(* Mutant: the count of the whole collection. *)
CountsEverything(p) ==
  /\ At(p, "count")
  /\ Put(p, [pass[p] EXCEPT !.n = Cardinality(DOMAIN facts), !.pc = "upsert"])
  /\ UNCHANGED <<stores, listing, started>>

CountsFacts(p) ==
  /\ At(p, "count")
  /\ Put(p, [pass[p] EXCEPT !.n = Cardinality(FactIds(pass[p].week)), !.pc = "upsert"])
  /\ UNCHANGED <<stores, listing, started>>

(* The ids a writer gives to k drafts after it has counted n. *)
NewIds(scope, n, k) == {<<scope, n + i>> : i \in 1 .. k}

Overlay(f, g) ==
  [id \in DOMAIN f \cup DOMAIN g |-> IF id \in DOMAIN g THEN g[id] ELSE f[id]]

(* Mutant: a batch numbered from one. *)
UpsertsFromOne(p) ==
  /\ At(p, "upsert")
  /\ facts' = Overlay(facts, [id \in NewIds(pass[p].week, 0, Len(pass[p].fact_drafts))
                                 |-> pass[p].fact_drafts[id[2]]])
  /\ Put(p, [pass[p] EXCEPT !.fact_drafts = <<>>, !.n = 0, !.pc = "queue"])
  /\ UNCHANGED <<collection, sops, listing, started>>

(* The point of an id is a function of the id: an upsert replaces it. *)
Upserts(p) ==
  /\ At(p, "upsert")
  /\ facts' = Overlay(facts,
                      [id \in NewIds(pass[p].week, pass[p].n, Len(pass[p].fact_drafts))
                         |-> pass[p].fact_drafts[id[2] - pass[p].n]])
  /\ Put(p, [pass[p] EXCEPT !.fact_drafts = <<>>, !.n = 0, !.pc = "queue"])
  /\ UNCHANGED <<collection, sops, listing, started>>

-----------------------------------------------------------------------------
(* queue_sop() for each draft, a transaction of a count and an insert *)

SopIds(year) == {id \in DOMAIN sops : id[1] = year}

CountsSops(p) ==
  /\ At(p, "queue") /\ pass[p].sop_drafts # <<>>
  /\ Put(p, [pass[p] EXCEPT !.n = Cardinality(SopIds(YearOf[pass[p].week])),
                            !.pc = "insert"])
  /\ UNCHANGED <<stores, listing, started>>

Queued(p) == [pass[p] EXCEPT !.sop_drafts = Tail(@), !.n = 0, !.pc = "queue"]
Pending(p) == [draft |-> Head(pass[p].sop_drafts), status |-> "pending"]

(* Mutant: an insert that replaces the row it conflicts with. *)
InsertsOver(p) ==
  /\ At(p, "insert")
  /\ LET ids == NewIds(YearOf[pass[p].week], pass[p].n, 1)
     IN  sops' = Overlay(sops, [id \in ids |-> Pending(p)])
  /\ Put(p, Queued(p))
  /\ UNCHANGED <<collection, facts, listing, started>>

(* Mutant: an insert that does nothing on a conflict. *)
InsertsOrSkips(p) ==
  /\ At(p, "insert")
  /\ LET ids == NewIds(YearOf[pass[p].week], pass[p].n, 1)
     IN  sops' = Overlay(sops, [id \in ids \ DOMAIN sops |-> Pending(p)])
  /\ Put(p, Queued(p))
  /\ UNCHANGED <<collection, facts, listing, started>>

(* The primary key makes a conflicting insert fail, and the pass with it. *)
Inserts(p) ==
  /\ At(p, "insert")
  /\ LET ids == NewIds(YearOf[pass[p].week], pass[p].n, 1)
     IN  IF ids \subseteq DOMAIN sops
         THEN Put(p, Idle) /\ UNCHANGED sops
         ELSE /\ sops' = Overlay(sops, [id \in ids |-> Pending(p)])
              /\ Put(p, Queued(p))
  /\ UNCHANGED <<collection, facts, listing, started>>

Completes(p) ==
  /\ At(p, "queue") /\ pass[p].sop_drafts = <<>>
  /\ Put(p, Idle)
  /\ UNCHANGED <<stores, listing, started>>

-----------------------------------------------------------------------------
(* The reviewers *)

pending == {id \in DOMAIN sops : sops[id].status = "pending"}

list_pending(r) ==
  /\ listing' = [listing EXCEPT ![r] = [id \in pending |-> sops[id].draft]]
  /\ UNCHANGED <<stores, pass, started>>

(* _set_status() has no condition on the status it replaces, nor on the id *)
(* it is given.  Assumed of reviewers: the id is one they saw listed - the *)
(* approve command they run is the one scripts/run_reflection.py printed.  *)
Reviews(r, id, status) ==
  /\ id \in DOMAIN listing[r] /\ id \in DOMAIN sops
  /\ sops' = [sops EXCEPT ![id].status = status]
  /\ UNCHANGED <<collection, facts, pass, listing, started>>

approve_sop(r) == \E id \in DOMAIN listing[r] : Reviews(r, id, "active")

(* Mutant: a rejected row is deleted, not kept. *)
reject_deletes(r) ==
  \E id \in DOMAIN listing[r] :
    /\ id \in DOMAIN sops /\ sops' = Restrict(sops, DOMAIN sops \ {id})
    /\ UNCHANGED <<collection, facts, pass, listing, started>>

reject_sop(r) == \E id \in DOMAIN listing[r] : Reviews(r, id, "rejected")

-----------------------------------------------------------------------------
PassStep(p) ==
  \/ load_episodes(p) \/ (\E t \in Types : reflect(p, t)) \/ Dies(p)
  \/ SavesNothing(p) \/ ChecksCollection(p) \/ CreatesCollection(p)
  \/ CountsFacts(p) \/ Upserts(p)
  \/ CountsSops(p) \/ Inserts(p) \/ Completes(p)

ReviewStep(r) == list_pending(r) \/ approve_sop(r) \/ reject_sop(r)

Next ==
  \/ \E p \in Processes : PassStep(p)
  \/ \E r \in Reviewers : ReviewStep(r)

Spec == Init /\ [][Next]_vars

-----------------------------------------------------------------------------
(* Properties *)

(***************************************************************************)
(* Types.                                                                  *)
(***************************************************************************)
TypeOK ==
  /\ collection \in BOOLEAN
  /\ DOMAIN facts \subseteq Weeks \X Nat /\ Range(facts) \subseteq Draft
  /\ DOMAIN sops \subseteq {YearOf[w] : w \in Weeks} \X Nat
  /\ Range(sops) \subseteq SOPTemplate
  /\ pass \in [Processes -> [pc : Pc, run : 0 .. MaxPasses, week : Weeks \cup {None},
                             cases : UNION {[S -> Verdicts] : S \in SUBSET Incidents},
                             fact_drafts : Seq(Draft), sop_drafts : Seq(Draft),
                             drafted : Nat, n : Nat]]
  /\ \A r \in Reviewers : /\ DOMAIN listing[r] \subseteq DOMAIN sops
                          /\ Range(listing[r]) \subseteq Draft
  /\ started \in 0 .. MaxPasses

(***************************************************************************)
(* memory/semantic.py:92 _next_seq numbers facts by counting them, which   *)
(* is right only as long as the ids of a week (and the SOP ids of a year)  *)
(* are 1 to their number: passes that race or die must leave no gap.       *)
(***************************************************************************)
IdsAreContiguous ==
  /\ \A w \in Weeks : FactIds(w) = NewIds(w, 0, Cardinality(FactIds(w)))
  /\ \A w \in Weeks : SopIds(YearOf[w]) = NewIds(YearOf[w], 0, Cardinality(SopIds(YearOf[w])))

(***************************************************************************)
(* memory/semantic.py:94 "an exact count is race-free": a fact is replaced *)
(* only by a pass that counted before another pass of that week upserted - *)
(* passes run one after another never lose a fact, whatever died on the    *)
(* way.                                                                    *)
(***************************************************************************)
OnlyRacesReplaceFacts ==
  [][\A id \in DOMAIN facts : facts'[id] # facts[id] =>
        \E p \in Processes : /\ At(p, "upsert") /\ pass[p].week = id[1]
                             /\ pass[p].n < Cardinality(FactIds(id[1]))]_vars

(***************************************************************************)
(* memory/procedural.py:9 "a HUMAN must sign off before it can fire": an   *)
(* SOP becomes active only as the very draft a reviewer saw pending under  *)
(* that id, though passes mint ids by counting while reviewers hold lists. *)
(* It rests on reviewers naming only ids they saw listed; an SOP that was  *)
(* rejected meanwhile may still be approved from an old list.              *)
(***************************************************************************)
ApprovedAsSeen ==
  [][\A id \in DOMAIN sops' :
        sops'[id].status = "active" =>
          \/ id \in DOMAIN sops /\ sops[id] = sops'[id]
          \/ \E r \in Reviewers : /\ id \in DOMAIN listing[r]
                                  /\ listing[r][id] = sops'[id].draft]_vars

(***************************************************************************)
(* core/reflection.py:129 "persist the merged drafts": until it completes  *)
(* or dies, a pass has every SOP it drafted in the table or still to       *)
(* queue.  A conflict of ids is such a death: the insert of                *)
(* core/reflection.py:134 raises, and the draft in hand and all that       *)
(* follow are lost.  It takes another pass to bring it about; a pass alone *)
(* never mints an id of its own again.                                     *)
(***************************************************************************)
DraftsKeptUntilPassEnds ==
  \A p \in Processes :
    /\ pass[p].pc \in {"queue", "insert"} =>
         pass[p].drafted = Len(pass[p].sop_drafts)
           + Cardinality({id \in DOMAIN sops : sops[id].draft.run = pass[p].run})
    /\ At(p, "insert") =>
         \A id \in NewIds(YearOf[pass[p].week], pass[p].n, 1) \cap DOMAIN sops :
           sops[id].draft.run # pass[p].run
=============================================================================
