-------------------------- MODULE ReflectionProofs --------------------------
(***************************************************************************)
(* Proofs about Reflection, for any number of processes, reviewers, weeks  *)
(* and drafts: the ids minted by counting stay contiguous, only a race     *)
(* replaces a fact, a human approves what a human saw, and a pass keeps    *)
(* its drafts until it ends, which takes another pass if an id conflict    *)
(* ends it.                                                                *)
(***************************************************************************)
EXTENDS Reflection, FiniteSetTheorems, FunctionTheorems, TLAPS

-----------------------------------------------------------------------------
(* The ids a count can stand for *)

(* The ids of a week or of a year are the first m of them. *)
Numbered(ids, scope) == \E m \in Nat : ids = NewIds(scope, 0, m)

(* So many ids are given out in one batch: their count is their number. *)
LEMMA CountOfNewIds ==
  ASSUME NEW scope, NEW m \in Nat
  PROVE  IsFiniteSet(NewIds(scope, 0, m)) /\ Cardinality(NewIds(scope, 0, m)) = m
<1> DEFINE f == [i \in 1 .. m |-> <<scope, 0 + i>>]
           T == NewIds(scope, 0, m)
<1>1. IsFiniteSet(1 .. m) /\ Cardinality(1 .. m) = m
  BY FS_Interval
<1>2. f \in Bijection(1 .. m, T)
  <2>1. f \in [1 .. m -> T]
    BY DEF NewIds
  <2>2. \A a, b \in 1 .. m : f[a] = f[b] => a = b
    OBVIOUS
  <2>3. \A t \in T : \E a \in 1 .. m : f[a] = t
    BY DEF NewIds
  <2> QED  BY <2>1, <2>2, <2>3, Fun_IsBij
<1>3. ExistsBijection(1 .. m, T)
  BY <1>2 DEF ExistsBijection
<1> QED  BY <1>1, <1>3, FS_Bijection

LEMMA NumberedIsCounted ==
  ASSUME NEW ids, NEW scope, Numbered(ids, scope)
  PROVE  /\ Cardinality(ids) \in Nat
         /\ ids = NewIds(scope, 0, Cardinality(ids))
BY CountOfNewIds DEF Numbered

-----------------------------------------------------------------------------
(* Types *)

Cases == UNION {[S -> Verdicts] : S \in SUBSET Incidents}

PassState == [pc : Pc, run : 0 .. MaxPasses, week : Weeks \cup {None}, cases : Cases,
              fact_drafts : Seq(Draft), sop_drafts : Seq(Draft), drafted : Nat, n : Nat]

(* A pass under way is one of the passes started, over one of the weeks.    *)
UnderWay(p) == ~At(p, "idle") => pass[p].run \in 1 .. started /\ pass[p].week \in Weeks

TypeInv ==
  /\ collection \in BOOLEAN
  /\ facts \in [DOMAIN facts -> Draft] /\ DOMAIN facts \subseteq Weeks \X Nat
  /\ sops \in [DOMAIN sops -> SOPTemplate]
  /\ DOMAIN sops \subseteq {YearOf[w] : w \in Weeks} \X Nat
  /\ pass \in [Processes -> PassState]
  /\ \A p \in Processes : UnderWay(p)
  /\ listing = [r \in Reviewers |-> listing[r]]
  /\ \A r \in Reviewers : /\ DOMAIN listing[r] \subseteq DOMAIN sops
                          /\ listing[r] \in [DOMAIN listing[r] -> Draft]
  /\ started \in 0 .. MaxPasses

(* What a pass has counted is at most what is there now. *)
Counted(p) ==
  /\ At(p, "insert") => pass[p].sop_drafts # <<>>
  /\ At(p, "upsert") => pass[p].n <= Cardinality(FactIds(pass[p].week))
  /\ At(p, "insert") => pass[p].n <= Cardinality(SopIds(YearOf[pass[p].week]))

NumberInv ==
  /\ \A w \in Weeks : Numbered(FactIds(w), w)
  /\ \A w \in Weeks : Numbered(SopIds(YearOf[w]), YearOf[w])
  /\ \A p \in Processes : Counted(p)

LEMMA EmptyCases == <<>> \in Cases
<1>1. <<>> \in [{} -> Verdicts]
  OBVIOUS
<1> QED  BY <1>1 DEF Cases

LEMMA IdleIsAState == Idle \in PassState
BY EmptyCases, ReflectionAssumption DEF Idle, PassState, Pc

LEMMA EmptyDrafts == <<>> \in Seq(Draft)
OBVIOUS

LEMMA RestrictedCases ==
  ASSUME NEW cases \in Cases, NEW S
  PROVE  Restrict(cases, DOMAIN cases \ S) \in Cases
<1>1. PICK D \in SUBSET Incidents : cases \in [D -> Verdicts]
  BY DEF Cases
<1>2. Restrict(cases, D \ S) \in [D \ S -> Verdicts]
  BY <1>1 DEF Restrict
<1> QED  BY <1>1, <1>2 DEF Cases

(* The drafts of one answer, of a pass that is under way. *)
LEMMA DraftedDrafts ==
  ASSUME TypeInv, NEW p \in Processes, ~At(p, "idle"), NEW t \in Types, NEW k \in 0 .. MaxDrafts
  PROVE  /\ Drafted(p, t, k) \in Seq(Draft)
         /\ Len(Drafted(p, t, k)) = k
         /\ \A i \in 1 .. k : Drafted(p, t, k)[i].run = pass[p].run
<1>1. pass[p].run \in 1 .. MaxPasses
  BY ReflectionAssumption DEF TypeInv, UnderWay
<1>2. k \in Nat /\ \A i \in 1 .. k : i \in 1 .. MaxDrafts
  BY ReflectionAssumption
<1>3. \A i \in 1 .. k : [run |-> pass[p].run, type |-> t, nr |-> i] \in Draft
  BY <1>1, <1>2 DEF Draft
<1> QED  BY <1>2, <1>3 DEF Drafted

LEMMA TypeInit == Init => TypeInv
<1> SUFFICES ASSUME Init PROVE TypeInv
  OBVIOUS
<1>1. /\ pass \in [Processes -> PassState]
      /\ \A p \in Processes : UnderWay(p)
  BY IdleIsAState DEF Init, UnderWay, At, Idle
<1>2. DOMAIN <<>> = {} /\ <<>> \in [{} -> Draft] /\ <<>> \in [{} -> SOPTemplate]
  OBVIOUS
<1>3. /\ facts \in [DOMAIN facts -> Draft] /\ DOMAIN facts \subseteq Weeks \X Nat
      /\ sops \in [DOMAIN sops -> SOPTemplate]
      /\ DOMAIN sops \subseteq {YearOf[w] : w \in Weeks} \X Nat
  BY <1>2 DEF Init
<1>4. /\ listing = [r \in Reviewers |-> listing[r]]
      /\ \A r \in Reviewers : /\ DOMAIN listing[r] \subseteq DOMAIN sops
                              /\ listing[r] \in [DOMAIN listing[r] -> Draft]
  BY <1>2 DEF Init
<1>5. collection \in BOOLEAN
  BY Zenon DEF Init
<1>6. started \in 0 .. MaxPasses
  <2>1. started = 0
    BY DEF Init
  <2> QED  BY <2>1, ReflectionAssumption
<1> QED  BY <1>1, <1>3, <1>4, <1>5, <1>6 DEF TypeInv

(* A step that leaves the stores alone and gives p a state. *)
LEMMA TypePut ==
  ASSUME TypeInv, NEW p \in Processes, NEW s \in PassState, Put(p, s),
         UNCHANGED <<facts, sops, listing>>, collection' \in BOOLEAN,
         started' = started \/ (started' = started + 1 /\ started' \in 0 .. MaxPasses),
         s.pc # "idle" => s.run \in 1 .. started' /\ s.week \in Weeks
  PROVE  TypeInv'
BY DEF TypeInv, UnderWay, Put, At, PassState

LEMMA CountsAreNumbers ==
  ASSUME NumberInv, NEW w \in Weeks
  PROVE  Cardinality(FactIds(w)) \in Nat /\ Cardinality(SopIds(YearOf[w])) \in Nat
BY NumberedIsCounted DEF NumberInv

LEMMA TypePass ==
  ASSUME TypeInv, NumberInv, NEW p \in Processes, PassStep(p)
  PROVE  TypeInv'
<1> USE DEF stores
<1>1. CASE load_episodes(p)
  <2>1. PICK week \in Weeks, closed \in SUBSET Incidents : \E cases \in [closed -> Verdicts] :
          Put(p, [Idle EXCEPT !.pc = IF closed = {} THEN "consolidate" ELSE "reflect",
                              !.run = started + 1, !.week = week, !.cases = cases])
    BY <1>1 DEF load_episodes
  <2>2. PICK cases \in [closed -> Verdicts] :
          Put(p, [Idle EXCEPT !.pc = IF closed = {} THEN "consolidate" ELSE "reflect",
                              !.run = started + 1, !.week = week, !.cases = cases])
    BY <2>1
  <2> DEFINE s == [Idle EXCEPT !.pc = IF closed = {} THEN "consolidate" ELSE "reflect",
                               !.run = started + 1, !.week = week, !.cases = cases]
  <2>3. cases \in Cases
    BY DEF Cases
  <2>4. started + 1 \in 1 .. MaxPasses /\ started' = started + 1
    BY <1>1, ReflectionAssumption DEF load_episodes, TypeInv
  <2>5. s \in PassState /\ s.run = started + 1 /\ s.week = week
    <3>1. started + 1 \in 0 .. MaxPasses /\ started \in Nat
      BY <2>4, ReflectionAssumption DEF TypeInv
    <3>3. (IF closed = {} THEN "consolidate" ELSE "reflect") \in Pc
      BY DEF Pc
    <3> DEFINE pc == IF closed = {} THEN "consolidate" ELSE "reflect"
    <3>4. s = [Idle EXCEPT !.pc = pc, !.run = started + 1, !.week = week, !.cases = cases]
      OBVIOUS
    <3> HIDE DEF s, pc
    <3>5. pc \in Pc
      BY <3>3 DEF pc
    <3> QED  BY <2>3, <3>1, <3>4, <3>5, IdleIsAState DEF PassState
  <2> HIDE DEF s
  <2>6. collection' \in BOOLEAN /\ UNCHANGED <<facts, sops, listing>>
    BY <1>1 DEF load_episodes, TypeInv
  <2>7. Put(p, s)
    BY <2>2 DEF s
  <2> QED  BY <2>4, <2>5, <2>6, <2>7, TypePut DEF TypeInv
<1>2. ASSUME NEW t \in Types, reflect(p, t)
      PROVE  TypeInv'
  <2>0. ~At(p, "idle") /\ pass[p] \in PassState
    BY <1>2 DEF reflect, At, TypeInv
  <2>1. PICK k \in 0 .. MaxDrafts, l \in 0 .. MaxDrafts :
          Put(p, [pass[p] EXCEPT
                    !.cases = Restrict(@, DOMAIN @ \ ofType(@, t)),
                    !.fact_drafts = @ \o Drafted(p, t, k),
                    !.sop_drafts = @ \o Drafted(p, t, l),
                    !.drafted = @ + l,
                    !.pc = IF types(pass[p].cases) = {t} THEN "consolidate" ELSE @])
    BY <1>2 DEF reflect
  <2> DEFINE s == [pass[p] EXCEPT
                    !.cases = Restrict(@, DOMAIN @ \ ofType(@, t)),
                    !.fact_drafts = @ \o Drafted(p, t, k),
                    !.sop_drafts = @ \o Drafted(p, t, l),
                    !.drafted = @ + l,
                    !.pc = IF types(pass[p].cases) = {t} THEN "consolidate" ELSE @]
  <2>2. /\ Restrict(pass[p].cases, DOMAIN pass[p].cases \ ofType(pass[p].cases, t)) \in Cases
        /\ pass[p].fact_drafts \o Drafted(p, t, k) \in Seq(Draft)
        /\ pass[p].sop_drafts \o Drafted(p, t, l) \in Seq(Draft)
    <3>1. pass[p].cases \in Cases /\ pass[p].fact_drafts \in Seq(Draft)
          /\ pass[p].sop_drafts \in Seq(Draft)
      BY <2>0 DEF PassState
    <3>2. Drafted(p, t, k) \in Seq(Draft) /\ Drafted(p, t, l) \in Seq(Draft)
      BY <2>0, DraftedDrafts
    <3>3. /\ pass[p].fact_drafts \o Drafted(p, t, k) \in Seq(Draft)
          /\ pass[p].sop_drafts \o Drafted(p, t, l) \in Seq(Draft)
      <4> HIDE DEF Draft, s
      <4> QED  BY <3>1, <3>2
    <3>4. Restrict(pass[p].cases, DOMAIN pass[p].cases \ ofType(pass[p].cases, t)) \in Cases
      BY <3>1, RestrictedCases
    <3> QED  BY <3>3, <3>4
  <2>3. s \in PassState /\ s.run = pass[p].run /\ s.week = pass[p].week
    <3>1. (IF types(pass[p].cases) = {t} THEN "consolidate" ELSE pass[p].pc) \in Pc
      BY <2>0 DEF PassState, Pc
    <3>2. pass[p].drafted + l \in Nat
      BY <2>0, ReflectionAssumption DEF PassState
    <3> QED  BY <2>0, <2>2, <3>1, <3>2 DEF PassState
  <2> HIDE DEF s
  <2>4. Put(p, s)
    BY <2>1 DEF s
  <2> QED  BY <1>2, <2>0, <2>3, <2>4, TypePut DEF reflect, TypeInv, UnderWay
<1>3. CASE Dies(p) \/ Completes(p)
  BY <1>3, IdleIsAState, TypePut DEF Dies, Completes, TypeInv, Idle
<1>4. CASE SavesNothing(p) \/ ChecksCollection(p)
  <2>1. PICK pc \in {"queue", "count", "create"} : Goes(p, pc)
    BY <1>4 DEF SavesNothing, ChecksCollection
  <2>2. [pass[p] EXCEPT !.pc = pc] \in PassState
    BY DEF TypeInv, PassState, Pc
  <2>3. ~At(p, "idle")
    BY <1>4 DEF SavesNothing, ChecksCollection, At
  <2> QED  BY <1>4, <2>1, <2>2, <2>3, TypePut
           DEF SavesNothing, ChecksCollection, TypeInv, UnderWay, Goes, PassState
<1>5. CASE CreatesCollection(p)
  <2>1. [pass[p] EXCEPT !.pc = "count"] \in PassState
    BY DEF TypeInv, PassState, Pc
  <2>2. ~At(p, "idle")
    BY <1>5 DEF CreatesCollection, At
  <2>3. CASE collection
    BY <1>5, <2>3, IdleIsAState, TypePut DEF CreatesCollection, TypeInv, Idle
  <2>4. CASE ~collection
    BY <1>5, <2>1, <2>2, <2>4, TypePut DEF CreatesCollection, TypeInv, UnderWay, Goes, PassState
  <2> QED  BY <2>3, <2>4
<1>6. CASE CountsFacts(p) \/ CountsSops(p)
  <2>1. PICK c \in Nat, pc \in {"upsert", "insert"} :
          Put(p, [pass[p] EXCEPT !.n = c, !.pc = pc])
    BY <1>6, CountsAreNumbers DEF CountsFacts, CountsSops, TypeInv, UnderWay, At
  <2>2. [pass[p] EXCEPT !.n = c, !.pc = pc] \in PassState
    BY DEF TypeInv, PassState, Pc
  <2>3. ~At(p, "idle")
    BY <1>6 DEF CountsFacts, CountsSops, At
  <2> QED  BY <1>6, <2>1, <2>2, <2>3, TypePut
           DEF CountsFacts, CountsSops, TypeInv, UnderWay, PassState
<1>7. CASE Upserts(p)
  <2> DEFINE new == NewIds(pass[p].week, pass[p].n, Len(pass[p].fact_drafts))
             s == [pass[p] EXCEPT !.fact_drafts = <<>>, !.n = 0, !.pc = "queue"]
  <2>1. /\ pass[p] \in PassState /\ pass[p].week \in Weeks
        /\ pass[p].run \in 1 .. started
    BY <1>7 DEF Upserts, TypeInv, UnderWay, At
  <2>2. /\ facts' \in [DOMAIN facts' -> Draft]
        /\ DOMAIN facts' \subseteq Weeks \X Nat
    <3>1. /\ DOMAIN facts' = DOMAIN facts \cup new
          /\ facts' = [id \in DOMAIN facts \cup new |->
                         IF id \in new THEN pass[p].fact_drafts[id[2] - pass[p].n]
                         ELSE facts[id]]
      BY <1>7 DEF Upserts, Overlay
    <3>2. \A id \in new : /\ id \in Weeks \X Nat
                          /\ pass[p].fact_drafts[id[2] - pass[p].n] \in Draft
      BY <2>1 DEF NewIds, PassState
    <3> QED  BY <3>1, <3>2 DEF TypeInv
  <2>3. s \in PassState /\ s.run = pass[p].run /\ s.week = pass[p].week
    BY <2>1, EmptyDrafts DEF PassState, Pc
  <2>4. pass' = [pass EXCEPT ![p] = s] /\ UNCHANGED <<collection, sops, listing, started>>
    BY <1>7 DEF Upserts, Put
  <2> HIDE DEF s
  <2> QED  BY <2>1, <2>2, <2>3, <2>4 DEF TypeInv, UnderWay, At
<1>8. CASE Inserts(p)
  <2> DEFINE y == YearOf[pass[p].week]
             ids == NewIds(y, pass[p].n, 1)
             s == Queued(p)
  <2>1. /\ pass[p] \in PassState /\ pass[p].week \in Weeks /\ pass[p].sop_drafts # <<>>
        /\ pass[p].run \in 1 .. started
    BY <1>8 DEF Inserts, TypeInv, UnderWay, At, NumberInv, Counted
  <2>2. CASE ids \subseteq DOMAIN sops
    BY <1>8, <2>2, IdleIsAState, TypePut DEF Inserts, TypeInv, Idle
  <2>3. CASE ~(ids \subseteq DOMAIN sops)
    <3>1. /\ sops' = [id \in DOMAIN sops \cup ids |->
                        IF id \in ids THEN Pending(p) ELSE sops[id]]
          /\ pass' = [pass EXCEPT ![p] = s]
          /\ UNCHANGED <<collection, facts, listing, started>>
      BY <1>8, <2>3 DEF Inserts, Put, Overlay
    <3>2. Pending(p) \in SOPTemplate
      BY <2>1 DEF Pending, SOPTemplate, PassState, Statuses
    <3>3. ids \subseteq {YearOf[w] : w \in Weeks} \X Nat
      BY <2>1 DEF NewIds, PassState
    <3>4. s \in PassState /\ s.run = pass[p].run /\ s.week = pass[p].week
      <4>1. Tail(pass[p].sop_drafts) \in Seq(Draft)
        BY <2>1 DEF PassState
      <4> QED  BY <2>1, <4>1 DEF Queued, PassState, Pc
    <3>5. /\ sops' \in [DOMAIN sops' -> SOPTemplate]
          /\ DOMAIN sops \subseteq DOMAIN sops'
          /\ DOMAIN sops' \subseteq {YearOf[w] : w \in Weeks} \X Nat
      BY <3>1, <3>2, <3>3 DEF TypeInv
    <3> HIDE DEF s
    <3> QED  BY <2>1, <3>1, <3>4, <3>5 DEF TypeInv, UnderWay, At
  <2> QED  BY <2>2, <2>3
<1> QED  BY <1>1, <1>2, <1>3, <1>4, <1>5, <1>6, <1>7, <1>8 DEF PassStep

LEMMA TypeReview ==
  ASSUME TypeInv, NEW r \in Reviewers, ReviewStep(r)
  PROVE  TypeInv'
<1> USE DEF stores
<1>1. CASE list_pending(r)
  <2>1. /\ pending \subseteq DOMAIN sops
        /\ [id \in pending |-> sops[id].draft] \in [pending -> Draft]
    BY DEF pending, TypeInv, SOPTemplate
  <2> QED  BY <1>1, <2>1 DEF list_pending, TypeInv, UnderWay, At
<1>2. CASE approve_sop(r) \/ reject_sop(r)
  <2>1. PICK id \in DOMAIN listing[r], status \in Statuses : Reviews(r, id, status)
    BY <1>2 DEF approve_sop, reject_sop, Statuses
  <2>2. sops' \in [DOMAIN sops -> SOPTemplate] /\ DOMAIN sops' = DOMAIN sops
    BY <2>1 DEF Reviews, TypeInv, SOPTemplate
  <2> QED  BY <2>1, <2>2 DEF Reviews, TypeInv, UnderWay, At
<1> QED  BY <1>1, <1>2 DEF ReviewStep

-----------------------------------------------------------------------------
(* Numbering *)

(* A batch counted from at most the number of ids continues them, or       *)
(* replaces some of them; it leaves no gap.                                *)
LEMMA BatchContinues ==
  ASSUME NEW ids, NEW scope, Numbered(ids, scope),
         NEW n \in Nat, n <= Cardinality(ids), NEW k \in Nat
  PROVE  /\ Numbered(ids \cup NewIds(scope, n, k), scope)
         /\ Cardinality(ids) <= Cardinality(ids \cup NewIds(scope, n, k))
<1>1. PICK m \in Nat : ids = NewIds(scope, 0, m) /\ m = Cardinality(ids)
  BY NumberedIsCounted
<1> DEFINE all == IF n + k > m THEN n + k ELSE m
<1>2. all \in Nat /\ m <= all
  BY <1>1
<1>3. ids \cup NewIds(scope, n, k) = NewIds(scope, 0, all)
  <2>1. \A a \in Nat, b \in Nat : \A id :
          id \in NewIds(scope, a, b) <=> \E j \in Nat : a < j /\ j <= a + b /\ id = <<scope, j>>
    <3> TAKE a \in Nat, b \in Nat
    <3> TAKE id
    <3>1. ASSUME NEW i \in 1 .. b
          PROVE  a + i \in Nat /\ a < a + i /\ a + i <= a + b
      OBVIOUS
    <3>2. ASSUME NEW j \in Nat, a < j, j <= a + b
          PROVE  j - a \in 1 .. b /\ a + (j - a) = j
      BY <3>2
    <3> QED  BY <3>1, <3>2 DEF NewIds
  <2>2. \A j \in Nat : 0 < j /\ j <= 0 + all
                         <=> (0 < j /\ j <= 0 + m) \/ (n < j /\ j <= n + k)
    BY <1>1
  <2> HIDE DEF all
  <2>3. \A id : id \in ids <=> \E j \in Nat : 0 < j /\ j <= 0 + m /\ id = <<scope, j>>
    BY <1>1, <2>1
  <2>4. \A id : id \in NewIds(scope, 0, all)
                  <=> \E j \in Nat : 0 < j /\ j <= 0 + all /\ id = <<scope, j>>
    BY <1>2, <2>1
  <2>5. \A id : id \in NewIds(scope, n, k)
                  <=> \E j \in Nat : n < j /\ j <= n + k /\ id = <<scope, j>>
    BY <2>1
  <2> QED  BY <2>2, <2>3, <2>4, <2>5
<1> HIDE DEF all
<1> QED  BY <1>1, <1>2, <1>3, CountOfNewIds DEF Numbered

LEMMA NumberInit == Init => NumberInv
<1> SUFFICES ASSUME Init PROVE NumberInv
  OBVIOUS
<1>1. \A scope : Numbered({}, scope)
  <2>1. \A scope : {} = NewIds(scope, 0, 0)
    BY DEF NewIds
  <2> QED  BY <2>1 DEF Numbered
<1>2. \A w : FactIds(w) = {} /\ SopIds(w) = {}
  BY DEF Init, FactIds, SopIds
<1>3. \A p \in Processes : Counted(p)
  BY DEF Init, Counted, At, Idle
<1> QED  BY <1>1, <1>2, <1>3 DEF NumberInv

(* A step that leaves the ids alone and gives p a state that has not counted. *)
LEMMA NumberPut ==
  ASSUME TypeInv, NumberInv, NEW p \in Processes, NEW s, Put(p, s),
         s.pc \notin {"upsert", "insert"}, UNCHANGED <<facts, sops>>
  PROVE  NumberInv'
<1>1. \A w \in Weeks : /\ FactIds(w)' = FactIds(w)
                       /\ SopIds(YearOf[w])' = SopIds(YearOf[w])
  BY DEF FactIds, SopIds
<1>2. \A q \in Processes : Counted(q)'
  <2> TAKE q \in Processes
  <2>1. CASE q = p
    BY <2>1 DEF Counted, At, Put, TypeInv
  <2>2. CASE q # p
    <3>1. pass'[q] = pass[q]
      BY <2>2 DEF Put, TypeInv
    <3>2. Counted(q) /\ UnderWay(q)
      BY DEF NumberInv, TypeInv
    <3>3. FactIds(pass[q].week)' = FactIds(pass'[q].week)
      BY <3>1 DEF FactIds
    <3> QED  BY <3>1, <3>2 DEF Counted, At, FactIds, SopIds
  <2> QED  BY <2>1, <2>2
<1> QED  BY <1>1, <1>2 DEF NumberInv, Numbered

(* What an upsert does to the ids of a week. *)
LEMMA UpsertedIds ==
  ASSUME NumberInv, TypeInv, NEW p \in Processes, Upserts(p)
  PROVE  LET new == NewIds(pass[p].week, pass[p].n, Len(pass[p].fact_drafts))
         IN  /\ DOMAIN facts' = DOMAIN facts \cup new
             /\ \A w \in Weeks : FactIds(w)' = IF w = pass[p].week THEN FactIds(w) \cup new
                                               ELSE FactIds(w)
<1> DEFINE new == NewIds(pass[p].week, pass[p].n, Len(pass[p].fact_drafts))
<1>1. DOMAIN facts' = DOMAIN facts \cup new
  BY DEF Upserts, Overlay
<1>2. \A id \in new : id[1] = pass[p].week
  BY DEF NewIds
<1> HIDE DEF new
<1>3. \A w \in Weeks : FactIds(w)' = IF w = pass[p].week THEN FactIds(w) \cup new
                                     ELSE FactIds(w)
  BY <1>1, <1>2 DEF FactIds
<1> QED  BY <1>1, <1>3 DEF new

(* What an insert that finds its id free does: it is the next one. *)
LEMMA InsertedId ==
  ASSUME NumberInv, TypeInv, NEW p \in Processes, Inserts(p),
         ~(NewIds(YearOf[pass[p].week], pass[p].n, 1) \subseteq DOMAIN sops)
  PROVE  LET y == YearOf[pass[p].week]
             id == <<y, pass[p].n + 1>>
         IN  /\ id \notin DOMAIN sops
             /\ sops' = [i \in DOMAIN sops \cup {id} |-> IF i = id THEN Pending(p) ELSE sops[i]]
             /\ \A w \in Weeks : SopIds(YearOf[w])' =
                                   IF YearOf[w] = y THEN SopIds(YearOf[w]) \cup NewIds(y, pass[p].n, 1)
                                   ELSE SopIds(YearOf[w])
             /\ Put(p, Queued(p)) /\ UNCHANGED <<collection, facts, listing, started>>
<1> DEFINE y == YearOf[pass[p].week]
           id == <<y, pass[p].n + 1>>
<1>1. pass[p].n \in Nat
  BY DEF TypeInv, PassState
<1>2. NewIds(y, pass[p].n, 1) = {id}
  BY <1>1 DEF NewIds
<1>3. /\ sops' = [i \in DOMAIN sops \cup {id} |-> IF i \in {id} THEN Pending(p) ELSE sops[i]]
      /\ id \notin DOMAIN sops
      /\ Put(p, Queued(p)) /\ UNCHANGED <<collection, facts, listing, started>>
  BY <1>2 DEF Inserts, Overlay
<1>4. DOMAIN sops' = DOMAIN sops \cup {id} /\ id[1] = y
  BY <1>3
<1> HIDE DEF id
<1>5. \A w \in Weeks : SopIds(YearOf[w])' = IF YearOf[w] = y THEN SopIds(YearOf[w]) \cup {id}
                                            ELSE SopIds(YearOf[w])
  BY <1>4 DEF SopIds
<1> QED  BY <1>2, <1>3, <1>5 DEF id

LEMMA NumberPass ==
  ASSUME TypeInv, NumberInv, NEW p \in Processes, PassStep(p), TypeInv'
  PROVE  NumberInv'
<1> USE DEF stores
<1>1. CASE load_episodes(p)
  <2>1. PICK week \in Weeks, closed \in SUBSET Incidents : \E cases \in [closed -> Verdicts] :
          Put(p, [Idle EXCEPT !.pc = IF closed = {} THEN "consolidate" ELSE "reflect",
                              !.run = started + 1, !.week = week, !.cases = cases])
    BY <1>1 DEF load_episodes
  <2>2. PICK cases \in [closed -> Verdicts] :
          Put(p, [Idle EXCEPT !.pc = IF closed = {} THEN "consolidate" ELSE "reflect",
                              !.run = started + 1, !.week = week, !.cases = cases])
    BY <2>1
  <2> DEFINE s == [Idle EXCEPT !.pc = IF closed = {} THEN "consolidate" ELSE "reflect",
                               !.run = started + 1, !.week = week, !.cases = cases]
  <2>3. s.pc \notin {"upsert", "insert"}
    BY DEF Idle
  <2> HIDE DEF s
  <2>4. Put(p, s) /\ UNCHANGED <<facts, sops>>
    BY <1>1, <2>2 DEF load_episodes, s
  <2> QED  BY <2>3, <2>4, NumberPut
<1>2. ASSUME NEW t \in Types, reflect(p, t)
      PROVE  NumberInv'
  <2>0. pass[p] \in PassState /\ pass[p].pc = "reflect"
    BY <1>2 DEF reflect, At, TypeInv
  <2>1. PICK k \in 0 .. MaxDrafts, l \in 0 .. MaxDrafts :
          Put(p, [pass[p] EXCEPT
                    !.cases = Restrict(@, DOMAIN @ \ ofType(@, t)),
                    !.fact_drafts = @ \o Drafted(p, t, k),
                    !.sop_drafts = @ \o Drafted(p, t, l),
                    !.drafted = @ + l,
                    !.pc = IF types(pass[p].cases) = {t} THEN "consolidate" ELSE @])
    BY <1>2 DEF reflect
  <2> DEFINE s == [pass[p] EXCEPT
                    !.cases = Restrict(@, DOMAIN @ \ ofType(@, t)),
                    !.fact_drafts = @ \o Drafted(p, t, k),
                    !.sop_drafts = @ \o Drafted(p, t, l),
                    !.drafted = @ + l,
                    !.pc = IF types(pass[p].cases) = {t} THEN "consolidate" ELSE @]
  <2>2. s.pc \notin {"upsert", "insert"}
    BY <2>0 DEF PassState
  <2> HIDE DEF s
  <2>3. Put(p, s) /\ UNCHANGED <<facts, sops>>
    BY <1>2, <2>1 DEF reflect, s
  <2> QED  BY <2>2, <2>3, NumberPut
<1>3. CASE Dies(p) \/ Completes(p)
  BY <1>3, NumberPut DEF Dies, Completes, Idle
<1>4. CASE SavesNothing(p) \/ ChecksCollection(p) \/ CreatesCollection(p)
  <2>1. pass[p] \in PassState
    BY DEF TypeInv
  <2>2. PICK s : Put(p, s) /\ s.pc \notin {"upsert", "insert"}
    BY <1>4, <2>1 DEF SavesNothing, ChecksCollection, CreatesCollection, Goes, PassState, Idle
  <2> QED  BY <1>4, <2>2, NumberPut DEF SavesNothing, ChecksCollection, CreatesCollection
<1>5. CASE CountsFacts(p) \/ CountsSops(p)
  <2>1. /\ UNCHANGED <<facts, sops>> /\ pass[p] \in PassState
        /\ \A q \in Processes : q # p => pass'[q] = pass[q]
    BY <1>5 DEF CountsFacts, CountsSops, TypeInv, Put
  <2>2. /\ \A w : FactIds(w)' = FactIds(w) /\ SopIds(w)' = SopIds(w)
    BY <2>1 DEF FactIds, SopIds
  <2>3. pass[p].week \in Weeks
    BY <1>5 DEF CountsFacts, CountsSops, TypeInv, UnderWay, At
  <2>4. pass'[p].week = pass[p].week /\ pass'[p].sop_drafts = pass[p].sop_drafts
    BY <1>5, <2>1 DEF CountsFacts, CountsSops, Put, PassState, TypeInv
  <2>5. Counted(p)'
    <3>1. CASE CountsFacts(p)
      <4>1. pass'[p].pc = "upsert" /\ pass'[p].n = Cardinality(FactIds(pass[p].week))
        BY <3>1, <2>1 DEF CountsFacts, Put, PassState, TypeInv
      <4>2. FactIds(pass[p].week)' = FactIds(pass[p].week)
        BY <2>1, <2>4 DEF FactIds
      <4> QED  BY <4>1, <4>2, <2>3, CountsAreNumbers DEF Counted, At
    <3>2. CASE CountsSops(p)
      <4>1. /\ pass'[p].pc = "insert" /\ pass'[p].n = Cardinality(SopIds(YearOf[pass[p].week]))
            /\ pass[p].sop_drafts # <<>>
        BY <3>2, <2>1 DEF CountsSops, Put, PassState, TypeInv
      <4>2. SopIds(YearOf[pass[p].week])' = SopIds(YearOf[pass[p].week])
        BY <2>1, <2>4 DEF SopIds
      <4> QED  BY <4>1, <4>2, <2>3, <2>4, CountsAreNumbers DEF Counted, At
    <3> QED  BY <1>5, <3>1, <3>2
  <2>6. \A q \in Processes : q # p => Counted(q)'
    BY <2>1 DEF Counted, At, NumberInv, FactIds, SopIds
  <2> QED  BY <2>1, <2>2, <2>5, <2>6 DEF NumberInv, Numbered
<1>6. CASE Upserts(p)
  <2> DEFINE week == pass[p].week
             new == NewIds(pass[p].week, pass[p].n, Len(pass[p].fact_drafts))
  <2>1. /\ pass[p] \in PassState /\ pass[p].week \in Weeks /\ pass[p].n \in Nat
        /\ Len(pass[p].fact_drafts) \in Nat /\ pass[p].n <= Cardinality(FactIds(pass[p].week))
    BY <1>6 DEF Upserts, TypeInv, UnderWay, At, NumberInv, Counted, PassState
  <2>2. \A w \in Weeks : FactIds(w)' = IF w = pass[p].week THEN FactIds(w) \cup new
                                       ELSE FactIds(w)
    BY <1>6, UpsertedIds
  <2> HIDE DEF new
  <2>3. \A w \in Weeks : /\ Numbered(FactIds(w)', w)
                         /\ Cardinality(FactIds(w)) <= Cardinality(FactIds(w)')
    <3>1. ASSUME NEW w \in Weeks, w = week
          PROVE  /\ Numbered(FactIds(w)', w)
                 /\ Cardinality(FactIds(w)) <= Cardinality(FactIds(w)')
      <4>1. FactIds(w)' = FactIds(w) \cup NewIds(w, pass[p].n, Len(pass[p].fact_drafts))
        BY <2>2, <3>1 DEF new
      <4>2. Numbered(FactIds(w), w) /\ pass[p].n <= Cardinality(FactIds(w))
        BY <2>1, <3>1 DEF NumberInv
      <4> QED  BY <2>1, <4>1, <4>2, BatchContinues
    <3>2. ASSUME NEW w \in Weeks, w # week
          PROVE  /\ Numbered(FactIds(w)', w)
                 /\ Cardinality(FactIds(w)) <= Cardinality(FactIds(w)')
      <4>1. FactIds(w)' = FactIds(w)
        BY <2>2, <3>2
      <4>2. Numbered(FactIds(w), w) /\ Cardinality(FactIds(w)) \in Nat
        BY CountsAreNumbers DEF NumberInv
      <4> HIDE DEF FactIds
      <4> QED  BY <4>1, <4>2
    <3> QED  BY <3>1, <3>2
  <2>4. /\ sops' = sops /\ pass'[p].pc = "queue"
        /\ \A q \in Processes : q # p => pass'[q] = pass[q]
    BY <1>6, <2>1 DEF Upserts, Put, TypeInv, PassState
  <2>5. \A w : SopIds(w)' = SopIds(w)
    BY <2>4 DEF SopIds
  <2>6. \A q \in Processes : Counted(q)'
    <3> TAKE q \in Processes
    <3>1. CASE q = p
      BY <2>4, <3>1 DEF Counted, At
    <3>2. CASE q # p
      <4>1. /\ pass'[q] = pass[q] /\ pass[q].n \in Nat /\ Counted(q)
            /\ At(q, "upsert") => pass[q].week \in Weeks
        BY <2>4, <3>2 DEF NumberInv, TypeInv, UnderWay, PassState, At
      <4>2. ASSUME At(q, "upsert")
            PROVE  pass[q].n <= Cardinality(FactIds(pass[q].week)')
        <5>1. /\ pass[q].n <= Cardinality(FactIds(pass[q].week)) /\ pass[q].week \in Weeks
          BY <4>1, <4>2 DEF Counted
        <5>2. Numbered(FactIds(pass[q].week)', pass[q].week)
              /\ Cardinality(FactIds(pass[q].week)) <= Cardinality(FactIds(pass[q].week)')
          BY <2>3, <5>1, <4>1 DEF FactIds
        <5>3. Cardinality(FactIds(pass[q].week)') \in Nat
          BY <5>2, NumberedIsCounted
        <5> QED  BY <4>1, <5>1, <5>2, <5>3, CountsAreNumbers
      <4>3. SopIds(YearOf[pass[q].week])' = SopIds(YearOf[pass[q].week])
        BY <2>4, <4>1 DEF SopIds
      <4> QED  BY <4>1, <4>2, <4>3 DEF Counted, At
    <3> QED  BY <3>1, <3>2
  <2> QED  BY <2>3, <2>5, <2>6 DEF NumberInv, Numbered
<1>7. CASE Inserts(p)
  <2> DEFINE y == YearOf[pass[p].week]
             new == NewIds(y, pass[p].n, 1)
  <2>1. /\ pass[p] \in PassState /\ pass[p].week \in Weeks /\ pass[p].n \in Nat
        /\ pass[p].n <= Cardinality(SopIds(y))
    BY <1>7 DEF Inserts, TypeInv, UnderWay, At, NumberInv, Counted, PassState
  <2>2. CASE new \subseteq DOMAIN sops
    BY <1>7, <2>2, NumberPut DEF Inserts, Idle
  <2>3. CASE ~(new \subseteq DOMAIN sops)
    <3>1. /\ \A w \in Weeks : SopIds(YearOf[w])' = IF YearOf[w] = y THEN SopIds(YearOf[w]) \cup new
                                                   ELSE SopIds(YearOf[w])
          /\ Put(p, Queued(p)) /\ facts' = facts
      BY <1>7, <2>3, InsertedId
    <3> HIDE DEF new, y
    <3>2. \A w \in Weeks : /\ Numbered(SopIds(YearOf[w])', YearOf[w])
                           /\ Cardinality(SopIds(YearOf[w])) <= Cardinality(SopIds(YearOf[w])')
      <4>1. ASSUME NEW w \in Weeks, YearOf[w] = y
            PROVE  /\ Numbered(SopIds(YearOf[w])', YearOf[w])
                   /\ Cardinality(SopIds(YearOf[w])) <= Cardinality(SopIds(YearOf[w])')
        <5>1. SopIds(YearOf[w])' = SopIds(YearOf[w]) \cup NewIds(YearOf[w], pass[p].n, 1)
          BY <3>1, <4>1 DEF new
        <5>2. Numbered(SopIds(YearOf[w]), YearOf[w]) /\ pass[p].n <= Cardinality(SopIds(YearOf[w]))
          BY <2>1, <4>1 DEF NumberInv
        <5> QED  BY <2>1, <5>1, <5>2, BatchContinues
      <4>2. ASSUME NEW w \in Weeks, YearOf[w] # y
            PROVE  /\ Numbered(SopIds(YearOf[w])', YearOf[w])
                   /\ Cardinality(SopIds(YearOf[w])) <= Cardinality(SopIds(YearOf[w])')
        <5>1. SopIds(YearOf[w])' = SopIds(YearOf[w])
          BY <3>1, <4>2
        <5>2. Numbered(SopIds(YearOf[w]), YearOf[w]) /\ Cardinality(SopIds(YearOf[w])) \in Nat
          BY CountsAreNumbers DEF NumberInv
        <5> QED  BY <5>1, <5>2
      <4> QED  BY <4>1, <4>2
    <3>3. /\ pass'[p].pc = "queue"
          /\ \A q \in Processes : q # p => pass'[q] = pass[q]
      BY <2>1, <3>1 DEF Queued, Put, TypeInv, PassState
    <3>4. \A w : FactIds(w)' = FactIds(w)
      BY <3>1 DEF FactIds
    <3>5. \A q \in Processes : Counted(q)'
      <4> TAKE q \in Processes
      <4>1. CASE q = p
        BY <3>3, <4>1 DEF Counted, At
      <4>2. CASE q # p
        <5>1. /\ pass'[q] = pass[q] /\ pass[q].n \in Nat /\ Counted(q)
              /\ At(q, "insert") => pass[q].week \in Weeks
          BY <3>3, <4>2 DEF NumberInv, TypeInv, UnderWay, PassState, At
        <5>2. ASSUME At(q, "insert")
              PROVE  pass[q].n <= Cardinality(SopIds(YearOf[pass[q].week])')
          <6>1. /\ pass[q].n <= Cardinality(SopIds(YearOf[pass[q].week])) /\ pass[q].week \in Weeks
            BY <5>1, <5>2 DEF Counted
          <6>2. Numbered(SopIds(YearOf[pass[q].week])', YearOf[pass[q].week])
                /\ Cardinality(SopIds(YearOf[pass[q].week])) <= Cardinality(SopIds(YearOf[pass[q].week])')
            BY <3>2, <6>1, <5>1 DEF SopIds
          <6>3. Cardinality(SopIds(YearOf[pass[q].week])') \in Nat
            BY <6>2, NumberedIsCounted
          <6> QED  BY <5>1, <6>1, <6>2, <6>3, CountsAreNumbers
        <5>3. FactIds(pass[q].week)' = FactIds(pass[q].week)
          BY <3>1, <5>1 DEF FactIds
        <5> QED  BY <5>1, <5>2, <5>3 DEF Counted, At
      <4> QED  BY <4>1, <4>2
    <3> QED  BY <3>2, <3>4, <3>5 DEF NumberInv, Numbered
  <2> QED  BY <2>2, <2>3
<1> QED  BY <1>1, <1>2, <1>3, <1>4, <1>5, <1>6, <1>7 DEF PassStep

LEMMA NumberReview ==
  ASSUME TypeInv, NumberInv, NEW r \in Reviewers, ReviewStep(r)
  PROVE  NumberInv'
<1>1. DOMAIN sops' = DOMAIN sops /\ facts' = facts /\ pass' = pass
  BY DEF ReviewStep, list_pending, approve_sop, reject_sop, Reviews, stores
<1>2. \A w : FactIds(w)' = FactIds(w) /\ SopIds(w)' = SopIds(w)
  BY <1>1 DEF FactIds, SopIds
<1>3. \A p \in Processes : Counted(p)'
  BY <1>1 DEF NumberInv, Counted, At, FactIds, SopIds
<1> QED  BY <1>2, <1>3 DEF NumberInv, Numbered

-----------------------------------------------------------------------------
(* The drafts of a pass *)

ByRun(run) == {id \in DOMAIN sops : sops[id].draft.run = run}

(* A pass has its drafts in hand or in the table, and they are marked as its own. *)
Complete(p) ==
  ~At(p, "idle") =>
    /\ \A i \in 1 .. Len(pass[p].sop_drafts) : pass[p].sop_drafts[i].run = pass[p].run
    /\ IsFiniteSet(ByRun(pass[p].run))
    /\ pass[p].drafted = Len(pass[p].sop_drafts) + Cardinality(ByRun(pass[p].run))

DraftInv ==
  /\ \A id \in DOMAIN sops : sops[id].draft.run <= started
  /\ \A p, q \in Processes :
       ~At(p, "idle") /\ ~At(q, "idle") /\ pass[p].run = pass[q].run => p = q
  /\ \A p \in Processes : Complete(p)

LEMMA DraftInit == Init => DraftInv
BY DEF Init, DraftInv, Complete, At, Idle

(* A step of p that leaves the table alone. *)
LEMMA DraftPut ==
  ASSUME TypeInv, DraftInv, NEW p \in Processes, NEW s, Put(p, s), UNCHANGED sops,
         started <= started', started' \in Nat, s.run \in Nat,
         \/ s.pc = "idle"
         \/ /\ \/ ~At(p, "idle") /\ s.run = pass[p].run
               \/ s.run > started
            /\ \A i \in 1 .. Len(s.sop_drafts) : s.sop_drafts[i].run = s.run
            /\ IsFiniteSet(ByRun(s.run))
            /\ s.drafted = Len(s.sop_drafts) + Cardinality(ByRun(s.run))
  PROVE  DraftInv'
<1>1. /\ pass'[p] = s
      /\ \A q \in Processes : q # p => pass'[q] = pass[q]
  BY DEF Put, TypeInv
<1>2. \A run : ByRun(run)' = ByRun(run)
  BY DEF ByRun
<1>3. \A id \in DOMAIN sops' : sops'[id].draft.run <= started'
  BY ReflectionAssumption DEF DraftInv, TypeInv, SOPTemplate, Draft
<1>4. \A q \in Processes : ~At(q, "idle") => pass[q].run \in Nat /\ pass[q].run <= started
  BY ReflectionAssumption DEF TypeInv, UnderWay
<1>5. \A q, t \in Processes :
        ~At(q, "idle")' /\ ~At(t, "idle")' /\ pass'[q].run = pass'[t].run => q = t
  <2>1. started \in Nat
    BY ReflectionAssumption DEF TypeInv
  <2>2. \A q \in Processes : ~At(q, "idle") /\ s.pc # "idle" /\ pass[q].run = s.run => q = p
    BY <1>4, <2>1 DEF DraftInv
  <2> QED  BY <1>1, <2>2 DEF DraftInv, At
<1>6. \A q \in Processes : Complete(q)'
  <2> TAKE q \in Processes
  <2>1. CASE q = p
    <3>1. ByRun(pass[q].run)' = ByRun(s.run)
      BY <1>1, <2>1 DEF ByRun
    <3> QED  BY <1>1, <2>1, <3>1 DEF Complete, At
  <2>2. CASE q # p
    <3>1. ByRun(pass[q].run)' = ByRun(pass[q].run)
      BY <1>1, <2>2 DEF ByRun
    <3> QED  BY <1>1, <2>2, <3>1 DEF Complete, At, DraftInv
  <2> QED  BY <2>1, <2>2
<1> QED  BY <1>3, <1>5, <1>6 DEF DraftInv

LEMMA DraftPass ==
  ASSUME TypeInv, NumberInv, DraftInv, NEW p \in Processes, PassStep(p)
  PROVE  DraftInv'
<1> USE DEF stores
<1>0. started \in Nat
  BY ReflectionAssumption DEF TypeInv
<1>1. CASE load_episodes(p)
  <2>1. PICK week \in Weeks, closed \in SUBSET Incidents : \E cases \in [closed -> Verdicts] :
          Put(p, [Idle EXCEPT !.pc = IF closed = {} THEN "consolidate" ELSE "reflect",
                              !.run = started + 1, !.week = week, !.cases = cases])
    BY <1>1 DEF load_episodes
  <2>2. PICK cases \in [closed -> Verdicts] :
          Put(p, [Idle EXCEPT !.pc = IF closed = {} THEN "consolidate" ELSE "reflect",
                              !.run = started + 1, !.week = week, !.cases = cases])
    BY <2>1
  <2> DEFINE s == [Idle EXCEPT !.pc = IF closed = {} THEN "consolidate" ELSE "reflect",
                               !.run = started + 1, !.week = week, !.cases = cases]
  <2>3. s.run = started + 1 /\ s.sop_drafts = <<>> /\ s.drafted = 0
    BY DEF Idle
  <2> HIDE DEF s
  <2>4. ByRun(started + 1) = {}
    BY <1>0 DEF DraftInv, ByRun, TypeInv, SOPTemplate, Draft
  <2>5. Put(p, s) /\ UNCHANGED sops /\ started' = started + 1
    BY <1>1, <2>2 DEF load_episodes, s
  <2>6. \A i \in 1 .. Len(<<>>) : FALSE
    OBVIOUS
  <2>7. IsFiniteSet(ByRun(s.run)) /\ s.drafted = Len(s.sop_drafts) + Cardinality(ByRun(s.run))
    <3>1. Len(<<>>) = 0 /\ IsFiniteSet({}) /\ Cardinality({}) = 0
      BY FS_EmptySet
    <3>2. ByRun(s.run) = {}
      BY <2>3, <2>4
    <3>3. Len(s.sop_drafts) = 0
      BY <2>3, <3>1
    <3>4. IsFiniteSet(ByRun(s.run)) /\ Cardinality(ByRun(s.run)) = 0
      BY <3>1, <3>2, Zenon
    <3> QED  BY <2>3, <3>3, <3>4
  <2>8. s.run > started /\ s.run \in Nat /\ started <= started' /\ started' \in Nat
    BY <1>0, <2>3, <2>5
  <2> QED  BY <2>3, <2>5, <2>6, <2>7, <2>8, DraftPut
<1>2. ASSUME NEW t \in Types, reflect(p, t)
      PROVE  DraftInv'
  <2>0. ~At(p, "idle") /\ pass[p] \in PassState
    BY <1>2 DEF reflect, At, TypeInv
  <2>1. PICK k \in 0 .. MaxDrafts, l \in 0 .. MaxDrafts :
          Put(p, [pass[p] EXCEPT
                    !.cases = Restrict(@, DOMAIN @ \ ofType(@, t)),
                    !.fact_drafts = @ \o Drafted(p, t, k),
                    !.sop_drafts = @ \o Drafted(p, t, l),
                    !.drafted = @ + l,
                    !.pc = IF types(pass[p].cases) = {t} THEN "consolidate" ELSE @])
    BY <1>2 DEF reflect
  <2> DEFINE s == [pass[p] EXCEPT
                    !.cases = Restrict(@, DOMAIN @ \ ofType(@, t)),
                    !.fact_drafts = @ \o Drafted(p, t, k),
                    !.sop_drafts = @ \o Drafted(p, t, l),
                    !.drafted = @ + l,
                    !.pc = IF types(pass[p].cases) = {t} THEN "consolidate" ELSE @]
             old == pass[p].sop_drafts
             new == Drafted(p, t, l)
  <2>2. /\ s.run = pass[p].run /\ s.run \in Nat /\ s.sop_drafts = old \o new
        /\ s.drafted = pass[p].drafted + l
    BY <2>0, ReflectionAssumption DEF PassState
  <2> HIDE DEF s, new
  <2>3. old \in Seq(Draft) /\ new \in Seq(Draft) /\ Len(new) = l /\ l \in Nat /\ Len(old) \in Nat
    BY <2>0, DraftedDrafts, ReflectionAssumption DEF PassState, new
  <2>4. \A i \in 1 .. Len(new) : new[i].run = pass[p].run
    BY <2>0, <2>3, DraftedDrafts DEF new
  <2>5. Complete(p) /\ \A i \in 1 .. Len(old) : old[i].run = pass[p].run
    BY <2>0 DEF DraftInv, Complete
  <2> HIDE DEF old
  <2>6. /\ Len(s.sop_drafts) = Len(old) + l
        /\ \A i \in 1 .. Len(s.sop_drafts) : s.sop_drafts[i].run = s.run
    <3>1. Len(old \o new) = Len(old) + Len(new)
      BY <2>3
    <3>2. ASSUME NEW i \in 1 .. Len(old \o new)
          PROVE  (old \o new)[i].run = pass[p].run
      <4>1. CASE i <= Len(old)
        <5>1. (old \o new)[i] = old[i] /\ i \in 1 .. Len(old)
          BY <2>3, <3>1, <4>1
        <5> QED  BY <2>5, <5>1
      <4>2. CASE i > Len(old)
        <5>1. (old \o new)[i] = new[i - Len(old)] /\ i - Len(old) \in 1 .. Len(new)
          BY <2>3, <3>1, <4>2
        <5> QED  BY <2>4, <5>1
      <4> QED  BY <2>3, <4>1, <4>2
    <3> QED  BY <2>2, <2>3, <3>1, <3>2
  <2>7. IsFiniteSet(ByRun(s.run)) /\ s.drafted = Len(s.sop_drafts) + Cardinality(ByRun(s.run))
    <3>1. /\ IsFiniteSet(ByRun(s.run))
          /\ pass[p].drafted = Len(old) + Cardinality(ByRun(s.run))
      BY <2>0, <2>2, <2>5 DEF Complete, old
    <3> QED  BY <2>2, <2>3, <2>6, <3>1, FS_CardinalityType
  <2>8. Put(p, s) /\ UNCHANGED <<sops, started>>
    BY <1>2, <2>1 DEF reflect, s
  <2>9. s.run \in Nat /\ s.run = pass[p].run /\ started <= started' /\ started' \in Nat
    BY <1>0, <2>2, <2>8
  <2>10. \A i \in 1 .. Len(s.sop_drafts) : s.sop_drafts[i].run = s.run
    BY <2>6
  <2>11. UNCHANGED sops
    BY <2>8
  <2> QED  BY <2>0, <2>7, <2>8, <2>9, <2>10, <2>11, DraftPut, Zenon
<1>3. CASE Dies(p) \/ Completes(p)
  <2>1. Idle.pc = "idle" /\ Idle.run \in Nat
    BY DEF Idle
  <2> QED  BY <1>0, <1>3, <2>1, DraftPut DEF Dies, Completes
<1>4. CASE \/ SavesNothing(p) \/ ChecksCollection(p) \/ CreatesCollection(p)
           \/ CountsFacts(p) \/ CountsSops(p) \/ Upserts(p)
  <2>1. /\ pass[p] \in PassState /\ ~At(p, "idle") /\ UNCHANGED <<sops, started>>
        /\ pass[p].run \in Nat
    BY <1>4, ReflectionAssumption
       DEF SavesNothing, ChecksCollection, CreatesCollection, CountsFacts, CountsSops, Upserts,
           At, TypeInv, PassState
  <2>2. Complete(p)
    BY DEF DraftInv
  <2>3. CASE Put(p, Idle)
    <3>1. Idle.pc = "idle" /\ Idle.run \in Nat
      BY DEF Idle
    <3> QED  BY <1>0, <2>1, <2>3, <3>1, DraftPut
  <2>4. ASSUME NEW s, Put(p, s), s.run = pass[p].run, s.sop_drafts = pass[p].sop_drafts,
               s.drafted = pass[p].drafted
        PROVE  DraftInv'
    BY <1>0, <2>1, <2>2, <2>4, DraftPut DEF Complete
  <2>5. CASE SavesNothing(p) \/ ChecksCollection(p) \/ CreatesCollection(p)
    <3>1. \A pc : LET s == [pass[p] EXCEPT !.pc = pc]
                  IN  s.run = pass[p].run /\ s.sop_drafts = pass[p].sop_drafts
                        /\ s.drafted = pass[p].drafted
      BY <2>1 DEF PassState
    <3> QED  BY <2>3, <2>4, <2>5, <3>1 DEF SavesNothing, ChecksCollection, CreatesCollection, Goes
  <2>6. CASE CountsFacts(p) \/ CountsSops(p)
    <3>1. \A pc, c : LET s == [pass[p] EXCEPT !.n = c, !.pc = pc]
                     IN  s.run = pass[p].run /\ s.sop_drafts = pass[p].sop_drafts
                           /\ s.drafted = pass[p].drafted
      BY <2>1 DEF PassState
    <3> QED  BY <2>4, <2>6, <3>1 DEF CountsFacts, CountsSops
  <2>7. CASE Upserts(p)
    <3>1. LET s == [pass[p] EXCEPT !.fact_drafts = <<>>, !.n = 0, !.pc = "queue"]
          IN  s.run = pass[p].run /\ s.sop_drafts = pass[p].sop_drafts
                /\ s.drafted = pass[p].drafted
      BY <2>1 DEF PassState
    <3> QED  BY <2>4, <2>7, <3>1 DEF Upserts
  <2> QED  BY <1>4, <2>5, <2>6, <2>7
<1>5. CASE Inserts(p)
  <2> DEFINE y == YearOf[pass[p].week]
             id == <<y, pass[p].n + 1>>
             old == pass[p].sop_drafts
  <2>1. CASE NewIds(y, pass[p].n, 1) \subseteq DOMAIN sops
    <3>1. Idle.pc = "idle" /\ Idle.run \in Nat
      BY DEF Idle
    <3> QED  BY <1>0, <1>5, <2>1, <3>1, DraftPut DEF Inserts
  <2>2. CASE ~(NewIds(y, pass[p].n, 1) \subseteq DOMAIN sops)
    <3>1. /\ id \notin DOMAIN sops
          /\ sops' = [i \in DOMAIN sops \cup {id} |-> IF i = id THEN Pending(p) ELSE sops[i]]
          /\ Put(p, Queued(p)) /\ started' = started
      BY <1>5, <2>2, InsertedId
    <3> HIDE DEF id
    <3>2. /\ pass[p] \in PassState /\ old \in Seq(Draft) /\ old # <<>> /\ ~At(p, "idle")
          /\ pass[p].run \in 1 .. started
      BY <1>5 DEF Inserts, At, TypeInv, PassState, NumberInv, Counted, UnderWay
    <3>3. /\ \A i \in 1 .. Len(old) : old[i].run = pass[p].run
          /\ IsFiniteSet(ByRun(pass[p].run))
          /\ pass[p].drafted = Len(old) + Cardinality(ByRun(pass[p].run))
      BY <3>2 DEF DraftInv, Complete
    <3>4. /\ pass'[p] = Queued(p) /\ Queued(p).run = pass[p].run
          /\ Queued(p).sop_drafts = Tail(old) /\ Queued(p).drafted = pass[p].drafted
          /\ \A q \in Processes : q # p => pass'[q] = pass[q]
      BY <3>1, <3>2 DEF Put, TypeInv, Queued, PassState
    <3>5. Pending(p).draft.run = pass[p].run
      <4>1. Head(old) = old[1] /\ 1 \in 1 .. Len(old)
        BY <3>2
      <4>2. Pending(p).draft = old[1]
        BY <4>1 DEF Pending
      <4> QED  BY <3>3, <4>1, <4>2
    <3>6. /\ ByRun(pass[p].run)' = {i \in DOMAIN sops' : sops'[i].draft.run = pass[p].run}
          /\ {i \in DOMAIN sops' : sops'[i].draft.run = pass[p].run} = ByRun(pass[p].run) \cup {id}
      <4>1. ByRun(pass[p].run)' = {i \in DOMAIN sops' : sops'[i].draft.run = pass[p].run}
        BY <3>4 DEF ByRun
      <4>2. {i \in DOMAIN sops' : sops'[i].draft.run = pass[p].run} = ByRun(pass[p].run) \cup {id}
        BY <3>1, <3>5 DEF ByRun
      <4> QED  BY <4>1, <4>2
    <3>7. Len(Tail(old)) = Len(old) - 1 /\ \A i \in 1 .. Len(Tail(old)) : Tail(old)[i] = old[i + 1]
      BY <3>2
    <3>8. Complete(p)'
      <4>1. /\ IsFiniteSet(ByRun(pass[p].run)')
            /\ Cardinality(ByRun(pass[p].run)') = Cardinality(ByRun(pass[p].run)) + 1
        <5>1. id \notin ByRun(pass[p].run)
          BY <3>1 DEF ByRun
        <5> QED  BY <3>3, <3>6, <5>1, FS_AddElement
      <4>2. \A i \in 1 .. Len(Tail(old)) : Tail(old)[i].run = pass[p].run
        <5> TAKE i \in 1 .. Len(Tail(old))
        <5>1. i + 1 \in 1 .. Len(old)
          BY <3>2, <3>7
        <5> QED  BY <3>3, <3>7, <5>1
      <4>3. pass'[p].drafted = Len(Tail(old)) + Cardinality(ByRun(pass[p].run)')
        <5>1. Cardinality(ByRun(pass[p].run)) \in Nat /\ Len(old) \in Nat
          BY <3>2, <3>3, FS_CardinalityType
        <5>2. pass'[p].drafted = Len(old) + Cardinality(ByRun(pass[p].run))
          BY <3>3, <3>4
        <5> QED  BY <3>7, <4>1, <5>1, <5>2
      <4> QED  BY <3>4, <4>1, <4>2, <4>3 DEF Complete
    <3>9. ASSUME NEW q \in Processes, q # p, ~At(q, "idle")
          PROVE  Complete(q)'
      <4>1. pass[q].run # pass[p].run /\ pass'[q] = pass[q] /\ Complete(q)
        BY <3>2, <3>4, <3>9 DEF DraftInv
      <4>2. ByRun(pass[q].run)' = ByRun(pass[q].run)
        BY <3>1, <3>5, <4>1 DEF ByRun
      <4> QED  BY <3>9, <4>1, <4>2 DEF Complete, At
    <3>10. \A q \in Processes : Complete(q)'
      BY <3>4, <3>8, <3>9 DEF Complete, At
    <3>11. \A i \in DOMAIN sops' : sops'[i].draft.run <= started'
      BY <3>1, <3>2, <3>5 DEF DraftInv
    <3>12. \A q, t \in Processes :
             ~At(q, "idle")' /\ ~At(t, "idle")' /\ pass'[q].run = pass'[t].run => q = t
      BY <3>2, <3>4 DEF DraftInv, At
    <3> QED  BY <3>10, <3>11, <3>12 DEF DraftInv
  <2> QED  BY <2>1, <2>2
<1> QED  BY <1>1, <1>2, <1>3, <1>4, <1>5 DEF PassStep

(* Reading and reviewing keeps every draft where it is. *)
LEMMA DraftReview ==
  ASSUME TypeInv, DraftInv, NEW r \in Reviewers, ReviewStep(r)
  PROVE  DraftInv'
<1>1. /\ DOMAIN sops' = DOMAIN sops /\ pass' = pass /\ started' = started
      /\ \A id \in DOMAIN sops : sops'[id].draft = sops[id].draft
  <2>1. CASE list_pending(r)
    BY <2>1 DEF list_pending, stores
  <2>2. CASE approve_sop(r) \/ reject_sop(r)
    <3>1. PICK id \in DOMAIN listing[r], status \in Statuses : Reviews(r, id, status)
      BY <2>2 DEF approve_sop, reject_sop, Statuses
    <3> QED  BY <3>1 DEF Reviews, TypeInv, SOPTemplate
  <2> QED  BY <2>1, <2>2 DEF ReviewStep
<1>2. \A p \in Processes : Complete(p)'
  <2> TAKE p \in Processes
  <2>1. ByRun(pass[p].run)' = ByRun(pass[p].run)
    BY <1>1 DEF ByRun
  <2> QED  BY <1>1, <2>1 DEF DraftInv, Complete, At
<1> QED  BY <1>1, <1>2 DEF DraftInv, At

-----------------------------------------------------------------------------
(* What the reviewers were shown *)

(* The draft a reviewer was shown under an id is the draft there now. *)
ListingInv ==
  \A r \in Reviewers : \A id \in DOMAIN listing[r] : listing[r][id] = sops[id].draft

LEMMA ListingInit == Init => ListingInv
<1>1. DOMAIN <<>> = {}
  OBVIOUS
<1> QED  BY <1>1 DEF Init, ListingInv

LEMMA ListingPass ==
  ASSUME TypeInv, NumberInv, ListingInv, NEW p \in Processes, PassStep(p)
  PROVE  ListingInv'
<1>1. listing' = listing
  BY DEF PassStep, load_episodes, reflect, Dies, SavesNothing, ChecksCollection,
         CreatesCollection, CountsFacts, Upserts, CountsSops, Inserts, Completes
<1>2. \A id \in DOMAIN sops : sops'[id] = sops[id]
  <2>1. CASE Inserts(p)
    <3>1. CASE NewIds(YearOf[pass[p].week], pass[p].n, 1) \subseteq DOMAIN sops
      BY <2>1, <3>1 DEF Inserts
    <3>2. CASE ~(NewIds(YearOf[pass[p].week], pass[p].n, 1) \subseteq DOMAIN sops)
      BY <2>1, <3>2, InsertedId
    <3> QED  BY <3>1, <3>2
  <2>2. CASE ~Inserts(p)
    BY <2>2 DEF PassStep, load_episodes, reflect, Dies, SavesNothing, ChecksCollection,
                CreatesCollection, CountsFacts, Upserts, CountsSops, Completes, stores
  <2> QED  BY <2>1, <2>2
<1> QED  BY <1>1, <1>2 DEF ListingInv, TypeInv

LEMMA ListingReview ==
  ASSUME TypeInv, ListingInv, NEW r \in Reviewers, ReviewStep(r)
  PROVE  ListingInv'
<1>1. CASE list_pending(r)
  <2>1. /\ \A q \in Reviewers : listing'[q] = IF q = r THEN [id \in pending |-> sops[id].draft]
                                             ELSE listing[q]
        /\ sops' = sops
    BY <1>1 DEF list_pending, TypeInv, stores
  <2>2. ASSUME NEW q \in Reviewers, NEW id \in DOMAIN listing'[q]
        PROVE  listing'[q][id] = sops'[id].draft
    <3>1. CASE q = r
      <4>1. listing'[q] = [i \in pending |-> sops[i].draft]
        BY <2>1, <3>1
      <4> QED  BY <2>1, <4>1
    <3>2. CASE q # r
      BY <2>1, <3>2 DEF ListingInv
    <3> QED  BY <3>1, <3>2
  <2> QED  BY <2>2 DEF ListingInv
<1>2. CASE approve_sop(r) \/ reject_sop(r)
  <2>1. PICK id \in DOMAIN listing[r], status \in Statuses : Reviews(r, id, status)
    BY <1>2 DEF approve_sop, reject_sop, Statuses
  <2>2. \A i \in DOMAIN sops : sops'[i].draft = sops[i].draft
    BY <2>1 DEF Reviews, TypeInv, SOPTemplate
  <2> QED  BY <2>1, <2>2 DEF Reviews, ListingInv, TypeInv
<1> QED  BY <1>1, <1>2 DEF ReviewStep

-----------------------------------------------------------------------------
(* Conflicts come from other passes *)

(* What a pass has queued has an id it counted before its next insert. *)
OwnCounted(p) ==
  At(p, "insert") =>
    \A id \in SopIds(YearOf[pass[p].week]) :
      sops[id].draft.run = pass[p].run => id[2] <= pass[p].n

RivalInv == \A p \in Processes : OwnCounted(p)

LEMMA RivalInit == Init => RivalInv
BY DEF Init, RivalInv, OwnCounted, At, Idle

(* A pass that does not count, and finds no new draft of its own. *)
LEMMA RivalFrame ==
  ASSUME NEW q \in Processes, OwnCounted(q), pass'[q] = pass[q],
         At(q, "insert") =>
           \A id \in DOMAIN sops' :
             sops'[id].draft.run = pass[q].run =>
               id \in DOMAIN sops /\ sops[id].draft.run = pass[q].run
  PROVE  OwnCounted(q)'
BY DEF OwnCounted, At, SopIds

LEMMA RivalPass ==
  ASSUME TypeInv, NumberInv, DraftInv, RivalInv, NEW p \in Processes, PassStep(p)
  PROVE  RivalInv'
<1>1. \A q \in Processes : q # p => pass'[q] = pass[q]
  BY DEF PassStep, load_episodes, reflect, Dies, SavesNothing, ChecksCollection,
         CreatesCollection, CountsFacts, Upserts, CountsSops, Inserts, Completes, Put, Goes,
         TypeInv
<1>2. pass[p] \in PassState /\ DOMAIN pass = Processes
  BY DEF TypeInv
<1>3. CASE CountsSops(p)
  <2>1. /\ sops' = sops /\ pass[p].week \in Weeks
        /\ pass'[p].week = pass[p].week /\ pass'[p].n = Cardinality(SopIds(YearOf[pass[p].week]))
    BY <1>2, <1>3 DEF CountsSops, Put, PassState, stores, TypeInv, UnderWay, At
  <2>2. PICK m \in Nat : /\ SopIds(YearOf[pass[p].week]) = NewIds(YearOf[pass[p].week], 0, m)
                         /\ m = Cardinality(SopIds(YearOf[pass[p].week]))
    BY <2>1, NumberedIsCounted DEF NumberInv
  <2>3. \A id \in SopIds(YearOf[pass[p].week]) : id[2] <= m
    BY <2>2 DEF NewIds
  <2>4. OwnCounted(p)'
    BY <2>1, <2>2, <2>3 DEF OwnCounted, SopIds
  <2>5. \A q \in Processes : q # p => OwnCounted(q)'
    BY <1>1, <2>1, RivalFrame DEF RivalInv
  <2> QED  BY <2>4, <2>5 DEF RivalInv
<1>4. CASE Inserts(p)
  <2>1. pass'[p].pc # "insert"
    <3>1. Queued(p).pc = "queue" /\ Idle.pc = "idle"
      BY <1>2 DEF Queued, Idle, PassState
    <3>2. pass'[p] \in {Queued(p), Idle}
      BY <1>2, <1>4 DEF Inserts, Put
    <3> QED  BY <3>1, <3>2
  <2>2. ASSUME NEW q \in Processes, q # p
        PROVE  OwnCounted(q)'
    <3>1. CASE NewIds(YearOf[pass[p].week], pass[p].n, 1) \subseteq DOMAIN sops
      BY <1>1, <1>4, <2>2, <3>1, RivalFrame DEF Inserts, RivalInv
    <3>2. CASE ~(NewIds(YearOf[pass[p].week], pass[p].n, 1) \subseteq DOMAIN sops)
      <4> DEFINE id == <<YearOf[pass[p].week], pass[p].n + 1>>
      <4>1. sops' = [i \in DOMAIN sops \cup {id} |-> IF i = id THEN Pending(p) ELSE sops[i]]
        BY <1>4, <3>2, InsertedId
      <4>2. /\ At(p, "insert") /\ pass[p].sop_drafts \in Seq(Draft)
            /\ pass[p].sop_drafts # <<>>
        BY <1>2, <1>4 DEF Inserts, PassState, NumberInv, Counted
      <4>3. Pending(p).draft.run = pass[p].run
        BY <4>2 DEF Pending, DraftInv, Complete, At
      <4>4. At(q, "insert") => pass[q].run # pass[p].run
        BY <2>2, <4>2 DEF DraftInv, At
      <4> HIDE DEF id
      <4>5. At(q, "insert") =>
              \A i \in DOMAIN sops' :
                sops'[i].draft.run = pass[q].run =>
                  i \in DOMAIN sops /\ sops[i].draft.run = pass[q].run
        BY <4>1, <4>3, <4>4
      <4> QED  BY <1>1, <2>2, <4>5, RivalFrame DEF RivalInv
    <3> QED  BY <3>1, <3>2
  <2> QED  BY <2>1, <2>2 DEF RivalInv, OwnCounted, At
<1>5. CASE ~CountsSops(p) /\ ~Inserts(p)
  <2>1. sops' = sops
    BY <1>5 DEF PassStep, load_episodes, reflect, Dies, SavesNothing, ChecksCollection,
                CreatesCollection, CountsFacts, Upserts, Completes, stores
  <2>2. pass'[p].pc # "insert"
    <3>1. CASE \E t \in Types : reflect(p, t)
      BY <1>2, <3>1 DEF reflect, Put, PassState, At
    <3>2. CASE load_episodes(p)
      BY <1>2, <3>2 DEF load_episodes, Put, Idle
    <3>3. CASE ~(\E t \in Types : reflect(p, t)) /\ ~load_episodes(p)
      <4>1. \A pc : Goes(p, pc) => pass'[p].pc = pc
        BY <1>2 DEF Goes, Put, PassState
      <4>2. Put(p, Idle) => pass'[p].pc = "idle"
        BY <1>2 DEF Put, Idle
      <4>3. CASE CountsFacts(p) \/ Upserts(p)
        BY <1>2, <4>3 DEF CountsFacts, Upserts, Put, PassState
      <4>4. CASE ~CountsFacts(p) /\ ~Upserts(p)
        BY <1>5, <3>3, <4>1, <4>2, <4>4 DEF PassStep, Dies, SavesNothing, ChecksCollection,
           CreatesCollection, Completes
      <4> QED  BY <4>3, <4>4
    <3> QED  BY <3>1, <3>2, <3>3
  <2>3. \A q \in Processes : q # p => OwnCounted(q)'
    BY <1>1, <2>1, RivalFrame DEF RivalInv
  <2> QED  BY <2>2, <2>3 DEF RivalInv, OwnCounted, At
<1> QED  BY <1>3, <1>4, <1>5

LEMMA RivalReview ==
  ASSUME TypeInv, RivalInv, NEW r \in Reviewers, ReviewStep(r)
  PROVE  RivalInv'
<1>1. /\ pass' = pass /\ DOMAIN sops' = DOMAIN sops
      /\ \A id \in DOMAIN sops : sops'[id].draft = sops[id].draft
  <2>1. CASE list_pending(r)
    BY <2>1 DEF list_pending, stores
  <2>2. CASE approve_sop(r) \/ reject_sop(r)
    <3>1. PICK id \in DOMAIN listing[r], status \in Statuses : Reviews(r, id, status)
      BY <2>2 DEF approve_sop, reject_sop, Statuses
    <3> QED  BY <3>1 DEF Reviews, TypeInv, SOPTemplate
  <2> QED  BY <2>1, <2>2 DEF ReviewStep
<1> QED  BY <1>1, RivalFrame DEF RivalInv

-----------------------------------------------------------------------------
(* The theorems *)

IInv == TypeInv /\ NumberInv /\ DraftInv /\ ListingInv /\ RivalInv

LEMMA IInvInit == Init => IInv
BY TypeInit, NumberInit, DraftInit, ListingInit, RivalInit DEF IInv

LEMMA IInvNext == IInv /\ [Next]_vars => IInv'
<1> SUFFICES ASSUME IInv, [Next]_vars PROVE IInv'
  OBVIOUS
<1> USE DEF IInv
<1>1. ASSUME NEW p \in Processes, PassStep(p)
      PROVE  IInv'
  BY <1>1, TypePass, NumberPass, DraftPass, ListingPass, RivalPass
<1>2. ASSUME NEW r \in Reviewers, ReviewStep(r)
      PROVE  IInv'
  BY <1>2, TypeReview, NumberReview, DraftReview, ListingReview, RivalReview
<1>3. CASE UNCHANGED vars
  <2>1. TypeInv'
    BY <1>3 DEF vars, TypeInv, UnderWay, At
  <2>2. NumberInv'
    BY <1>3 DEF vars, NumberInv, Numbered, Counted, At, FactIds, SopIds
  <2>3. DraftInv'
    BY <1>3 DEF vars, DraftInv, Complete, At, ByRun
  <2>4. ListingInv'
    BY <1>3 DEF vars, ListingInv
  <2>5. RivalInv'
    BY <1>3 DEF vars, RivalInv, OwnCounted, At, SopIds
  <2> QED  BY <2>1, <2>2, <2>3, <2>4, <2>5
<1> QED  BY <1>1, <1>2, <1>3 DEF Next

(***************************************************************************)
(* The invariant holds throughout: types, contiguous numbers, complete     *)
(* passes, faithful listings.                                              *)
(***************************************************************************)
THEOREM Invariance == Spec => []IInv
BY IInvInit, IInvNext, PTL DEF Spec

(***************************************************************************)
(* Type correctness of the collection, the table, the passes and the       *)
(* reviewers' listings.                                                    *)
(***************************************************************************)
THEOREM TypeCorrect == Spec => []TypeOK
<1>1. IInv => TypeOK
  <2> SUFFICES ASSUME IInv PROVE TypeOK
    OBVIOUS
  <2>1. TypeInv
    BY DEF IInv
  <2>2. Range(facts) \subseteq Draft /\ Range(sops) \subseteq SOPTemplate
    BY <2>1 DEF TypeInv, Range
  <2>3. \A r \in Reviewers : /\ DOMAIN listing[r] \subseteq DOMAIN sops
                             /\ Range(listing[r]) \subseteq Draft
    BY <2>1 DEF TypeInv, Range
  <2> QED  BY <2>1, <2>2, <2>3 DEF TypeInv, TypeOK, PassState, Cases
<1> QED  BY <1>1, Invariance, PTL

(***************************************************************************)
(* However passes race and die, the ids of a week and of a year have no    *)
(* gap (memory/semantic.py:92, memory/procedural.py:114): counting is a    *)
(* sound way to number as long as nothing is ever deleted.                 *)
(***************************************************************************)
THEOREM Contiguous == Spec => []IdsAreContiguous
<1>1. IInv => IdsAreContiguous
  BY NumberedIsCounted DEF IInv, NumberInv, IdsAreContiguous
<1> QED  BY <1>1, Invariance, PTL

(***************************************************************************)
(* Until it completes or dies a pass has all the SOPs it drafted, in the   *)
(* table or in hand (core/reflection.py:129), and the id of its next one   *)
(* is taken only by another pass (core/reflection.py:134).                 *)
(***************************************************************************)
THEOREM DraftsKept == Spec => []DraftsKeptUntilPassEnds
<1>1. ASSUME IInv, NEW p \in Processes, At(p, "insert"),
             NEW id \in NewIds(YearOf[pass[p].week], pass[p].n, 1) \cap DOMAIN sops
      PROVE  sops[id].draft.run # pass[p].run
  <2>1. pass[p].n \in Nat /\ id = <<YearOf[pass[p].week], pass[p].n + 1>>
    BY <1>1 DEF IInv, TypeInv, PassState, NewIds
  <2>2. id \in SopIds(YearOf[pass[p].week]) /\ ~(id[2] <= pass[p].n)
    BY <1>1, <2>1 DEF SopIds
  <2> QED  BY <1>1, <2>2 DEF IInv, RivalInv, OwnCounted
<1>2. IInv => DraftsKeptUntilPassEnds
  BY <1>1 DEF IInv, DraftInv, Complete, DraftsKeptUntilPassEnds, ByRun, At
<1> QED  BY <1>2, Invariance, PTL

(***************************************************************************)
(* An upsert replaces a fact only if another one of the week came between  *)
(* its count and itself (memory/semantic.py:94).                           *)
(***************************************************************************)
THEOREM ReplacedByRaceOnly == Spec => OnlyRacesReplaceFacts
<1>1. ASSUME IInv, [Next]_vars, NEW id \in DOMAIN facts, facts'[id] # facts[id]
      PROVE  \E p \in Processes : /\ At(p, "upsert") /\ pass[p].week = id[1]
                                 /\ pass[p].n < Cardinality(FactIds(id[1]))
  <2>1. PICK p \in Processes : Upserts(p)
    BY <1>1 DEF Next, vars, PassStep, ReviewStep, load_episodes, reflect, Dies, SavesNothing,
                ChecksCollection, CreatesCollection, CountsFacts, CountsSops, Inserts, Completes,
                list_pending, approve_sop, reject_sop, Reviews, stores
  <2> DEFINE week == pass[p].week
             new == NewIds(week, pass[p].n, Len(pass[p].fact_drafts))
  <2>2. id \in new
    BY <1>1, <2>1 DEF Upserts, Overlay
  <2>3. PICK i \in 1 .. Len(pass[p].fact_drafts) : id = <<week, pass[p].n + i>>
    BY <2>2 DEF NewIds
  <2>4. /\ week \in Weeks /\ pass[p].n \in Nat /\ Len(pass[p].fact_drafts) \in Nat
        /\ At(p, "upsert")
    BY <1>1, <2>1 DEF IInv, TypeInv, UnderWay, Upserts, At, PassState
  <2>5. id \in FactIds(week) /\ Cardinality(FactIds(week)) \in Nat
    BY <1>1, <2>3, <2>4, CountsAreNumbers DEF FactIds, IInv
  <2>6. FactIds(week) = NewIds(week, 0, Cardinality(FactIds(week)))
    BY <1>1, <2>4, NumberedIsCounted DEF IInv, NumberInv
  <2>7. PICK j \in 1 .. Cardinality(FactIds(week)) : id = <<week, 0 + j>>
    BY <2>5, <2>6 DEF NewIds
  <2>8. pass[p].n + i = j /\ pass[p].n < Cardinality(FactIds(week))
    BY <2>3, <2>4, <2>5, <2>7
  <2> QED  BY <2>3, <2>4, <2>8
<1>2. IInv /\ [Next]_vars =>
        [\A id \in DOMAIN facts : facts'[id] # facts[id] =>
           \E p \in Processes : /\ At(p, "upsert") /\ pass[p].week = id[1]
                                /\ pass[p].n < Cardinality(FactIds(id[1]))]_vars
  BY <1>1
<1> QED  BY <1>2, Invariance, PTL DEF Spec, OnlyRacesReplaceFacts

(***************************************************************************)
(* A SOP that becomes active is the draft its reviewer was shown           *)
(* (memory/procedural.py:9), whatever was queued in between.               *)
(***************************************************************************)
THEOREM SignedOff == Spec => ApprovedAsSeen
<1>1. ASSUME IInv, [Next]_vars, NEW id \in DOMAIN sops', sops'[id].status = "active"
      PROVE  \/ id \in DOMAIN sops /\ sops[id] = sops'[id]
             \/ \E r \in Reviewers : /\ id \in DOMAIN listing[r]
                                     /\ listing[r][id] = sops'[id].draft
  <2>1. ASSUME NEW p \in Processes, Inserts(p)
        PROVE  id \in DOMAIN sops /\ sops[id] = sops'[id]
    <3>1. CASE NewIds(YearOf[pass[p].week], pass[p].n, 1) \subseteq DOMAIN sops
      BY <1>1, <2>1, <3>1 DEF Inserts
    <3>2. CASE ~(NewIds(YearOf[pass[p].week], pass[p].n, 1) \subseteq DOMAIN sops)
      <4>1. Pending(p).status # "active"
        BY DEF Pending
      <4>2. \E new : /\ new \notin DOMAIN sops
                     /\ sops' = [i \in DOMAIN sops \cup {new} |->
                                  IF i = new THEN Pending(p) ELSE sops[i]]
        BY <1>1, <2>1, <3>2, InsertedId DEF IInv
      <4> QED  BY <1>1, <4>1, <4>2
    <3> QED  BY <3>1, <3>2
  <2>2. ASSUME NEW r \in Reviewers, approve_sop(r) \/ reject_sop(r)
        PROVE  \/ id \in DOMAIN sops /\ sops[id] = sops'[id]
               \/ id \in DOMAIN listing[r] /\ listing[r][id] = sops'[id].draft
    <3>1. PICK i \in DOMAIN listing[r], status \in Statuses : Reviews(r, i, status)
      BY <2>2 DEF approve_sop, reject_sop, Statuses
    <3>2. /\ DOMAIN sops' = DOMAIN sops /\ sops'[i].draft = sops[i].draft
          /\ \A k \in DOMAIN sops : k # i => sops'[k] = sops[k]
      BY <1>1, <3>1 DEF Reviews, IInv, TypeInv, SOPTemplate
    <3>3. listing[r][i] = sops[i].draft
      BY <1>1 DEF IInv, ListingInv
    <3> QED  BY <1>1, <3>2, <3>3
  <2>3. CASE UNCHANGED sops
    BY <1>1, <2>3
  <2> QED  BY <1>1, <2>1, <2>2, <2>3
           DEF Next, vars, PassStep, ReviewStep, load_episodes, reflect, Dies, SavesNothing,
               ChecksCollection, CreatesCollection, CountsFacts, CountsSops, Upserts, Completes,
               list_pending, stores
<1>2. IInv /\ [Next]_vars =>
        [\A id \in DOMAIN sops' :
           sops'[id].status = "active" =>
             \/ id \in DOMAIN sops /\ sops[id] = sops'[id]
             \/ \E r \in Reviewers : /\ id \in DOMAIN listing[r]
                                     /\ listing[r][id] = sops'[id].draft]_vars
  BY <1>1
<1> QED  BY <1>2, Invariance, PTL DEF Spec, ApprovedAsSeen
=============================================================================
