----------------------- MODULE SpecialistSubgraphProofs -----------------------
(***************************************************************************)
(* Proofs about SpecialistSubgraph, for any number of branches, any corpus *)
(* and any cut-off: the two locks, the single stack, that the subgraph     *)
(* implements SubtaskContract, and what a branch can retrieve from an      *)
(* index that an ingest replaces under it.                                 *)
(***************************************************************************)
EXTENDS SpecialistSubgraph, StandardsCorpusProofs, TLAPS

-----------------------------------------------------------------------------
(* What one step of a caller does to its state *)

Fields == {"pc", "model", "queries", "rewrites", "evidence", "candidates"}

(* The callers' states are SpecialistStates, with a count of rewrites. *)
Shape ==
  /\ DOMAIN caller = Callers
  /\ \A c \in Callers : /\ DOMAIN caller[c] = Fields
                        /\ caller[c].rewrites \in Nat /\ caller[c].pc \in Pc

Gathering == {"queued", "decompose"} \cup Retrieving

(* A step of c in the terms of the contract: from `old` to `new`. *)
Progress(c, old, new) ==
  LET Same == old.rewrites = new.rewrites /\ old.evidence = new.evidence
  IN  \/ /\ old.pc \in Gathering /\ new.pc \in Gathering \cup {"grade"}
         /\ old.rewrites = new.rewrites /\ old.evidence \subseteq new.evidence
      \/ old.pc = "grade" /\ new.pc = "generate" /\ Same
      \/ /\ old.pc = "grade" /\ new.pc = "rewrite" /\ Same
         /\ old.rewrites < MAX_REWRITES
      \/ /\ old.pc = "rewrite" /\ new.pc = "get_stack"
         /\ new.rewrites = old.rewrites + 1 /\ old.evidence = new.evidence
      \/ old.pc = "generate" /\ new.pc \in {"diagnosed", "failed"} /\ Same
      \/ old.pc \notin Ended /\ new.pc = "raised" /\ Same
      \/ old.pc = new.pc /\ Same
      \/ c = WarmUp /\ new.pc = "warmed" /\ old.rewrites = new.rewrites

Effect(c) ==
  /\ DOMAIN caller' = Callers /\ DOMAIN caller'[c] = Fields
  /\ \A d \in Callers \ {c} : caller'[d] = caller[d]
  /\ caller'[c].pc \in Pc
  /\ Progress(c, caller[c], caller'[c])

(* Answering a query, with some hits or with none. *)
LEMMA ReturnedProgress ==
  ASSUME NEW c \in Callers, NEW hits, DOMAIN caller[c] = Fields, caller[c].pc \in Retrieving
  PROVE  /\ DOMAIN Returned(c, hits) = Fields
         /\ Returned(c, hits).pc \in {"get_stack", "warmed", "grade"}
         /\ Progress(c, caller[c], Returned(c, hits))
BY DEF Returned, Fields, Progress, Gathering, Retrieving, Building, OnGpu

LEMMA PutEffect ==
  ASSUME Shape, NEW c \in Callers, NEW s, Put(c, s), DOMAIN s = Fields,
         s.pc \in Pc, Progress(c, caller[c], s)
  PROVE  Effect(c)
BY DEF Shape, Put, Effect

(* A new place, and nothing the contract tells apart. *)
LEMMA GoesEffect ==
  ASSUME Shape, NEW c \in Callers, NEW pc \in Pc, Goes(c, pc),
         \/ caller[c].pc \in Gathering /\ pc \in Gathering \cup {"grade"}
         \/ caller[c].pc \notin Ended /\ pc = "raised"
  PROVE  Effect(c)
<1> DEFINE s == [caller[c] EXCEPT !.pc = pc]
<1>1. DOMAIN caller[c] = Fields
  BY DEF Shape
<1>2. /\ DOMAIN s = Fields /\ s.pc = pc /\ s.rewrites = caller[c].rewrites
      /\ s.evidence = caller[c].evidence
  BY <1>1 DEF Fields
<1>3. Put(c, s)
  BY DEF Goes
<1> HIDE DEF s
<1> QED  BY <1>2, <1>3, PutEffect DEF Progress

LEMMA HasStackEffect ==
  ASSUME Shape, NEW c \in Callers, NEW index, caller[c].pc \in Retrieving, HasStack(c, index)
  PROVE  Effect(c) /\ caller'[c].pc \in {"get_stack", "warmed", "grade", "embed"}
<1>1. DOMAIN caller[c] = Fields
  BY DEF Shape
<1>2. CASE index.docs = <<>>
  <2>1. Put(c, Returned(c, {}))
    BY <1>2 DEF HasStack
  <2>2. /\ DOMAIN Returned(c, {}) = Fields /\ Progress(c, caller[c], Returned(c, {}))
        /\ Returned(c, {}).pc \in {"get_stack", "warmed", "grade"}
    BY <1>1, ReturnedProgress
  <2>3. Returned(c, {}).pc \in Pc
    BY <2>2 DEF Pc, Retrieving, LlmNodes, Ended
  <2>4. caller'[c] = Returned(c, {})
    BY <2>1 DEF Put, Shape
  <2> QED  BY <2>1, <2>2, <2>3, <2>4, PutEffect
<1>3. CASE index.docs # <<>>
  <2>1. Goes(c, "embed")
    BY <1>3 DEF HasStack, Goes
  <2>2. caller'[c].pc = "embed"
    BY <1>1, <2>1 DEF Goes, Put, Shape, Fields
  <2> QED  BY <2>1, <2>2, GoesEffect DEF Gathering, Retrieving, Pc
<1> QED  BY <1>2, <1>3

(* The same for a state that a node of the subgraph returns. *)
LEMMA NodeEffect ==
  ASSUME Shape, NEW c \in Callers, NEW s, Put(c, s),
         DOMAIN s = Fields, s.evidence = caller[c].evidence,
         \/ s.pc = caller[c].pc /\ s.rewrites = caller[c].rewrites
         \/ caller[c].pc = "decompose" /\ s.pc = "get_stack" /\ s.rewrites = caller[c].rewrites
         \/ caller[c].pc = "grade" /\ s.pc = "generate" /\ s.rewrites = caller[c].rewrites
         \/ /\ caller[c].pc = "grade" /\ s.pc = "rewrite" /\ s.rewrites = caller[c].rewrites
            /\ caller[c].rewrites < MAX_REWRITES
         \/ caller[c].pc = "rewrite" /\ s.pc = "get_stack" /\ s.rewrites = caller[c].rewrites + 1
         \/ /\ caller[c].pc = "generate" /\ s.pc \in {"diagnosed", "failed"}
            /\ s.rewrites = caller[c].rewrites
  PROVE  Effect(c)
<1>1. s.pc \in Pc
  BY DEF Shape, Pc, LlmNodes, Retrieving, Ended
<1>2. Progress(c, caller[c], s)
  BY DEF Progress, Gathering, Retrieving
<1> QED  BY <1>1, <1>2, PutEffect

LEMMA LlmEffect ==
  ASSUME Shape, NEW c \in Callers, LlmStep(c)
  PROVE  /\ Effect(c) /\ caller[c].pc \in LlmNodes
         /\ caller'[c].pc \in LlmNodes \cup {"raised", "get_stack", "diagnosed", "failed"}
<1>1. /\ DOMAIN caller = Callers /\ DOMAIN caller[c] = Fields /\ caller[c].rewrites \in Nat
      /\ caller[c].pc \in Pc
  BY DEF Shape
<1>2. \A s : Put(c, s) => caller'[c] = s
  BY <1>1 DEF Put
<1>3. CASE RouterFallsBack(c)
  <2> DEFINE s == [caller[c] EXCEPT !.model = "fallback"]
  <2>1. /\ DOMAIN s = Fields /\ s.pc = caller[c].pc /\ s.rewrites = caller[c].rewrites
        /\ s.evidence = caller[c].evidence
    BY <1>1 DEF Fields
  <2>2. Put(c, s) /\ caller[c].pc \in LlmNodes
    BY <1>3 DEF RouterFallsBack
  <2> HIDE DEF s
  <2> QED  BY <1>2, <2>1, <2>2, NodeEffect
<1>4. CASE RouterRaises(c)
  <2>1. Goes(c, "raised") /\ caller[c].pc \in LlmNodes
    BY <1>4 DEF RouterRaises
  <2>2. caller'[c].pc = "raised"
    BY <1>1, <2>1 DEF Goes, Put, Fields
  <2>3. "raised" \in Pc /\ caller[c].pc \notin Ended
    BY <2>1 DEF Pc, Ended, LlmNodes
  <2> QED  BY <2>1, <2>2, <2>3, GoesEffect
<1>5. CASE Decompose(c)
  <2>1. PICK n \in 1 .. MaxSubQueries :
          Put(c, [Replied(c) EXCEPT !.pc = "get_stack", !.queries = n])
    BY <1>5 DEF Decompose
  <2> DEFINE s == [Replied(c) EXCEPT !.pc = "get_stack", !.queries = n]
  <2>2. /\ DOMAIN s = Fields /\ s.pc = "get_stack" /\ s.rewrites = caller[c].rewrites
        /\ s.evidence = caller[c].evidence
    BY <1>1 DEF Fields, Replied
  <2>3. Put(c, s) /\ caller[c].pc = "decompose"
    BY <1>5, <2>1 DEF Decompose, At
  <2> HIDE DEF s
  <2> QED  BY <1>2, <2>2, <2>3, NodeEffect DEF LlmNodes
<1>6. CASE Grade(c)
  <2>1. PICK yes \in BOOLEAN :
          Put(c, [Replied(c) EXCEPT
                    !.pc = IF yes \/ caller[c].rewrites >= MAX_REWRITES
                           THEN "generate" ELSE "rewrite"])
    BY <1>6 DEF Grade
  <2> DEFINE pc == IF yes \/ caller[c].rewrites >= MAX_REWRITES THEN "generate" ELSE "rewrite"
             s == [Replied(c) EXCEPT !.pc = pc]
  <2>2. \/ pc = "generate"
        \/ pc = "rewrite" /\ caller[c].rewrites < MAX_REWRITES
    BY <1>1, SubgraphAssumption
  <2>3. Put(c, s) /\ caller[c].pc = "grade"
    BY <1>6, <2>1 DEF Grade, At
  <2> HIDE DEF pc
  <2>4. /\ DOMAIN s = Fields /\ s.pc = pc /\ s.rewrites = caller[c].rewrites
        /\ s.evidence = caller[c].evidence
    BY <1>1 DEF Fields, Replied
  <2> HIDE DEF s
  <2> QED  BY <1>2, <2>2, <2>3, <2>4, NodeEffect DEF LlmNodes
<1>7. CASE Rewrite(c)
  <2> DEFINE s == [Replied(c) EXCEPT !.pc = "get_stack", !.queries = 1, !.rewrites = @ + 1]
  <2>1. /\ DOMAIN s = Fields /\ s.pc = "get_stack" /\ s.rewrites = caller[c].rewrites + 1
        /\ s.evidence = caller[c].evidence
    BY <1>1 DEF Fields, Replied
  <2>2. Put(c, s) /\ caller[c].pc = "rewrite"
    BY <1>7 DEF Rewrite, At
  <2> HIDE DEF s
  <2> QED  BY <1>2, <2>1, <2>2, NodeEffect DEF LlmNodes
<1>8. CASE Generate(c)
  <2>1. PICK end \in {"diagnosed", "failed"} : Put(c, [Replied(c) EXCEPT !.pc = end])
    BY <1>8 DEF Generate
  <2> DEFINE s == [Replied(c) EXCEPT !.pc = end]
  <2>2. /\ DOMAIN s = Fields /\ s.pc = end /\ s.rewrites = caller[c].rewrites
        /\ s.evidence = caller[c].evidence
    BY <1>1 DEF Fields, Replied
  <2>3. Put(c, s) /\ caller[c].pc = "generate"
    BY <1>8, <2>1 DEF Generate, At
  <2> HIDE DEF s
  <2> QED  BY <1>2, <2>2, <2>3, NodeEffect DEF LlmNodes
<1> QED  BY <1>3, <1>4, <1>5, <1>6, <1>7, <1>8 DEF LlmStep

-----------------------------------------------------------------------------
(* The locks *)

(* Who builds the stack, and nobody else, holds _stack_lock, and there is  *)
(* no stack yet; who is in a forward pass, and nobody else, _gpu_lock.     *)
LockInv ==
  \A c \in Callers :
    /\ stackLock = c <=> caller[c].pc \in Building
    /\ caller[c].pc \in {"scrolling", "scrolled"} => stack = None
    /\ gpuLock = c <=> caller[c].pc \in OnGpu

(* A step of c that leaves a lock alone, takes it when it is free, or gives *)
(* it up as it leaves the places that need it.                              *)
Locking(c, lock, lock_, places) ==
  LET before == caller[c].pc \in places
      after == caller'[c].pc \in places
  IN  \/ lock_ = lock /\ (before <=> after)
      \/ lock = None /\ lock_ = c /\ after
      \/ before /\ lock_ = None /\ ~after

LEMMA LockFrame ==
  ASSUME LockInv, NEW c \in Callers, Effect(c),
         Locking(c, stackLock, stackLock', Building),
         Locking(c, gpuLock, gpuLock', OnGpu),
         stack' = stack \/ stackLock = c,
         caller'[c].pc \in {"scrolling", "scrolled"} => stack' = None
  PROVE  LockInv'
<1>0. None \notin Callers
  BY SubgraphAssumption
<1>1. ASSUME NEW d \in Callers, d # c
      PROVE  /\ stackLock' = d <=> caller'[d].pc \in Building
             /\ caller'[d].pc \in {"scrolling", "scrolled"} => stack' = None
             /\ gpuLock' = d <=> caller'[d].pc \in OnGpu
  <2>1. caller'[d] = caller[d]
    BY <1>1 DEF Effect
  <2>2. /\ stackLock' = d <=> stackLock = d
        /\ gpuLock' = d <=> gpuLock = d
    BY <1>0, <1>1 DEF Locking, LockInv
  <2> QED  BY <1>1, <2>1, <2>2 DEF LockInv, Building
<1>2. /\ stackLock' = c <=> caller'[c].pc \in Building
      /\ gpuLock' = c <=> caller'[c].pc \in OnGpu
  BY <1>0 DEF Locking, LockInv
<1> QED  BY <1>1, <1>2 DEF LockInv

(* What a step of c does to what is not its own. *)
Settled(c) == Effect(c) /\ LockInv' /\ (stack # None => stack' = stack)

LEMMA StartSettled ==
  ASSUME Shape, LockInv, NEW c \in Callers, Start(c)
  PROVE  Settled(c)
<1>1. DOMAIN caller = Callers /\ DOMAIN caller[c] = Fields /\ caller[c].pc = "queued"
  BY DEF Shape, Start, Prewarms, WarmsFirst, Warms,
     StartsSubtask, StartsSample, At
<1>2. UNCHANGED <<stack, stackLock, gpuLock>>
  BY DEF Start, Prewarms, WarmsFirst, Warms,
     StartsSubtask, StartsSample
<1>3. Effect(c) /\ caller'[c].pc \in {"get_stack", "decompose"}
  <2>1. CASE c = WarmUp
    <3> DEFINE s == [caller[c] EXCEPT !.pc = "get_stack", !.queries = 1]
    <3>1. /\ DOMAIN s = Fields /\ s.pc = "get_stack" /\ s.rewrites = caller[c].rewrites
          /\ s.evidence = caller[c].evidence
      BY <1>1 DEF Fields
    <3>2. Put(c, s)
      BY <2>1 DEF Start, Prewarms, WarmsFirst, Warms,
     StartsSubtask, StartsSample
    <3> HIDE DEF s
    <3>3. s.pc \in Pc /\ Progress(c, caller[c], s)
      BY <1>1, <3>1 DEF Progress, Gathering, Retrieving, Pc
    <3>4. caller'[c] = s
      BY <1>1, <3>2 DEF Put
    <3> QED  BY <3>1, <3>2, <3>3, <3>4, PutEffect
  <2>2. CASE c # WarmUp
    <3>1. Goes(c, "decompose")
      BY <2>2 DEF Start, Prewarms, WarmsFirst, Warms,
     StartsSubtask, StartsSample
    <3>2. caller'[c].pc = "decompose"
      BY <1>1, <3>1 DEF Goes, Put, Fields
    <3> QED  BY <1>1, <3>1, <3>2, GoesEffect DEF Gathering, Pc, LlmNodes
  <2> QED  BY <2>1, <2>2
<1>4. LockInv'
  BY <1>1, <1>2, <1>3, LockFrame DEF Locking, Building, OnGpu
<1> QED  BY <1>2, <1>3, <1>4 DEF Settled

LEMMA LlmSettled ==
  ASSUME Shape, LockInv, NEW c \in Callers, LlmStep(c)
  PROVE  Settled(c)
<1>1. /\ Effect(c) /\ caller[c].pc \in LlmNodes
      /\ caller'[c].pc \in LlmNodes \cup {"raised", "get_stack", "diagnosed", "failed"}
  BY LlmEffect
<1>2. UNCHANGED <<stack, stackLock, gpuLock>>
  BY DEF LlmStep, RouterFallsBack, RouterRaises, Decompose, Grade, Rewrite, Generate
<1>3. LockInv'
  BY <1>1, <1>2, LockFrame DEF Locking, Building, OnGpu, LlmNodes
<1> QED  BY <1>1, <1>2, <1>3 DEF Settled

LEMMA StackSettled ==
  ASSUME Shape, LockInv, NEW c \in Callers, StackStep(c)
  PROVE  Settled(c)
<1>1. /\ DOMAIN caller = Callers /\ DOMAIN caller[c] = Fields /\ None \notin Callers
  BY SubgraphAssumption DEF Shape
<1>2. ASSUME NEW pc \in Pc, Goes(c, pc)
      PROVE  caller'[c].pc = pc
  BY <1>1, <1>2 DEF Goes, Put, Fields
<1>3. {"waiting", "locked", "scrolling", "scrolled", "raised", "get_stack"} \subseteq Pc
  BY DEF Pc, Retrieving, Building, Ended
<1>4. /\ {"waiting", "locked", "scrolling", "scrolled", "get_stack"} \subseteq Gathering
      /\ Retrieving \cap Ended = {} /\ Building \subseteq Retrieving
  BY DEF Gathering, Retrieving, Building, Ended, OnGpu
<1>5. CASE FindsStack(c)
  <2>1. Effect(c) /\ caller'[c].pc \in {"get_stack", "warmed", "grade", "embed"}
    BY <1>5, HasStackEffect DEF FindsStack, At, Retrieving
  <2>2. UNCHANGED <<stack, stackLock, gpuLock>> /\ caller[c].pc = "get_stack"
    BY <1>5 DEF FindsStack, At
  <2>3. LockInv'
    BY <2>1, <2>2, LockFrame DEF Locking, Building, OnGpu
  <2> QED  BY <2>1, <2>2, <2>3 DEF Settled
<1>6. CASE MissesStack(c)
  <2>1. Goes(c, "waiting") /\ UNCHANGED <<stack, stackLock, gpuLock>> /\ caller[c].pc = "get_stack"
    BY <1>6 DEF MissesStack, At
  <2>2. Effect(c) /\ caller'[c].pc = "waiting"
    BY <1>2, <1>3, <1>4, <2>1, GoesEffect
  <2>3. LockInv'
    BY <2>1, <2>2, LockFrame DEF Locking, Building, OnGpu
  <2> QED  BY <2>1, <2>2, <2>3 DEF Settled
<1>7. CASE LocksStack(c)
  <2>1. /\ Goes(c, "locked") /\ UNCHANGED <<stack, gpuLock>> /\ caller[c].pc = "waiting"
        /\ stackLock = None /\ stackLock' = c
    BY <1>7 DEF LocksStack, At
  <2>2. Effect(c) /\ caller'[c].pc = "locked"
    BY <1>2, <1>3, <1>4, <2>1, GoesEffect
  <2>3. LockInv'
    BY <1>1, <2>1, <2>2, LockFrame DEF Locking, Building, OnGpu
  <2> QED  BY <2>1, <2>2, <2>3 DEF Settled
<1>8. CASE FindsStackLocked(c)
  <2>1. /\ caller[c].pc = "locked" /\ UNCHANGED <<stack, gpuLock>> /\ stackLock' = None
    BY <1>8 DEF FindsStackLocked, At, LockInv, Building
  <2>2. Effect(c) /\ caller'[c].pc \in {"get_stack", "warmed", "grade", "embed"}
    BY <1>4, <1>8, <2>1, HasStackEffect DEF FindsStackLocked, Building
  <2>3. LockInv'
    BY <2>1, <2>2, LockFrame DEF Locking, Building, OnGpu
  <2> QED  BY <2>1, <2>2, <2>3 DEF Settled
<1>9. CASE LoadStarts(c)
  <2>1. PICK pc \in {"scrolled", "scrolling"} : Goes(c, pc)
    BY <1>9 DEF LoadStarts
  <2>2. /\ caller[c].pc = "locked" /\ UNCHANGED <<stack, stackLock, gpuLock>> /\ stackLock = c
        /\ stack = None
    BY <1>9 DEF LoadStarts, At, LockInv, Building
  <2>3. Effect(c) /\ caller'[c].pc = pc
    BY <1>2, <1>3, <1>4, <2>1, <2>2, GoesEffect
  <2>4. LockInv'
    BY <2>2, <2>3, LockFrame DEF Locking, Building, OnGpu
  <2> QED  BY <2>2, <2>3, <2>4 DEF Settled
<1>10. CASE ScrollsPage(c)
  <2>1. PICK pc \in {"scrolled", "scrolling"} : Goes(c, pc)
    BY <1>10 DEF ScrollsPage
  <2>2. /\ caller[c].pc = "scrolling" /\ UNCHANGED <<stack, stackLock, gpuLock>>
        /\ stackLock = c /\ stack = None
    BY <1>10 DEF ScrollsPage, At, LockInv, Building
  <2>3. Effect(c) /\ caller'[c].pc = pc
    BY <1>2, <1>3, <1>4, <2>1, <2>2, GoesEffect
  <2>4. LockInv'
    BY <2>2, <2>3, LockFrame DEF Locking, Building, OnGpu
  <2> QED  BY <2>2, <2>3, <2>4 DEF Settled
<1>11. CASE StackBuilt(c)
  <2>1. /\ caller[c].pc = "scrolled" /\ UNCHANGED gpuLock /\ stackLock = c /\ stack = None
        /\ stackLock' = None
    BY <1>11 DEF StackBuilt, At, LockInv, Building
  <2>2. Effect(c) /\ caller'[c].pc \in {"get_stack", "warmed", "grade", "embed"}
    BY <1>4, <1>11, <2>1, HasStackEffect DEF StackBuilt, Building
  <2>3. LockInv'
    BY <2>1, <2>2, LockFrame DEF Locking, Building, OnGpu
  <2> QED  BY <2>1, <2>2, <2>3 DEF Settled
<1>12. CASE LoadRaises(c)
  <2>1. /\ caller[c].pc \in Building /\ Goes(c, "raised") /\ UNCHANGED <<stack, gpuLock>>
        /\ stackLock' = None
    BY <1>12 DEF LoadRaises, LockInv
  <2>2. Effect(c) /\ caller'[c].pc = "raised"
    BY <1>2, <1>3, <1>4, <2>1, GoesEffect
  <2>3. LockInv'
    BY <2>1, <2>2, LockFrame DEF Locking, Building, OnGpu
  <2> QED  BY <2>1, <2>2, <2>3 DEF Settled
<1> QED  BY <1>5, <1>6, <1>7, <1>8, <1>9, <1>10, <1>11, <1>12 DEF StackStep

LEMMA RetrieveSettled ==
  ASSUME Shape, LockInv, NEW c \in Callers, RetrieveStep(c)
  PROVE  Settled(c)
<1>1. /\ DOMAIN caller = Callers /\ DOMAIN caller[c] = Fields /\ None \notin Callers
  BY SubgraphAssumption DEF Shape
<1>2. ASSUME NEW pc \in Pc, Goes(c, pc)
      PROVE  caller'[c].pc = pc
  BY <1>1, <1>2 DEF Goes, Put, Fields
<1>3. {"embedding", "search", "rerank", "reranking", "raised"} \subseteq Pc
  BY DEF Pc, Retrieving, OnGpu, Ended
<1>4. /\ {"embed", "embedding", "search", "rerank", "reranking"} \subseteq Retrieving
      /\ Retrieving \subseteq Gathering /\ Retrieving \cap Ended = {}
  BY DEF Gathering, Retrieving, Building, Ended, OnGpu
<1>5. CASE EmbedStarts(c) \/ RerankStarts(c)
  <2>1. PICK pc \in {"embedding", "reranking"} :
          /\ Goes(c, pc) /\ UNCHANGED <<stack, stackLock>> /\ gpuLock = None /\ gpuLock' = c
          /\ caller[c].pc \in {"embed", "rerank"}
    BY <1>5 DEF EmbedStarts, RerankStarts, TakesGpu, At
  <2>2. Effect(c) /\ caller'[c].pc = pc
    BY <1>2, <1>3, <1>4, <2>1, GoesEffect
  <2>3. LockInv'
    BY <1>1, <2>1, <2>2, LockFrame DEF Locking, Building, OnGpu
  <2> QED  BY <2>1, <2>2, <2>3 DEF Settled
<1>6. CASE Embedded(c)
  <2>1. /\ Goes(c, "search") /\ UNCHANGED <<stack, stackLock>> /\ gpuLock' = None
        /\ caller[c].pc = "embedding"
    BY <1>6 DEF Embedded, At, LockInv, OnGpu
  <2>2. Effect(c) /\ caller'[c].pc = "search"
    BY <1>2, <1>3, <1>4, <2>1, GoesEffect
  <2>3. LockInv'
    BY <2>1, <2>2, LockFrame DEF Locking, Building, OnGpu
  <2> QED  BY <2>1, <2>2, <2>3 DEF Settled
<1>7. CASE Searches(c)
  <2>1. /\ caller[c].pc = "search" /\ UNCHANGED <<stack, stackLock, gpuLock>>
        /\ \E found : Put(c, IF found = {} THEN Returned(c, {})
                             ELSE [caller[c] EXCEPT !.pc = "rerank", !.candidates = found])
    BY <1>7 DEF Searches, At
  <2>2. PICK found : Put(c, IF found = {} THEN Returned(c, {})
                            ELSE [caller[c] EXCEPT !.pc = "rerank", !.candidates = found])
    BY <2>1
  <2>3. Effect(c) /\ caller'[c].pc \in {"get_stack", "warmed", "grade", "rerank"}
    <3>1. CASE found = {}
      <4>1. /\ DOMAIN Returned(c, {}) = Fields /\ Progress(c, caller[c], Returned(c, {}))
            /\ Returned(c, {}).pc \in {"get_stack", "warmed", "grade"}
        BY <1>1, <1>4, <2>1, ReturnedProgress
      <4>2. Returned(c, {}).pc \in Pc
        BY <4>1 DEF Pc, Retrieving, LlmNodes, Ended
      <4>3. Put(c, Returned(c, {})) /\ caller'[c] = Returned(c, {})
        BY <1>1, <2>2, <3>1 DEF Put
      <4> QED  BY <4>1, <4>2, <4>3, PutEffect
    <3>2. CASE found # {}
      <4> DEFINE s == [caller[c] EXCEPT !.pc = "rerank", !.candidates = found]
      <4>1. /\ DOMAIN s = Fields /\ s.pc = "rerank" /\ s.rewrites = caller[c].rewrites
            /\ s.evidence = caller[c].evidence
        BY <1>1 DEF Fields
      <4>2. Put(c, s)
        BY <2>2, <3>2
      <4> HIDE DEF s
      <4>3. s.pc \in Pc /\ Progress(c, caller[c], s)
        BY <1>3, <1>4, <2>1, <4>1 DEF Progress
      <4>4. caller'[c] = s
        BY <1>1, <4>2 DEF Put
      <4> QED  BY <4>1, <4>2, <4>3, <4>4, PutEffect
    <3> QED  BY <3>1, <3>2
  <2>4. LockInv'
    BY <2>1, <2>3, LockFrame DEF Locking, Building, OnGpu
  <2> QED  BY <2>1, <2>3, <2>4 DEF Settled
<1>8. CASE SearchRaises(c)
  <2>1. /\ Goes(c, "raised") /\ UNCHANGED <<stack, stackLock, gpuLock>> /\ caller[c].pc = "search"
    BY <1>8 DEF SearchRaises, At
  <2>2. Effect(c) /\ caller'[c].pc = "raised"
    BY <1>2, <1>3, <1>4, <2>1, GoesEffect
  <2>3. LockInv'
    BY <2>1, <2>2, LockFrame DEF Locking, Building, OnGpu
  <2> QED  BY <2>1, <2>2, <2>3 DEF Settled
<1>9. CASE RerankEnds(c)
  <2>1. /\ caller[c].pc = "reranking" /\ UNCHANGED <<stack, stackLock>> /\ gpuLock' = None
    BY <1>9 DEF RerankEnds, At, LockInv, OnGpu
  <2>2. PICK hits : Put(c, Returned(c, hits))
    BY <1>9 DEF RerankEnds
  <2>3. /\ DOMAIN Returned(c, hits) = Fields /\ Progress(c, caller[c], Returned(c, hits))
        /\ Returned(c, hits).pc \in {"get_stack", "warmed", "grade"}
    BY <1>1, <1>4, <2>1, ReturnedProgress
  <2>4. Returned(c, hits).pc \in Pc /\ caller'[c] = Returned(c, hits)
    BY <1>1, <2>2, <2>3 DEF Pc, Retrieving, LlmNodes, Ended, Put
  <2>5. Effect(c)
    BY <2>2, <2>3, <2>4, PutEffect
  <2>6. LockInv'
    BY <2>1, <2>3, <2>4, <2>5, LockFrame DEF Locking, Building, OnGpu
  <2> QED  BY <2>1, <2>5, <2>6 DEF Settled
<1> QED  BY <1>5, <1>6, <1>7, <1>8, <1>9 DEF RetrieveStep

LEMMA CallerSettled ==
  ASSUME Shape, LockInv, NEW c \in Callers, CallerStep(c)
  PROVE  Settled(c)
BY StartSettled, LlmSettled, StackSettled, RetrieveSettled DEF CallerStep

LEMMA ShapeKept ==
  ASSUME Shape, NEW c \in Callers, Effect(c)
  PROVE  Shape'
<1>1. caller'[c].rewrites \in Nat
  BY DEF Effect, Progress, Shape
<1>2. \A d \in Callers \ {c} : caller'[d] = caller[d]
  BY DEF Effect
<1> QED  BY <1>1, <1>2 DEF Effect, Shape

LEMMA IngestFrame ==
  ASSUME IngestStep
  PROVE  UNCHANGED process
BY DEF IngestStep, IngestStarts, IngestDeletes, IngestCreates, IngestUpserts, IngestDies,
       Changes, process

-----------------------------------------------------------------------------
(* The theorems *)

IInv == Shape /\ LockInv

LEMMA IInvInit == Init => IInv
<1> SUFFICES ASSUME Init PROVE IInv
  OBVIOUS
<1>1. Shape
  BY DEF Init, Shape, Fields, Pc, Ended
<1>2. LockInv
  BY SubgraphAssumption DEF Init, LockInv, Building, OnGpu
<1> QED  BY <1>1, <1>2 DEF IInv

LEMMA IInvNext ==
  IInv /\ [Next]_vars =>
    /\ IInv' /\ (stack # None => stack' = stack)
    /\ \/ \E c \in Callers : Effect(c)
       \/ UNCHANGED caller
<1> SUFFICES ASSUME IInv, [Next]_vars
             PROVE  /\ IInv' /\ (stack # None => stack' = stack)
                    /\ \/ \E c \in Callers : Effect(c)
                       \/ UNCHANGED caller
  OBVIOUS
<1>1. ASSUME NEW c \in Callers, CallerStep(c)
      PROVE  IInv' /\ (stack # None => stack' = stack) /\ Effect(c)
  BY <1>1, CallerSettled, ShapeKept DEF IInv, Settled
<1>2. CASE IngestStep \/ UNCHANGED vars
  <2>1. UNCHANGED process
    BY <1>2, IngestFrame DEF vars, process
  <2> QED  BY <2>1 DEF process, IInv, Shape, LockInv
<1> QED  BY <1>1, <1>2 DEF Next

(***************************************************************************)
(* Where the callers are determines who holds which lock, throughout.      *)
(***************************************************************************)
THEOREM Invariance == Spec => []IInv
<1>1. IInv /\ [Next]_vars => IInv'
  BY IInvNext
<1> QED  BY <1>1, IInvInit, PTL DEF Spec

(***************************************************************************)
(* However many branches race, one is on the GPU and one builds the stack  *)
(* (rag/retrieve.py:151, mcp_servers/rag/server.py:35).                    *)
(***************************************************************************)
THEOREM OneAtATime == Spec => []Serialised
<1>1. IInv => Serialised
  BY DEF IInv, LockInv, Serialised
<1> QED  BY <1>1, Invariance, PTL

(***************************************************************************)
(* A stack that is there stays the one it is (mcp_servers/rag/server.py:31).*)
(***************************************************************************)
THEOREM StackOnce == Spec => OneStack
<1>1. ASSUME IInv, [Next]_vars
      PROVE  stack # None => stack' = stack
  BY <1>1, IInvNext
<1>2. IInv /\ [Next]_vars => [stack # None => stack' = stack]_vars
  BY <1>1, Zenon
<1> QED  BY <1>2, Invariance, PTL DEF Spec, OneStack

-----------------------------------------------------------------------------
(* The refinement *)

LEMMA ContractInit == Init => Contract!Init
<1> SUFFICES ASSUME Init PROVE Contract!Init
  OBVIOUS
<1>1. \A b \in Branches : /\ caller[b].pc = "queued" /\ caller[b].rewrites = 0
                          /\ caller[b].evidence = {}
  BY SubgraphAssumption DEF Init, Callers
<1>2. ContractPhase("queued") = "gathering"
  BY DEF ContractPhase
<1> QED  BY <1>1, <1>2 DEF Contract!Init

(* The phases of the contract, one by one. *)
LEMMA Phases ==
  /\ \A pc \in Gathering : ContractPhase(pc) = "gathering"
  /\ ContractPhase("grade") = "judging" /\ ContractPhase("rewrite") = "refining"
  /\ ContractPhase("generate") = "answering"
  /\ \A pc \in Ended : ContractPhase(pc) = pc
  /\ \A pc \in Pc \ Ended : ContractPhase(pc) \notin Ended
  /\ Pc = Gathering \cup {"grade", "rewrite", "generate"} \cup Ended
BY DEF ContractPhase, Gathering, Ended, Pc, LlmNodes, Retrieving, Building, OnGpu

LEMMA ContractStep ==
  ASSUME Shape, NEW c \in Callers, Effect(c)
  PROVE  Contract!Next \/ UNCHANGED Contract!contract
<1> DEFINE phase == [b \in Branches |-> ContractPhase(caller[b].pc)]
           rewrites == [b \in Branches |-> caller[b].rewrites]
           evidence == [b \in Branches |-> caller[b].evidence]
           next == [b \in Branches |-> ContractPhase(caller'[b].pc)]
           rewrites1 == [b \in Branches |-> caller'[b].rewrites]
           evidence1 == [b \in Branches |-> caller'[b].evidence]
<1>1. \A b \in Branches : b \in Callers /\ (b # c => caller'[b] = caller[b])
  BY DEF Effect, Callers
<1>2. CASE c \notin Branches
  <2>1. next = phase /\ rewrites1 = rewrites /\ evidence1 = evidence
    BY <1>1, <1>2
  <2> QED  BY <2>1 DEF Contract!contract
<1>3. CASE c \in Branches
  <2> DEFINE from == ContractPhase(caller[c].pc)
             to == ContractPhase(caller'[c].pc)
  <2>1. /\ next = [phase EXCEPT ![c] = to]
        /\ rewrites1 = [rewrites EXCEPT ![c] = caller'[c].rewrites]
        /\ evidence1 = [evidence EXCEPT ![c] = caller'[c].evidence]
    BY <1>1, <1>3
  <2>2. /\ caller'[c].rewrites = caller[c].rewrites => rewrites1 = rewrites
        /\ caller'[c].evidence = caller[c].evidence => evidence1 = evidence
        /\ to = from => next = phase
    BY <1>1, <1>3
  <2>3. phase[c] = from /\ rewrites[c] = caller[c].rewrites /\ evidence[c] = caller[c].evidence
        /\ evidence1[c] = caller'[c].evidence
    BY <1>3
  <2>4. caller[c].pc \in Pc /\ Progress(c, caller[c], caller'[c]) /\ c # WarmUp
    BY <1>3, SubgraphAssumption DEF Effect, Shape
  <2> HIDE DEF phase, rewrites, evidence, next, rewrites1, evidence1, from, to
  <2>5. CASE /\ from = "gathering" /\ to \in {"gathering", "judging"}
             /\ rewrites1 = rewrites /\ evidence[c] \subseteq evidence1[c]
    <3>1. Contract!Gather(c)
      BY <2>1, <2>3, <2>5
         DEF Contract!Gather, Contract!Moves, phase, rewrites, evidence, next, rewrites1, evidence1
    <3> QED  BY <1>3, <3>1 DEF Contract!Next
  <2>6. CASE /\ from = "judging" /\ rewrites1 = rewrites /\ evidence1 = evidence
             /\ to = "answering" \/ (to = "refining" /\ rewrites[c] < MAX_REWRITES)
    <3>1. Contract!Judge(c)
      BY <2>1, <2>3, <2>6
         DEF Contract!Judge, Contract!Moves, phase, rewrites, evidence, next, rewrites1, evidence1
    <3> QED  BY <1>3, <3>1 DEF Contract!Next
  <2>7. CASE /\ from = "refining" /\ to = "gathering" /\ evidence1 = evidence
             /\ caller'[c].rewrites = caller[c].rewrites + 1
    <3>1. rewrites1 = [rewrites EXCEPT ![c] = @ + 1]
      BY <2>1, <2>3, <2>7
    <3>2. Contract!Refine(c)
      BY <2>1, <2>3, <2>7, <3>1
         DEF Contract!Refine, Contract!Moves, phase, rewrites, evidence, next, rewrites1, evidence1
    <3> QED  BY <1>3, <3>2 DEF Contract!Next
  <2>8. CASE /\ from = "answering" /\ to \in {"diagnosed", "failed"}
             /\ rewrites1 = rewrites /\ evidence1 = evidence
    <3>1. Contract!Answer(c)
      BY <2>1, <2>3, <2>8
         DEF Contract!Answer, Contract!Moves, phase, rewrites, evidence, next, rewrites1, evidence1
    <3> QED  BY <1>3, <3>1 DEF Contract!Next
  <2>9. CASE /\ from \notin Contract!Ended /\ to = "raised"
             /\ rewrites1 = rewrites /\ evidence1 = evidence
    <3>1. Contract!Raise(c)
      BY <2>1, <2>3, <2>9
         DEF Contract!Raise, phase, rewrites, evidence, next, rewrites1, evidence1
    <3> QED  BY <1>3, <3>1 DEF Contract!Next
  <2>10. CASE to = from /\ rewrites1 = rewrites /\ evidence1 = evidence
    BY <2>2, <2>10
       DEF Contract!contract, phase, rewrites, evidence, next, rewrites1, evidence1
  <2>11. CASE /\ caller[c].pc \in Gathering /\ caller'[c].pc \in Gathering \cup {"grade"}
              /\ caller[c].rewrites = caller'[c].rewrites
              /\ caller[c].evidence \subseteq caller'[c].evidence
    BY <2>2, <2>3, <2>5, <2>11, Phases DEF from, to
  <2>12. CASE /\ caller[c].rewrites = caller'[c].rewrites
              /\ caller[c].evidence = caller'[c].evidence
              /\ \/ caller[c].pc = "grade" /\ caller'[c].pc = "generate"
                 \/ /\ caller[c].pc = "grade" /\ caller'[c].pc = "rewrite"
                    /\ caller[c].rewrites < MAX_REWRITES
                 \/ caller[c].pc = "generate" /\ caller'[c].pc \in {"diagnosed", "failed"}
                 \/ caller[c].pc \notin Ended /\ caller'[c].pc = "raised"
                 \/ caller[c].pc = caller'[c].pc
    <3>1. rewrites1 = rewrites /\ evidence1 = evidence
      BY <2>2, <2>12
    <3>2. {"diagnosed", "failed", "raised"} \subseteq Ended /\ Contract!Ended \subseteq Ended
      BY DEF Ended, Contract!Ended
    <3> QED  BY <2>3, <2>4, <2>6, <2>8, <2>9, <2>10, <2>12, <3>1, <3>2, Phases DEF from, to
  <2>13. CASE /\ caller[c].pc = "rewrite" /\ caller'[c].pc = "get_stack"
              /\ caller'[c].rewrites = caller[c].rewrites + 1
              /\ caller[c].evidence = caller'[c].evidence
    <3>1. "get_stack" \in Gathering
      BY DEF Gathering, Retrieving
    <3> QED  BY <2>2, <2>7, <2>13, <3>1, Phases DEF from, to
  <2> QED  BY <2>4, <2>11, <2>12, <2>13 DEF Progress
<1> QED  BY <1>2, <1>3

(***************************************************************************)
(* The subgraph implements the contract the main graph relies on: every    *)
(* step of a branch, of a lock or of an ingest is a step of the contract   *)
(* or leaves it as it is.                                                  *)
(***************************************************************************)
THEOREM Implements == Spec => ContractSpec
<1>1. IInv /\ [Next]_vars => [Contract!Next]_Contract!contract
  <2> SUFFICES ASSUME IInv, [Next]_vars PROVE [Contract!Next]_Contract!contract
    OBVIOUS
  <2>1. CASE \E c \in Callers : Effect(c)
    BY <2>1, ContractStep DEF IInv
  <2>2. CASE UNCHANGED caller
    BY <2>2 DEF Contract!contract
  <2> QED  BY <2>1, <2>2, IInvNext
<1> QED  BY <1>1, ContractInit, Invariance, PTL DEF Spec, ContractSpec, Contract!Spec

-----------------------------------------------------------------------------
(* What a branch retrieves: the strengthening *)

(* The types of the callers' states. *)
State ==
  [pc : Pc, model : {"primary", "fallback"}, queries : 0 .. MaxSubQueries,
   rewrites : 0 .. MAX_REWRITES, evidence : SUBSET Nat, candidates : SUBSET Nat]

Searching == {"embed", "embedding", "search", "rerank", "reranking"}
Shortlisted == {"rerank", "reranking"}
Judging == {"grade", "rewrite", "generate"}

(* What holds of a caller's state s beside the stack `index`. *)
Good(s, index) ==
  /\ s.pc \in Retrieving => s.queries # 0
  /\ s.pc = "rewrite" => s.rewrites < MAX_REWRITES
  /\ s.pc \in Searching => index # None /\ index.docs # <<>>
  /\ IF s.pc \in Shortlisted THEN s.candidates # {} /\ IsFiniteSet(s.candidates)
     ELSE s.candidates = {}
  /\ s.pc \in Judging => index # None /\ (s.evidence = {} => ~Whole(index))

CallersInv ==
  /\ caller \in [Callers -> State]
  /\ \A c \in Callers : Good(caller[c], stack)

Covers(points) == \A d \in Domains : \E i \in DOMAIN points : points[i] = d

Indexes == [docs : Points, from : Nat, to : Nat]

(* What holds of an index that has been read to its end. *)
Read(index) ==
  /\ index \in Indexes /\ index.from <= index.to /\ index.to <= epoch
  /\ Whole(index) => Covers(index.docs)
  /\ index.from = epoch /\ index.docs # <<>> => index.docs = collection

(* What holds of an index that is being read, as long as nothing changed. *)
PartlyRead ==
  scroll.from = epoch =>
    /\ collection # None /\ Len(scroll.docs) <= Len(collection)
    /\ scroll.docs = SubSeq(collection, 1, Len(scroll.docs))

IndexInv ==
  /\ stack # None => Read(stack)
  /\ scroll \in Indexes /\ scroll.from <= scroll.to /\ scroll.to <= epoch
  /\ \A c \in Callers : /\ caller[c].pc = "scrolling" => PartlyRead
                        /\ caller[c].pc = "scrolled" => Read(scroll)

(* What holds of the chunks an ingest will write. *)
ChunksCover(chunks) ==
  \A d \in Domains : \E i \in DOMAIN chunks : chunks[i].domain = d

QdrantInv ==
  /\ epoch \in Nat /\ collection \in Points \cup {None}
  /\ collection \notin {None, <<>>} => Covers(collection)
  /\ ingest \in [pc : {"idle", "ready", "deleted", "created"}, chunks : Chunks]
  /\ ingest.pc # "idle" => ChunksCover(ingest.chunks)
  /\ PrefixOfOwnDocument

-----------------------------------------------------------------------------
(* Callers *)

LEMMA Places ==
  /\ LlmNodes \subseteq Pc /\ Retrieving \subseteq Pc /\ Ended \subseteq Pc /\ "queued" \in Pc
  /\ Building \subseteq Retrieving /\ OnGpu \subseteq Retrieving
  /\ Searching \subseteq Retrieving /\ Shortlisted \subseteq Searching /\ OnGpu \subseteq Searching
  /\ Building \cap Searching = {}
  /\ {"get_stack", "waiting"} \subseteq Retrieving \ (Searching \cup Building)
  /\ Judging \subseteq LlmNodes /\ LlmNodes \cap Retrieving = {} /\ Ended \cap (LlmNodes \cup Retrieving) = {}
  /\ {"queued", "decompose"} \cap (Retrieving \cup Judging) = {}
BY DEF Pc, LlmNodes, Retrieving, Building, OnGpu, Ended, Searching, Shortlisted, Judging

(* Most places ask little of a caller's state. *)
LEMMA GoodAt ==
  ASSUME NEW s, NEW index,
         s.pc \in Retrieving => s.queries # 0,
         s.pc \notin Searching \cup Judging, s.candidates = {}
  PROVE  Good(s, index)
BY DEF Good, Judging, Shortlisted, Searching

LEMMA ReturnedGood ==
  ASSUME NEW c \in Callers, caller[c] \in State, caller[c].pc \in Retrieving,
         caller[c].queries # 0, NEW hits \in SUBSET Nat,
         NEW index, index # None, hits # {} \/ ~Whole(index)
  PROVE  Returned(c, hits) \in State /\ Good(Returned(c, hits), index)
<1> DEFINE s == caller[c]
           pc == IF s.queries > 1 THEN "get_stack" ELSE IF c = WarmUp THEN "warmed" ELSE "grade"
           r == [s EXCEPT !.evidence = @ \cup hits, !.candidates = {}, !.queries = @ - 1, !.pc = pc]
<1>1. Returned(c, hits) = r
  BY DEF Returned
<1>2. /\ s.queries \in 1 .. MaxSubQueries /\ s.queries - 1 \in 0 .. MaxSubQueries
      /\ s.evidence \in SUBSET Nat /\ MaxSubQueries \in Nat
  BY SubgraphAssumption DEF State
<1>3. /\ pc = "get_stack" /\ s.queries - 1 # 0
      \/ pc \in {"warmed", "grade"}
  BY <1>2
<1>4. pc \in Pc
  BY <1>3, Places DEF Ended, Pc, LlmNodes
<1> HIDE DEF pc
<1>5. r \in State
  BY <1>2, <1>4 DEF State
<1>6. /\ r.pc = pc /\ r.queries = s.queries - 1 /\ r.candidates = {}
      /\ r.evidence = s.evidence \cup hits
  BY DEF State
<1> HIDE DEF s, r
<1>7. Good(r, index)
  <2>1. CASE pc = "get_stack" /\ s.queries - 1 # 0
    BY <1>6, <2>1, Places, GoodAt DEF Judging
  <2>2. CASE pc = "warmed"
    <3>1. pc \notin Retrieving \cup Searching \cup Judging
      BY <2>2, Places DEF Ended
    <3> QED  BY <1>6, <3>1, GoodAt
  <2>3. CASE pc = "grade"
    <3>1. pc \notin Retrieving \cup Searching \cup Shortlisted
      BY <2>3, Places DEF LlmNodes
    <3> QED  BY <1>6, <2>3, <3>1 DEF Good
  <2> QED  BY <1>3, <2>1, <2>2, <2>3
<1> QED  BY <1>1, <1>5, <1>7

(* A step of c that leaves it in state s, beside the stack of then. *)
Becomes(c, s) == Put(c, s) /\ s \in State /\ Good(s, stack')

LEMMA HasStackBecomes ==
  ASSUME NEW c \in Callers, caller[c] \in State, caller[c].pc \in Retrieving \ Shortlisted,
         Good(caller[c], stack), stack' # None, HasStack(c, stack')
  PROVE  \E s : Becomes(c, s)
<1>1. caller[c].queries # 0 /\ caller[c].candidates = {}
  BY DEF Good
<1>2. CASE stack'.docs = <<>>
  <2>1. Put(c, Returned(c, {}))
    BY <1>2 DEF HasStack
  <2>2. ~Whole(stack')
    BY <1>2 DEF Whole
  <2>3. Returned(c, {}) \in State /\ Good(Returned(c, {}), stack')
    BY <1>1, <2>2, ReturnedGood
  <2> QED  BY <2>1, <2>3 DEF Becomes
<1>3. CASE stack'.docs # <<>>
  <2> DEFINE s == [caller[c] EXCEPT !.pc = "embed"]
  <2>1. Put(c, s)
    BY <1>3 DEF HasStack
  <2>2. s \in State /\ s.pc = "embed" /\ s.queries # 0 /\ s.candidates = {}
    BY <1>1, Places DEF State, Searching
  <2> HIDE DEF s
  <2>3. Good(s, stack')
    BY <1>3, <2>2 DEF Good, Judging, Shortlisted
  <2> QED  BY <2>1, <2>2, <2>3 DEF Becomes
<1> QED  BY <1>2, <1>3

(* To another place, with the state the old one had. *)
LEMMA GoesBecomes ==
  ASSUME NEW c \in Callers, caller[c] \in State, Good(caller[c], stack), NEW pc \in Pc,
         Goes(c, pc), stack' = stack,
         pc \in Retrieving => caller[c].pc \in Retrieving,
         pc \in Searching => caller[c].pc \in Searching,
         pc \in Shortlisted <=> caller[c].pc \in Shortlisted,
         pc \notin Judging
  PROVE  \E s : Becomes(c, s)
<1> DEFINE s == [caller[c] EXCEPT !.pc = pc]
<1>1. /\ s \in State /\ s.pc = pc /\ s.queries = caller[c].queries
      /\ s.candidates = caller[c].candidates
  BY DEF State
<1>2. Put(c, s)
  BY DEF Goes
<1> HIDE DEF s
<1>3. Good(s, stack')
  BY <1>1 DEF Good, Judging
<1> QED  BY <1>1, <1>2, <1>3 DEF Becomes

(* A node of the subgraph changes neither evidence nor candidates. *)
LEMMA NodeBecomes ==
  ASSUME NEW c \in Callers, caller[c] \in State, Good(caller[c], stack), stack' = stack,
         caller[c].pc \in LlmNodes \cup {"queued"}, NEW s \in State, Put(c, s),
         s.evidence = caller[c].evidence, s.candidates = caller[c].candidates,
         s.pc \notin Searching, s.pc \in Retrieving => s.queries # 0,
         s.pc = "rewrite" => s.rewrites < MAX_REWRITES,
         s.pc \in Judging => caller[c].pc \in Judging
  PROVE  Becomes(c, s)
<1>1. s.candidates = {}
  BY Places DEF Good, LlmNodes, Shortlisted
<1>2. s.pc \notin Shortlisted
  BY Places
<1>3. Good(s, stack')
  BY <1>1, <1>2 DEF Good
<1> QED  BY <1>3 DEF Becomes

LEMMA StartBecomes ==
  ASSUME NEW c \in Callers, caller[c] \in State, Good(caller[c], stack), Start(c)
  PROVE  \E s : Becomes(c, s)
<1>1. caller[c].pc = "queued" /\ stack' = stack
  BY DEF Start, Prewarms, WarmsFirst, Warms, StartsSubtask, StartsSample, At
<1>2. CASE Warms(c)
  <2> DEFINE s == [caller[c] EXCEPT !.pc = "get_stack", !.queries = 1]
  <2>1. Put(c, s)
    BY <1>2 DEF Warms
  <2>2. 1 \in 0 .. MaxSubQueries
    BY SubgraphAssumption
  <2>3. /\ s \in State /\ s.pc = "get_stack" /\ s.queries = 1
        /\ s.evidence = caller[c].evidence /\ s.candidates = caller[c].candidates
    BY <2>2, Places DEF State
  <2> HIDE DEF s
  <2>4. s.pc \notin Searching \cup Judging /\ s.pc # "rewrite"
    BY <2>3, Places DEF Judging
  <2> QED  BY <1>1, <2>1, <2>3, <2>4, NodeBecomes
<1>3. CASE StartsSubtask(c) \/ StartsSample(c)
  <2>1. Goes(c, "decompose")
    BY <1>3 DEF StartsSubtask, StartsSample
  <2>2. "decompose" \in Pc \ (Retrieving \cup Searching \cup Shortlisted \cup Judging) /\ caller[c].pc \notin Shortlisted
    BY <1>1, Places DEF LlmNodes
  <2> QED  BY <1>1, <2>1, <2>2, GoesBecomes
<1> QED  BY <1>2, <1>3 DEF Start, Prewarms, WarmsFirst

LEMMA LlmBecomes ==
  ASSUME NEW c \in Callers, caller[c] \in State, Good(caller[c], stack), LlmStep(c)
  PROVE  \E s : Becomes(c, s)
<1>1. stack' = stack /\ caller[c].pc \in LlmNodes
  BY DEF LlmStep, RouterFallsBack, RouterRaises, Decompose, Grade, Rewrite, Generate, At, LlmNodes
<1>2. /\ Replied(c) \in State /\ Replied(c).pc = caller[c].pc
      /\ Replied(c).evidence = caller[c].evidence /\ Replied(c).candidates = caller[c].candidates
      /\ Replied(c).queries = caller[c].queries /\ Replied(c).rewrites = caller[c].rewrites
  BY DEF Replied, State
<1>3. CASE RouterFallsBack(c)
  <2> DEFINE s == [caller[c] EXCEPT !.model = "fallback"]
  <2>1. Put(c, s)
    BY <1>3 DEF RouterFallsBack
  <2>2. /\ s \in State /\ s.pc = caller[c].pc /\ s.queries = caller[c].queries
        /\ s.rewrites = caller[c].rewrites
        /\ s.evidence = caller[c].evidence /\ s.candidates = caller[c].candidates
    BY DEF State
  <2> HIDE DEF s
  <2>3. s.pc = "rewrite" => s.rewrites < MAX_REWRITES
    BY <2>2 DEF Good
  <2>4. s.pc \notin Searching \cup Retrieving
    BY <1>1, <2>2, Places
  <2> QED  BY <1>1, <2>1, <2>2, <2>3, <2>4, NodeBecomes
<1>4. CASE RouterRaises(c)
  <2>1. Goes(c, "raised")
    BY <1>4 DEF RouterRaises
  <2>2. /\ "raised" \in Pc \ (Retrieving \cup Searching \cup Shortlisted \cup Judging)
        /\ caller[c].pc \notin Shortlisted
    BY <1>1, Places DEF Ended
  <2> QED  BY <1>1, <2>1, <2>2, GoesBecomes
<1>5. CASE Decompose(c)
  <2>1. PICK n \in 1 .. MaxSubQueries :
          Put(c, [Replied(c) EXCEPT !.pc = "get_stack", !.queries = n])
    BY <1>5 DEF Decompose
  <2> DEFINE s == [Replied(c) EXCEPT !.pc = "get_stack", !.queries = n]
  <2>2. n \in 0 .. MaxSubQueries /\ n # 0
    BY SubgraphAssumption
  <2>3. /\ s \in State /\ s.pc = "get_stack" /\ s.queries = n
        /\ s.evidence = caller[c].evidence /\ s.candidates = caller[c].candidates
    BY <1>2, <2>2, Places DEF State
  <2>4. Put(c, s)
    BY <2>1
  <2> HIDE DEF s
  <2>5. s.pc \notin Searching \cup Judging /\ s.pc # "rewrite"
    BY <2>3, Places DEF Judging
  <2> QED  BY <1>1, <2>2, <2>3, <2>4, <2>5, NodeBecomes
<1>6. CASE Grade(c)
  <2>1. PICK yes \in BOOLEAN :
          Put(c, [Replied(c) EXCEPT
                    !.pc = IF yes \/ caller[c].rewrites >= MAX_REWRITES
                           THEN "generate" ELSE "rewrite"])
    BY <1>6 DEF Grade
  <2> DEFINE pc == IF yes \/ caller[c].rewrites >= MAX_REWRITES THEN "generate" ELSE "rewrite"
             s == [Replied(c) EXCEPT !.pc = pc]
  <2>2. pc = "generate" \/ (pc = "rewrite" /\ caller[c].rewrites < MAX_REWRITES)
    BY SubgraphAssumption DEF State
  <2>3. Put(c, s)
    BY <2>1
  <2>4. pc \in Judging /\ pc \notin Retrieving \cup Searching /\ pc \in Pc /\ caller[c].pc \in Judging
    BY <1>6, <2>2, Places DEF Judging, Grade, At, LlmNodes
  <2> HIDE DEF pc
  <2>5. /\ s \in State /\ s.pc = pc /\ s.rewrites = caller[c].rewrites
        /\ s.evidence = caller[c].evidence /\ s.candidates = caller[c].candidates
    BY <1>2, <2>4 DEF State
  <2> HIDE DEF s
  <2> QED  BY <1>1, <2>2, <2>3, <2>4, <2>5, NodeBecomes
<1>7. CASE Rewrite(c)
  <2> DEFINE s == [Replied(c) EXCEPT !.pc = "get_stack", !.queries = 1, !.rewrites = @ + 1]
  <2>1. caller[c].rewrites < MAX_REWRITES
    BY <1>7 DEF Rewrite, At, Good
  <2>2. 1 \in 0 .. MaxSubQueries /\ caller[c].rewrites + 1 \in 0 .. MAX_REWRITES
    BY <2>1, SubgraphAssumption DEF State
  <2>3. /\ s \in State /\ s.pc = "get_stack" /\ s.queries = 1
        /\ s.evidence = caller[c].evidence /\ s.candidates = caller[c].candidates
    BY <1>2, <2>2, Places DEF State
  <2>4. Put(c, s)
    BY <1>7 DEF Rewrite
  <2> HIDE DEF s
  <2>5. s.pc \notin Searching \cup Judging /\ s.pc # "rewrite"
    BY <2>3, Places DEF Judging
  <2> QED  BY <1>1, <2>3, <2>4, <2>5, NodeBecomes
<1>8. CASE Generate(c)
  <2>1. PICK end \in {"diagnosed", "failed"} : Put(c, [Replied(c) EXCEPT !.pc = end])
    BY <1>8 DEF Generate
  <2> DEFINE s == [Replied(c) EXCEPT !.pc = end]
  <2>2. end \in Ended /\ end \in Pc
    BY Places DEF Ended
  <2>3. /\ s \in State /\ s.pc = end
        /\ s.evidence = caller[c].evidence /\ s.candidates = caller[c].candidates
    BY <1>2, <2>2 DEF State
  <2>4. Put(c, s)
    BY <2>1
  <2> HIDE DEF s
  <2>5. s.pc \notin Searching \cup Judging \cup Retrieving /\ s.pc # "rewrite"
    BY <2>2, <2>3, Places DEF LlmNodes
  <2> QED  BY <1>1, <2>3, <2>4, <2>5, NodeBecomes
<1> QED  BY <1>3, <1>4, <1>5, <1>6, <1>7, <1>8 DEF LlmStep

LEMMA StackBecomes ==
  ASSUME NEW c \in Callers, caller[c] \in State, Good(caller[c], stack), StackStep(c),
         scroll \in Indexes
  PROVE  \E s : Becomes(c, s)
<1>1. /\ None \notin Indexes
      /\ {"waiting", "locked", "scrolling", "scrolled", "get_stack"} \subseteq Retrieving \ Searching
      /\ "raised" \in Ended
      /\ Pc \cap Shortlisted = Shortlisted
  BY SubgraphAssumption, Places DEF Indexes, Building, Retrieving, Searching, Ended, OnGpu
<1>2. CASE FindsStack(c)
  <2>1. /\ caller[c].pc \in Retrieving \ Shortlisted /\ stack' = stack /\ stack # None
        /\ HasStack(c, stack')
    BY <1>1, <1>2, Places DEF FindsStack, At
  <2> QED  BY <2>1, HasStackBecomes
<1>3. CASE MissesStack(c) \/ LocksStack(c) \/ LoadStarts(c) \/ ScrollsPage(c)
  <2>1. PICK pc \in {"waiting", "locked", "scrolling", "scrolled"} : Goes(c, pc)
    BY <1>3 DEF MissesStack, LocksStack, LoadStarts, ScrollsPage
  <2>2. stack' = stack /\ caller[c].pc \in {"get_stack", "waiting", "locked", "scrolling"}
    BY <1>3 DEF MissesStack, LocksStack, LoadStarts, ScrollsPage, At
  <2>3. pc \in Pc \ (Searching \cup Shortlisted \cup Judging) /\ caller[c].pc \in Retrieving \ Shortlisted
    BY <1>1, <2>2, Places
  <2> QED  BY <2>1, <2>2, <2>3, GoesBecomes
<1>4. CASE FindsStackLocked(c)
  <2>1. /\ caller[c].pc \in Retrieving \ Shortlisted /\ stack' = stack /\ stack # None
        /\ HasStack(c, stack')
    BY <1>1, <1>4, Places DEF FindsStackLocked, At
  <2> QED  BY <2>1, HasStackBecomes
<1>5. CASE StackBuilt(c)
  <2>1. /\ caller[c].pc \in Retrieving \ Shortlisted /\ stack' = scroll /\ stack' # None
        /\ HasStack(c, stack')
    BY <1>1, <1>5, Places DEF StackBuilt, At
  <2> QED  BY <2>1, HasStackBecomes
<1>6. CASE LoadRaises(c)
  <2>1. Goes(c, "raised") /\ stack' = stack /\ caller[c].pc \in Building
    BY <1>6 DEF LoadRaises
  <2>2. "raised" \in Pc \ (Retrieving \cup Searching \cup Shortlisted \cup Judging)
        /\ caller[c].pc \notin Shortlisted
    BY <1>1, <2>1, Places
  <2> QED  BY <2>1, <2>2, GoesBecomes
<1> QED  BY <1>2, <1>3, <1>4, <1>5, <1>6 DEF StackStep

LEMMA InDomainFinite ==
  ASSUME NEW docs \in Points, NEW c
  PROVE  /\ InDomain(docs, c) \subseteq DOMAIN docs /\ DOMAIN docs \subseteq Nat
         /\ IsFiniteSet(InDomain(docs, c))
<1>1. Len(docs) \in Nat /\ DOMAIN docs = 1 .. Len(docs)
  BY DEF Points
<1>2. IsFiniteSet(1 .. Len(docs))
  BY <1>1, FS_Interval
<1>3. InDomain(docs, c) \subseteq DOMAIN docs
  BY DEF InDomain
<1> QED  BY <1>1, <1>2, <1>3, FS_Subset

(* What a search may find, and that it finds something in a whole index. *)
LEMMA SearchFinds ==
  ASSUME NEW c \in Callers, collection \in Points, stack \in Indexes,
         NEW dense \in Rankings(InDomain(collection, c)),
         NEW sparse \in Rankings(InDomain(stack.docs, c)),
         NEW found \in Candidates(Known(dense, DOMAIN stack.docs), sparse)
  PROVE  /\ found \in SUBSET Nat /\ IsFiniteSet(found)
         /\ found \subseteq InDomain(collection, c) \cup InDomain(stack.docs, c)
         /\ Covers(stack.docs) => found # {}
<1> DEFINE I == InDomain(collection, c)
           D == DOMAIN stack.docs
           J == InDomain(stack.docs, c)
<1>1. stack.docs \in Points
  BY DEF Indexes
<1>2. IsFiniteSet(I) /\ IsFiniteSet(J) /\ J \subseteq D /\ D \subseteq Nat
  BY <1>1, InDomainFinite
<1>3. Covers(stack.docs) => J # {}
  <2>1. DomainOf[c] \in Domains
    BY SubgraphAssumption
  <2> QED  BY <2>1 DEF Covers, InDomain
<1> HIDE DEF I, J, D
<1>4. found \subseteq (I \cap D) \cup J /\ IsFiniteSet(found) /\ (J # {} => found # {})
  BY <1>2, Found DEF I, J, D
<1> QED  BY <1>2, <1>3, <1>4 DEF I, J

LEMMA RetrieveBecomes ==
  ASSUME NEW c \in Callers, caller[c] \in State, Good(caller[c], stack), RetrieveStep(c),
         stack # None => Read(stack), collection \in Points \cup {None}
  PROVE  \E s : Becomes(c, s)
<1>1. /\ {"embed", "embedding", "search", "rerank", "reranking"} = Searching
      /\ Shortlisted = {"rerank", "reranking"}
      /\ "raised" \in Ended
  BY DEF Searching, Shortlisted, Ended
<1>2. stack' = stack
  BY DEF RetrieveStep, EmbedStarts, Embedded, Searches, SearchRaises, RerankStarts, RerankEnds, TakesGpu
<1>3. CASE EmbedStarts(c) \/ Embedded(c)
  <2>1. PICK pc \in {"embedding", "search"} : Goes(c, pc) /\ caller[c].pc \in {"embed", "embedding"}
    BY <1>3 DEF EmbedStarts, Embedded, TakesGpu, At
  <2>2. /\ {pc, caller[c].pc} \subseteq Searching \ Shortlisted
    BY <1>1, <2>1
  <2>3. pc \in Pc \ Judging /\ caller[c].pc \in Retrieving
    BY <2>2, Places
  <2> QED  BY <1>2, <2>1, <2>2, <2>3, GoesBecomes
<1>4. CASE RerankStarts(c)
  <2>1. Goes(c, "reranking") /\ caller[c].pc = "rerank"
    BY <1>4 DEF RerankStarts, TakesGpu, At
  <2>2. /\ {"reranking", caller[c].pc} \subseteq Shortlisted /\ {"reranking", caller[c].pc} \subseteq Searching
    BY <1>1, <2>1
  <2>3. "reranking" \in Pc \ Judging /\ caller[c].pc \in Retrieving
    BY <2>2, Places
  <2> QED  BY <1>2, <2>1, <2>2, <2>3, GoesBecomes
<1>5. CASE SearchRaises(c)
  <2>1. Goes(c, "raised") /\ caller[c].pc = "search"
    BY <1>5 DEF SearchRaises, At
  <2>2. "raised" \in Pc \ (Retrieving \cup Searching \cup Shortlisted \cup Judging)
        /\ caller[c].pc \notin Shortlisted
    BY <1>1, <2>1, Places
  <2> QED  BY <1>2, <2>1, <2>2, GoesBecomes
<1>6. CASE Searches(c)
  <2>1. caller[c].pc = "search" /\ collection \in Points
    BY <1>6 DEF Searches, At
  <2>2. PICK dense \in Rankings(InDomain(collection, c)),
             sparse \in Rankings(InDomain(stack.docs, c)) :
          \E found \in Candidates(Known(dense, DOMAIN stack.docs), sparse) :
            Put(c, IF found = {} THEN Returned(c, {})
                   ELSE [caller[c] EXCEPT !.pc = "rerank", !.candidates = found])
    BY <1>6 DEF Searches
  <2>3. PICK found \in Candidates(Known(dense, DOMAIN stack.docs), sparse) :
            Put(c, IF found = {} THEN Returned(c, {})
                   ELSE [caller[c] EXCEPT !.pc = "rerank", !.candidates = found])
    BY <2>2
  <2>4. caller[c].pc \in Retrieving \cap Searching
    BY <1>1, <2>1, Places
  <2>5. stack # None /\ stack.docs # <<>> /\ caller[c].queries # 0 /\ Read(stack)
    BY <2>4 DEF Good
  <2>6. /\ found \in SUBSET Nat /\ IsFiniteSet(found)
        /\ Covers(stack.docs) => found # {}
    BY <2>1, <2>5, SearchFinds DEF Read
  <2>7. CASE found = {}
    <3>1. Put(c, Returned(c, {}))
      BY <2>3, <2>7
    <3>2. ~Whole(stack)
      BY <2>5, <2>6, <2>7 DEF Read
    <3>3. Returned(c, {}) \in State /\ Good(Returned(c, {}), stack)
      BY <2>4, <2>5, <3>2, ReturnedGood
    <3> QED  BY <1>2, <3>1, <3>3 DEF Becomes
  <2>8. CASE found # {}
    <3> DEFINE s == [caller[c] EXCEPT !.pc = "rerank", !.candidates = found]
    <3>1. Put(c, s)
      BY <2>3, <2>8
    <3>2. "rerank" \in Pc \cap Searching \cap Shortlisted
      BY <1>1, Places
    <3>3. /\ s \in State /\ s.pc = "rerank" /\ s.candidates = found
          /\ s.queries = caller[c].queries
      BY <2>6, <3>2 DEF State
    <3> HIDE DEF s
    <3>4. s.pc # "rewrite" /\ s.pc \notin Judging
      BY <3>3 DEF Judging
    <3>5. Good(s, stack)
      BY <2>5, <2>6, <2>8, <3>2, <3>3, <3>4 DEF Good
    <3> QED  BY <1>2, <3>1, <3>3, <3>5 DEF Becomes
  <2> QED  BY <2>7, <2>8
<1>7. CASE RerankEnds(c)
  <2>1. PICK hits \in Reranked(caller[c].candidates) : Put(c, Returned(c, hits))
    BY <1>7 DEF RerankEnds
  <2>2. caller[c].pc \in Shortlisted
    BY <1>1, <1>7 DEF RerankEnds, At
  <2>3. caller[c].pc \in Retrieving \cap Searching
    BY <2>2, Places
  <2>4. /\ stack # None /\ caller[c].queries # 0
        /\ caller[c].candidates # {} /\ IsFiniteSet(caller[c].candidates)
    BY <2>2, <2>3 DEF Good
  <2>5. hits \subseteq caller[c].candidates /\ hits # {}
    BY <2>4, RerankedOf
  <2>6. caller[c].candidates \subseteq Nat
    BY DEF State
  <2>7. Returned(c, hits) \in State /\ Good(Returned(c, hits), stack)
    BY <2>3, <2>4, <2>5, <2>6, ReturnedGood
  <2> QED  BY <1>2, <2>1, <2>7 DEF Becomes
<1> QED  BY <1>3, <1>4, <1>5, <1>6, <1>7 DEF RetrieveStep

(* The other callers' states are good beside a stack that was just built. *)
LEMMA CallersKept ==
  ASSUME CallersInv, NEW c \in Callers, NEW s, Becomes(c, s), stack # None => stack' = stack
  PROVE  CallersInv'
<1>1. caller' \in [Callers -> State] /\ caller'[c] = s /\ \A d \in Callers \ {c} : caller'[d] = caller[d]
  BY DEF CallersInv, Becomes, Put
<1>2. ASSUME NEW d \in Callers \ {c}
      PROVE  Good(caller'[d], stack')
  <2>1. Good(caller[d], stack) /\ caller'[d] = caller[d]
    BY <1>1 DEF CallersInv
  <2>2. CASE stack # None
    BY <2>1, <2>2
  <2>3. CASE stack = None
    BY <2>1, <2>3 DEF Good
  <2> QED  BY <2>2, <2>3
<1>3. Good(caller'[c], stack')
  BY <1>1 DEF Becomes
<1> QED  BY <1>1, <1>2, <1>3 DEF CallersInv

LEMMA CallerStepCallers ==
  ASSUME IInv, CallersInv, IndexInv, QdrantInv, NEW c \in Callers, CallerStep(c)
  PROVE  CallersInv'
<1>1. caller[c] \in State /\ Good(caller[c], stack)
  BY DEF CallersInv
<1>2. \E s : Becomes(c, s)
  BY <1>1, StartBecomes, LlmBecomes, StackBecomes, RetrieveBecomes
     DEF CallerStep, IndexInv, QdrantInv
<1>3. stack # None => stack' = stack
  BY CallerSettled DEF IInv, Settled
<1> QED  BY <1>2, <1>3, CallersKept

-----------------------------------------------------------------------------
(* The index *)

LEMMA QdrantFrame ==
  ASSUME NEW c \in Callers, CallerStep(c)
  PROVE  UNCHANGED qdrant
BY DEF CallerStep, Start, Prewarms, WarmsFirst, Warms, StartsSubtask, StartsSample,
       LlmStep, RouterFallsBack, RouterRaises, Decompose, Grade, Rewrite, Generate,
       StackStep, FindsStack, MissesStack, LocksStack, FindsStackLocked, LoadStarts,
       ScrollsPage, StackBuilt, LoadRaises,
       RetrieveStep, EmbedStarts, Embedded, Searches, SearchRaises, RerankStarts,
       RerankEnds, TakesGpu, qdrant

(* Only two steps lead to a place of the scroll. *)
LEMMA Elsewhere ==
  ASSUME Shape, LockInv, NEW c \in Callers, CallerStep(c), ~LoadStarts(c), ~ScrollsPage(c)
  PROVE  caller'[c].pc \notin {"scrolling", "scrolled"}
<1>1. DOMAIN caller = Callers /\ DOMAIN caller[c] = Fields
  BY DEF Shape
<1>2. ASSUME NEW pc, Goes(c, pc)
      PROVE  caller'[c].pc = pc
  BY <1>1, <1>2 DEF Goes, Put, Fields
<1>3. CASE Start(c)
  <2>1. CASE Warms(c)
    BY <1>1, <2>1 DEF Warms, Put, Fields
  <2>2. CASE ~Warms(c)
    <3>1. Goes(c, "decompose")
      BY <1>3, <2>2 DEF Start, Prewarms, WarmsFirst, StartsSubtask, StartsSample
    <3> QED  BY <1>2, <3>1
  <2> QED  BY <2>1, <2>2
<1>4. CASE LlmStep(c)
  BY <1>4, LlmEffect DEF LlmNodes
<1>5. CASE StackStep(c)
  <2>1. CASE MissesStack(c) \/ LocksStack(c) \/ LoadRaises(c)
    <3>1. \E pc \in {"waiting", "locked", "raised"} : Goes(c, pc)
      BY <2>1 DEF MissesStack, LocksStack, LoadRaises
    <3> QED  BY <1>2, <3>1
  <2>2. CASE FindsStack(c) \/ FindsStackLocked(c) \/ StackBuilt(c)
    <3>1. caller[c].pc \in Retrieving /\ \E index : HasStack(c, index)
      BY <2>2 DEF FindsStack, FindsStackLocked, StackBuilt, At, Retrieving, Building
    <3> QED  BY <3>1, HasStackEffect
  <2> QED  BY <1>5, <2>1, <2>2 DEF StackStep
<1>6. CASE RetrieveStep(c)
  <2>1. CASE EmbedStarts(c) \/ Embedded(c) \/ SearchRaises(c) \/ RerankStarts(c)
    <3>1. \E pc \in {"embedding", "search", "raised", "reranking"} : Goes(c, pc)
      BY <2>1 DEF EmbedStarts, Embedded, SearchRaises, RerankStarts, TakesGpu
    <3> QED  BY <1>2, <3>1
  <2>2. CASE Searches(c) \/ RerankEnds(c)
    <3>1. \E hits : \/ Put(c, Returned(c, hits))
                    \/ Put(c, [caller[c] EXCEPT !.pc = "rerank", !.candidates = hits])
      BY <2>2 DEF Searches, RerankEnds
    <3>2. PICK hits : \/ Put(c, Returned(c, hits))
                      \/ Put(c, [caller[c] EXCEPT !.pc = "rerank", !.candidates = hits])
      BY <3>1
    <3>3. caller[c].pc \in Retrieving
      BY <2>2 DEF Searches, RerankEnds, At, Retrieving, OnGpu
    <3>4. CASE Put(c, Returned(c, hits))
      BY <1>1, <3>3, <3>4, ReturnedProgress DEF Put
    <3>5. CASE Put(c, [caller[c] EXCEPT !.pc = "rerank", !.candidates = hits])
      BY <1>1, <3>5 DEF Put, Fields
    <3> QED  BY <3>2, <3>4, <3>5
  <2> QED  BY <1>6, <2>1, <2>2 DEF RetrieveStep
<1> QED  BY <1>3, <1>4, <1>5, <1>6 DEF CallerStep

(* Nothing is scrolled, and the index is there or not as before. *)
LEMMA IndexFrame ==
  ASSUME IndexInv, UNCHANGED <<collection, epoch>>, NEW c \in Callers,
         \A d \in Callers \ {c} : caller'[d].pc \in {"scrolling", "scrolled"} =>
                                    caller'[d] = caller[d] /\ scroll' = scroll,
         scroll' \in Indexes, scroll'.from <= scroll'.to, scroll'.to <= epoch,
         stack' = stack \/ Read(stack)',
         caller'[c].pc = "scrolling" => PartlyRead',
         caller'[c].pc = "scrolled" => Read(scroll)'
  PROVE  IndexInv'
<1>1. stack' # None => Read(stack)'
  <2>1. CASE stack' = stack
    BY <2>1 DEF IndexInv, Read
  <2> QED  BY <2>1
<1>2. ASSUME NEW d \in Callers
      PROVE  /\ caller'[d].pc = "scrolling" => PartlyRead'
             /\ caller'[d].pc = "scrolled" => Read(scroll)'
  <2>1. CASE d # c /\ caller'[d].pc \in {"scrolling", "scrolled"}
    <3>1. caller'[d] = caller[d] /\ scroll' = scroll
      BY <2>1
    <3>2. /\ caller'[d].pc = "scrolling" => PartlyRead
          /\ caller'[d].pc = "scrolled" => Read(scroll)
      BY <3>1 DEF IndexInv
    <3> QED  BY <3>1, <3>2 DEF PartlyRead, Read
  <2> QED  BY <2>1
<1> QED  BY <1>1, <1>2 DEF IndexInv

(* A page continues the part that was read before. *)
LEMMA PageIsRead ==
  ASSUME NEW S, NEW coll \in Seq(S), NEW docs \in Seq(S), NEW last \in 0 .. Len(coll)
  PROVE  docs \o SubSeq(coll, Len(docs) + 1, last) \in Seq(S)
<1>1. SubSeq(coll, Len(docs) + 1, last) \in Seq(S)
  <2>1. \A i \in Len(docs) + 1 .. last : coll[i] \in S
    OBVIOUS
  <2>2. Len(docs) \in Nat /\ last \in Int
    OBVIOUS
  <2> QED  BY <2>1, <2>2, SubSeqProperties
<1> QED  BY <1>1, ConcatProperties

LEMMA PageContinues ==
  ASSUME NEW S, NEW coll \in Seq(S), NEW docs, NEW last \in 0 .. Len(coll), Len(docs) \in 0 .. last,
         docs = SubSeq(coll, 1, Len(docs))
  PROVE  /\ docs \o SubSeq(coll, Len(docs) + 1, last) = SubSeq(coll, 1, last)
         /\ Len(SubSeq(coll, 1, last)) = last
         /\ SubSeq(coll, 1, Len(coll)) = coll
<1>1. /\ 1 \in 1 .. Len(coll) + 1 /\ Len(docs) \in 1 - 1 .. Len(coll)
      /\ last \in Len(docs) .. Len(coll)
  OBVIOUS
<1>2. SubSeq(coll, 1, Len(docs)) \o SubSeq(coll, Len(docs) + 1, last) = SubSeq(coll, 1, last)
  BY <1>1, ConcatAdjacentSubSeq
<1>3. Len(SubSeq(coll, 1, last)) = last
  OBVIOUS
<1>4. SubSeq(coll, 1, Len(coll)) = coll
  BY SubSeqFull
<1> QED  BY <1>2, <1>3, <1>4

LEMMA ScrollsPageRead ==
  ASSUME CallersInv, IndexInv, QdrantInv, NEW c \in Callers, ScrollsPage(c)
  PROVE  /\ scroll' \in Indexes /\ scroll'.from <= scroll'.to /\ scroll'.to <= epoch
         /\ caller'[c].pc = "scrolling" => PartlyRead'
         /\ caller'[c].pc = "scrolled" => Read(scroll)'
<1> DEFINE coll == collection
           last == Min({Len(scroll.docs) + PageSize, Len(coll)})
           new == scroll.docs \o SubSeq(coll, Len(scroll.docs) + 1, last)
<1>1. /\ caller[c].pc = "scrolling" /\ collection # None
      /\ scroll' = [scroll EXCEPT !.docs = new, !.to = epoch]
      /\ Goes(c, IF Len(scroll.docs) + PageSize < Len(coll) THEN "scrolling" ELSE "scrolled")
      /\ UNCHANGED <<collection, epoch>>
  BY DEF ScrollsPage, At, qdrant
<1>2. /\ scroll \in Indexes /\ scroll.from <= scroll.to /\ scroll.to <= epoch
      /\ PartlyRead /\ coll \in Points /\ epoch \in Nat
      /\ coll # <<>> => Covers(coll)
  BY <1>1 DEF IndexInv, QdrantInv
<1>3. scroll.docs \in Points /\ scroll.from \in Nat /\ scroll.to \in Nat /\ PageSize \in Nat \ {0}
  BY <1>2, SubgraphAssumption DEF Indexes
<1>4. /\ last \in 0 .. Len(coll)
      /\ Len(scroll.docs) + PageSize >= Len(coll) => last = Len(coll)
      /\ Len(scroll.docs) <= Len(coll) => Len(scroll.docs) \in 0 .. last
  <2>1. Len(scroll.docs) \in Nat /\ Len(coll) \in Nat
    BY <1>2, <1>3 DEF Points
  <2>2. last = IF Len(scroll.docs) + PageSize <= Len(coll)
               THEN Len(scroll.docs) + PageSize ELSE Len(coll)
    BY <1>3, <2>1, MinOfTwo
  <2> HIDE DEF last
  <2> QED  BY <1>3, <2>1, <2>2
<1> HIDE DEF last
<1>5. new \in Points
  <2>1. coll \in Seq(Domains) /\ scroll.docs \in Seq(Domains)
    BY <1>2, <1>3 DEF Points
  <2> HIDE DEF coll
  <2> QED  BY <1>4, <2>1, PageIsRead DEF Points
<1>6. ASSUME scroll.from = epoch
       PROVE  new = SubSeq(coll, 1, last) /\ Len(new) = last /\ SubSeq(coll, 1, Len(coll)) = coll
  <2>1. /\ coll \in Seq(Domains) /\ scroll.docs = SubSeq(coll, 1, Len(scroll.docs))
        /\ Len(scroll.docs) \in 0 .. last
    BY <1>2, <1>3, <1>4, <1>6 DEF Points, PartlyRead
  <2> HIDE DEF coll
  <2>2. /\ new = SubSeq(coll, 1, last) /\ Len(SubSeq(coll, 1, last)) = last
        /\ SubSeq(coll, 1, Len(coll)) = coll
    BY <1>4, <2>1, PageContinues
  <2> HIDE DEF new
  <2> QED  BY <2>2
<1> HIDE DEF new
<1>7. scroll' = [docs |-> new, from |-> scroll.from, to |-> epoch]
  BY <1>1, <1>2 DEF Indexes
<1>8. scroll' \in Indexes /\ scroll'.from <= scroll'.to /\ scroll'.to <= epoch
  BY <1>2, <1>3, <1>7, <1>5 DEF Indexes
<1>9. ASSUME scroll.from = epoch
      PROVE  /\ Len(new) <= Len(coll) /\ new = SubSeq(coll, 1, Len(new))
             /\ Len(scroll.docs) + PageSize >= Len(coll) => new = coll
  <2>1. new = SubSeq(coll, 1, last) /\ Len(new) = last /\ SubSeq(coll, 1, Len(coll)) = coll
    BY <1>9, <1>6
  <2>2. new = SubSeq(coll, 1, Len(new))
    BY <2>1
  <2>3. Len(new) <= Len(coll)
    <3>1. Len(coll) \in Nat
      BY <1>2 DEF Points
    <3>2. last <= Len(coll)
      BY <1>4, <3>1
    <3>3. Len(new) = last
      BY <2>1
    <3> HIDE DEF coll
    <3> QED  BY <3>2, <3>3, Zenon
  <2>4. ASSUME last = Len(coll) PROVE new = coll
    BY <2>1, <2>4
  <2> QED  BY <1>4, <2>2, <2>3, <2>4
<1>10. PartlyRead'
  BY <1>1, <1>7, <1>9 DEF PartlyRead
<1>11. ASSUME caller'[c].pc = "scrolled" PROVE Read(scroll)'
  <2>1. Len(scroll.docs) + PageSize >= Len(coll)
    <3>1. ~(Len(scroll.docs) + PageSize < Len(coll))
      BY <1>1, <1>11 DEF Goes, Put, CallersInv, State
    <3>2. Len(scroll.docs) \in Nat /\ Len(coll) \in Nat
      BY <1>2, <1>3 DEF Points
    <3> QED  BY <1>3, <3>1, <3>2
  <2>2. scroll.from = epoch => new = coll
    BY <1>9, <2>1
  <2>3. Whole(scroll') => scroll.from = epoch /\ new # <<>>
    BY <1>7 DEF Whole
  <2> QED  BY <1>1, <1>2, <1>7, <1>8, <2>2, <2>3 DEF Read, Covers
<1> QED  BY <1>1, <1>8, <1>10, <1>11

LEMMA CallerStepIndex ==
  ASSUME IInv, CallersInv, IndexInv, QdrantInv, NEW c \in Callers, CallerStep(c)
  PROVE  IndexInv'
<1>1. /\ UNCHANGED <<collection, epoch>> /\ epoch \in Nat
      /\ scroll \in Indexes /\ scroll.from <= scroll.to /\ scroll.to <= epoch
  BY QdrantFrame DEF qdrant, QdrantInv, IndexInv
<1>2. \A d \in Callers \ {c} : caller'[d] = caller[d]
  BY CallerSettled DEF IInv, Settled, Effect
<1>3. caller[c].pc \in Building =>
        \A d \in Callers \ {c} : caller'[d].pc \notin {"scrolling", "scrolled"}
  BY <1>2 DEF IInv, LockInv, Building
<1>4. NoScroll \in Indexes /\ NoScroll.from <= NoScroll.to /\ NoScroll.to <= epoch
  BY <1>1 DEF NoScroll, Indexes, Points
<1>5. CASE LoadStarts(c)
  <2> DEFINE new == [docs |-> <<>>, from |-> epoch, to |-> epoch]
  <2>1. /\ stack' = stack /\ scroll' = new /\ caller[c].pc = "locked"
        /\ Goes(c, IF collection = None THEN "scrolled" ELSE "scrolling")
    BY <1>5 DEF LoadStarts, At
  <2>2. new \in Indexes /\ new.from = epoch /\ new.to = epoch /\ new.docs = <<>>
    BY <1>1 DEF Indexes, Points
  <2>3. epoch <= epoch
    BY <1>1
  <2>4. Read(scroll)'
    BY <1>1, <2>1, <2>2, <2>3 DEF Read, Whole
  <2>5. collection # None => PartlyRead'
    <3>1. ASSUME collection # None PROVE PartlyRead'
      <4>1. collection \in Seq(Domains)
        BY <3>1 DEF QdrantInv, Points
      <4>2. 0 <= Len(collection) /\ Len(<<>>) = 0 /\ SubSeq(collection, 1, 0) = <<>>
        BY <4>1
      <4> QED  BY <1>1, <2>1, <2>2, <3>1, <4>2 DEF PartlyRead
    <3> QED  BY <3>1
  <2>6. caller'[c].pc = "scrolling" => collection # None
    BY <2>1 DEF Goes, Put, CallersInv, State
  <2>7. caller[c].pc \in Building
    BY <2>1 DEF Building
  <2> HIDE DEF new
  <2> QED  BY <1>1, <1>3, <2>1, <2>2, <2>3, <2>4, <2>5, <2>6, <2>7, IndexFrame
<1>6. CASE ScrollsPage(c)
  <2>1. stack' = stack /\ caller[c].pc \in Building
    BY <1>6 DEF ScrollsPage, At, Building
  <2>2. /\ scroll' \in Indexes /\ scroll'.from <= scroll'.to /\ scroll'.to <= epoch
        /\ caller'[c].pc = "scrolling" => PartlyRead'
        /\ caller'[c].pc = "scrolled" => Read(scroll)'
    BY <1>6, ScrollsPageRead
  <2> QED  BY <1>1, <1>3, <2>1, <2>2, IndexFrame
<1>7. CASE ~LoadStarts(c) /\ ~ScrollsPage(c)
  <2>1. caller'[c].pc \notin {"scrolling", "scrolled"}
    BY <1>7, Elsewhere DEF IInv
  <2>2. CASE StackBuilt(c)
    <3>1. stack' = scroll /\ scroll' = NoScroll /\ caller[c].pc = "scrolled"
      BY <2>2 DEF StackBuilt, At
    <3>2. Read(scroll) /\ caller[c].pc \in Building
      BY <3>1 DEF IndexInv, Building
    <3>3. Read(stack)'
      BY <1>1, <3>1, <3>2 DEF Read
    <3> QED  BY <1>1, <1>3, <1>4, <2>1, <3>1, <3>2, <3>3, IndexFrame
  <2>3. CASE LoadRaises(c)
    <3>1. stack' = stack /\ scroll' = NoScroll /\ caller[c].pc \in Building
      BY <2>3 DEF LoadRaises
    <3> QED  BY <1>1, <1>3, <1>4, <2>1, <3>1, IndexFrame
  <2>4. CASE ~StackBuilt(c) /\ ~LoadRaises(c)
    <3>1. stack' = stack /\ scroll' = scroll
      BY <1>7, <2>4
         DEF CallerStep, Start, Prewarms, WarmsFirst, Warms, StartsSubtask, StartsSample,
             LlmStep, RouterFallsBack, RouterRaises, Decompose, Grade, Rewrite, Generate,
             StackStep, FindsStack, MissesStack, LocksStack, FindsStackLocked,
             RetrieveStep, EmbedStarts, Embedded, Searches, SearchRaises, RerankStarts,
             RerankEnds, TakesGpu
    <3> QED  BY <1>1, <1>2, <2>1, <3>1, IndexFrame
  <2> QED  BY <2>2, <2>3, <2>4
<1> QED  BY <1>5, <1>6, <1>7

-----------------------------------------------------------------------------
(* The ingest *)

IngestPc == {"idle", "ready", "deleted", "created"}

LEMMA ChunksAreChunk == Chunks = Seq(Chunk)
BY DEF Chunks, Chunk

LEMMA IngestStartsQdrant ==
  ASSUME QdrantInv, IngestStarts
  PROVE  QdrantInv'
<1>1. PICK mode \in Modes, readable \in SUBSET ToSet(Manifest), contextual \in BOOLEAN :
        \E c \in apply_contextual_prefixes(
                   chunk_passages(select_passages(mode, CorpusOf(mode, readable))),
                   CorpusOf(mode, readable), contextual) :
          ingest' = [pc |-> "ready", chunks |-> c]
  BY DEF IngestStarts, CorpusOf
<1>2. PICK c \in apply_contextual_prefixes(
                   chunk_passages(select_passages(mode, CorpusOf(mode, readable))),
                   CorpusOf(mode, readable), contextual) :
        ingest' = [pc |-> "ready", chunks |-> c]
  BY <1>1
<1>3. /\ c \in Seq(Chunk)
      /\ \A d \in Domains : \E i \in DOMAIN c : c[i].domain = d
      /\ \A i \in DOMAIN c :
           \/ c[i].about = "none"
           \/ \E p \in ToSet(Manifest) : p.source = c[i].source /\ c[i].about = p.domain
  BY <1>2, IngestCovers
<1>4. ChunksCover(c)
  BY <1>3 DEF ChunksCover
<1>5. PrefixOfOwnDocument'
  <2> SUFFICES ASSUME NEW i \in DOMAIN c
               PROVE  \/ c[i].about \in {"none", c[i].domain}
                      \/ \E p \in ToSet(Manifest) : p.source = c[i].source /\ p.domain # c[i].domain
    BY <1>2 DEF PrefixOfOwnDocument
  <2> QED  BY <1>3
<1>6. ingest'.pc = "ready" /\ ingest'.chunks = c
  BY <1>2
<1>7. ingest' \in [pc : IngestPc, chunks : Chunks]
  BY <1>2, <1>3, ChunksAreChunk DEF IngestPc
<1>8. UNCHANGED <<collection, epoch>>
  BY DEF IngestStarts
<1> QED  BY <1>4, <1>5, <1>6, <1>7, <1>8 DEF QdrantInv, IngestPc, Covers

LEMMA EmptyIngest ==
  /\ [pc |-> "idle", chunks |-> <<>>] \in [pc : IngestPc, chunks : Chunks]
  /\ DOMAIN <<>> = {}
BY DEF IngestPc, Chunks

LEMMA IngestQdrant ==
  ASSUME QdrantInv, IngestStep
  PROVE  QdrantInv'
<1>1. /\ epoch \in Nat /\ collection \in Points \cup {None}
      /\ collection \notin {None, <<>>} => Covers(collection)
      /\ ingest \in [pc : IngestPc, chunks : Chunks]
      /\ ingest.pc # "idle" => ChunksCover(ingest.chunks)
      /\ PrefixOfOwnDocument
  BY DEF QdrantInv, IngestPc
<1>2. CASE IngestStarts
  BY <1>2, IngestStartsQdrant
<1>3. CASE IngestDeletes \/ IngestCreates
  <2>1. PICK points \in {None, <<>>}, pc \in {"deleted", "created"} : Changes(points, pc)
    BY <1>3 DEF IngestDeletes, IngestCreates
  <2>2. /\ collection' = points /\ epoch' = epoch + 1 /\ ingest' = [ingest EXCEPT !.pc = pc]
    BY <2>1 DEF Changes
  <2>3. ingest.pc # "idle"
    BY <1>3 DEF IngestDeletes, IngestCreates
  <2>4. /\ ingest' \in [pc : IngestPc, chunks : Chunks] /\ ingest'.chunks = ingest.chunks
    BY <1>1, <2>2 DEF IngestPc
  <2>5. PrefixOfOwnDocument'
    BY <1>1, <2>4 DEF PrefixOfOwnDocument
  <2>6. collection' \in Points \cup {None} /\ collection' \in {None, <<>>}
    <3>1. <<>> \in Points
      BY DEF Points
    <3> QED  BY <2>2, <3>1
  <2>7. epoch' \in Nat
    BY <1>1, <2>2
  <2>8. ChunksCover(ingest'.chunks)
    BY <1>1, <2>3, <2>4
  <2> QED  BY <2>4, <2>5, <2>6, <2>7, <2>8 DEF QdrantInv, IngestPc
<1>4. CASE IngestUpserts
  <2> DEFINE chunks == ingest.chunks
             points == [i \in DOMAIN chunks |-> chunks[i].domain]
  <2>1. /\ collection' = points /\ epoch' = epoch + 1 /\ ingest.pc = "created"
        /\ ingest' = [pc |-> "idle", chunks |-> <<>>]
    BY <1>4 DEF IngestUpserts
  <2>2. chunks \in Seq(Chunk)
    BY <1>1, ChunksAreChunk
  <2>3. points \in Points
    <3>1. /\ DOMAIN chunks = 1 .. Len(chunks) /\ Len(chunks) \in Nat
          /\ \A i \in DOMAIN chunks : chunks[i] \in Chunk
      BY <2>2
    <3> HIDE DEF chunks
    <3>2. points \in [1 .. Len(chunks) -> Domains]
      BY <3>1 DEF Chunk
    <3> QED  BY <3>1, <3>2 DEF Points
  <2>4. Covers(points)
    <3>1. ChunksCover(chunks)
      BY <1>1, <2>1
    <3> HIDE DEF chunks
    <3> QED  BY <3>1 DEF Covers, ChunksCover
  <2> HIDE DEF points
  <2>5. PrefixOfOwnDocument'
    BY <2>1, EmptyIngest DEF PrefixOfOwnDocument
  <2>6. Covers(collection)'
    BY <2>1, <2>4 DEF Covers
  <2> QED  BY <1>1, <2>1, <2>3, <2>5, <2>6, EmptyIngest DEF QdrantInv, IngestPc
<1>5. CASE IngestDies
  <2>1. UNCHANGED <<collection, epoch>> /\ ingest' = [pc |-> "idle", chunks |-> <<>>]
    BY <1>5 DEF IngestDies
  <2>2. PrefixOfOwnDocument'
    BY <2>1, EmptyIngest DEF PrefixOfOwnDocument
  <2> QED  BY <1>1, <2>1, <2>2, EmptyIngest DEF QdrantInv, IngestPc, Covers
<1> QED  BY <1>2, <1>3, <1>4, <1>5 DEF IngestStep

(* A change makes every index that was read or is being read an old one. *)
LEMMA IngestIndex ==
  ASSUME IndexInv, QdrantInv, IngestStep
  PROVE  IndexInv'
<1>1. UNCHANGED process
  BY IngestFrame
<1>2. \/ UNCHANGED <<collection, epoch>>
      \/ epoch' = epoch + 1
  BY DEF IngestStep, IngestStarts, IngestDeletes, IngestCreates, IngestUpserts, IngestDies, Changes
<1>3. CASE UNCHANGED <<collection, epoch>>
  BY <1>1, <1>3 DEF process, IndexInv, Read, PartlyRead
<1>4. CASE epoch' = epoch + 1
  <2>1. epoch \in Nat
    BY DEF QdrantInv
  <2>2. ASSUME NEW index, Read(index)
        PROVE  /\ index \in Indexes /\ index.from <= index.to /\ index.to <= epoch'
               /\ index.from # epoch' /\ (Whole(index) => Covers(index.docs))
    BY <1>4, <2>1, <2>2 DEF Read, Indexes
  <2>3. stack' # None => Read(stack)'
    <3>1. ASSUME stack # None PROVE Read(stack)'
      <4>1. Read(stack)
        BY <3>1 DEF IndexInv
      <4> QED  BY <1>1, <2>2, <4>1 DEF process, Read
    <3> QED  BY <1>1, <3>1 DEF process
  <2>4. scroll' \in Indexes /\ scroll'.from <= scroll'.to /\ scroll'.to <= epoch' /\ scroll'.from # epoch'
    BY <1>1, <1>4, <2>1 DEF process, IndexInv, Indexes
  <2>5. PartlyRead'
    BY <2>4 DEF PartlyRead
  <2>6. ASSUME NEW d \in Callers, caller'[d].pc = "scrolled" PROVE Read(scroll)'
    <3>1. Read(scroll)
      BY <1>1, <2>6 DEF process, IndexInv
    <3> QED  BY <1>1, <2>2, <3>1 DEF process, Read
  <2> QED  BY <2>3, <2>4, <2>5, <2>6 DEF IndexInv
<1> QED  BY <1>2, <1>3, <1>4

-----------------------------------------------------------------------------
(* The theorems on what is retrieved *)

LockTypes == stackLock \in Callers \cup {None} /\ gpuLock \in Callers \cup {None}

RetrievalInv == CallersInv /\ IndexInv /\ QdrantInv /\ LockTypes /\ bench \in BOOLEAN

LEMMA RetrievalInit == Init => RetrievalInv
<1> SUFFICES ASSUME Init PROVE RetrievalInv
  OBVIOUS
<1>1. PICK warm \in {"queued", "warmed"} :
       caller = [c \in Callers |->
                   [pc |-> IF c = WarmUp THEN warm ELSE "queued",
                    model |-> "primary", queries |-> 0, rewrites |-> 0,
                    evidence |-> {}, candidates |-> {}]]
  BY DEF Init
<1>2. /\ {"queued", "warmed"} \subseteq Pc
      /\ {"queued", "warmed"} \cap (Retrieving \cup Searching \cup Shortlisted \cup Judging) = {}
      /\ 0 \in 0 .. MaxSubQueries /\ 0 \in 0 .. MAX_REWRITES
  BY Places, SubgraphAssumption DEF Ended
<1>3. ASSUME NEW c \in Callers PROVE caller[c] \in State /\ Good(caller[c], stack)
  BY <1>1, <1>2 DEF State, Good
<1>4. CallersInv
  <2>1. caller \in [Callers -> State]
    BY <1>1, <1>3
  <2> QED  BY <1>3, <2>1 DEF CallersInv
<1>5. IndexInv
  <2>1. scroll = NoScroll /\ stack = None /\ epoch = 0
    BY DEF Init
  <2>2. scroll \in Indexes /\ scroll.from <= scroll.to /\ scroll.to <= epoch
    BY <2>1 DEF NoScroll, Indexes, Points
  <2>3. \A c \in Callers : caller[c].pc \notin {"scrolling", "scrolled"}
    BY <1>1
  <2> QED  BY <2>1, <2>2, <2>3 DEF IndexInv
<1>6. QdrantInv
  <2>1. collection = None /\ epoch = 0 /\ ingest = [pc |-> "idle", chunks |-> <<>>]
    BY DEF Init
  <2>2. PrefixOfOwnDocument
    BY <2>1, EmptyIngest DEF PrefixOfOwnDocument
  <2> QED  BY <2>1, <2>2, EmptyIngest DEF QdrantInv, IngestPc
<1> QED  BY <1>4, <1>5, <1>6 DEF RetrievalInv, LockTypes, Init

LEMMA RetrievalNext ==
  IInv /\ RetrievalInv /\ [Next]_vars => RetrievalInv'
<1> SUFFICES ASSUME IInv, RetrievalInv, [Next]_vars PROVE RetrievalInv'
  OBVIOUS
<1>1. CASE \E c \in Callers : CallerStep(c)
  <2>1. PICK c \in Callers : CallerStep(c)
    BY <1>1
  <2>2. CallersInv' /\ IndexInv'
    BY <2>1, CallerStepCallers, CallerStepIndex DEF RetrievalInv
  <2>3. UNCHANGED qdrant
    BY <2>1, QdrantFrame
  <2>4. QdrantInv'
    BY <2>3 DEF qdrant, RetrievalInv, QdrantInv, PrefixOfOwnDocument
  <2>5. bench' = bench
    BY <2>1 DEF CallerStep, Start, Prewarms, WarmsFirst, Warms, StartsSubtask, StartsSample,
       LlmStep, RouterFallsBack, RouterRaises, Decompose, Grade, Rewrite, Generate,
       StackStep, FindsStack, MissesStack, LocksStack, FindsStackLocked, LoadStarts,
       ScrollsPage, StackBuilt, LoadRaises,
       RetrieveStep, EmbedStarts, Embedded, Searches, SearchRaises, RerankStarts,
       RerankEnds, TakesGpu
  <2>6. LockTypes'
    <3>1. stackLock' \in {stackLock, None, c} /\ gpuLock' \in {gpuLock, None, c}
      BY <2>1 DEF CallerStep, Start, Prewarms, WarmsFirst, Warms, StartsSubtask, StartsSample,
         LlmStep, RouterFallsBack, RouterRaises, Decompose, Grade, Rewrite, Generate,
         StackStep, FindsStack, MissesStack, LocksStack, FindsStackLocked, LoadStarts,
         ScrollsPage, StackBuilt, LoadRaises,
         RetrieveStep, EmbedStarts, Embedded, Searches, SearchRaises, RerankStarts,
         RerankEnds, TakesGpu
    <3> QED  BY <3>1 DEF RetrievalInv, LockTypes
  <2> QED  BY <2>2, <2>4, <2>5, <2>6 DEF RetrievalInv
<1>2. CASE IngestStep
  <2>1. UNCHANGED process /\ bench' = bench
    BY <1>2, IngestFrame DEF IngestStep, IngestStarts, IngestDeletes, IngestCreates,
       IngestUpserts, IngestDies, Changes
  <2>2. CallersInv'
    BY <2>1 DEF process, RetrievalInv, CallersInv
  <2>3. LockTypes'
    BY <2>1 DEF process, RetrievalInv, LockTypes
  <2> QED  BY <1>2, <2>1, <2>2, <2>3, IngestIndex, IngestQdrant DEF RetrievalInv
<1>3. CASE UNCHANGED vars
  <2>1. UNCHANGED <<caller, stack, stackLock, gpuLock, scroll, collection, epoch, ingest, bench>>
    BY <1>3 DEF vars, process, qdrant
  <2> QED  BY <2>1 DEF RetrievalInv, CallersInv, IndexInv, QdrantInv, LockTypes,
       Read, PartlyRead, PrefixOfOwnDocument
<1> QED  BY <1>1, <1>2, <1>3 DEF Next

THEOREM RetrievalInvariance == Spec => []RetrievalInv
BY RetrievalInit, RetrievalNext, Invariance, PTL DEF Spec

(***************************************************************************)
(* Every caller, index and ingest has its type: no branch asks more        *)
(* sub-queries or rewrites than it may (agents/specialists/builder.py:301);*)
(* and a lock is held exactly while its holder is at work under it, also   *)
(* when a construction fails (mcp_servers/rag/server.py:35).               *)
(***************************************************************************)
THEOREM TypeCorrect == Spec => []TypeOK
<1>1. IInv /\ RetrievalInv => TypeOK
  <2> SUFFICES ASSUME IInv, RetrievalInv PROVE TypeOK
    OBVIOUS
  <2>1. stackLock \in Callers \cup {None} /\ gpuLock \in Callers \cup {None}
    BY DEF RetrievalInv, LockTypes
  <2>2. /\ caller \in [Callers -> State] /\ scroll \in Indexes
        /\ stack \in Indexes \cup {None}
    BY DEF RetrievalInv, CallersInv, IndexInv, Read
  <2>3. \A c \in Callers : /\ stackLock = c <=> caller[c].pc \in Building
                           /\ gpuLock = c <=> caller[c].pc \in OnGpu
    BY DEF IInv, LockInv
  <2> QED  BY <2>1, <2>2, <2>3 DEF RetrievalInv, QdrantInv, TypeOK, State, Indexes
<1> QED  BY <1>1, Invariance, RetrievalInvariance, PTL

(***************************************************************************)
(* A branch that judges on no evidence has a process whose index was read  *)
(* before the first ingest or in the middle of one (rag/ingest.py:144).    *)
(***************************************************************************)
THEOREM Grounded == Spec => []GroundedUnlessTorn
<1>1. RetrievalInv => GroundedUnlessTorn
  BY DEF RetrievalInv, CallersInv, Good, Judging, GroundedUnlessTorn, Callers
<1> QED  BY <1>1, RetrievalInvariance, PTL

(***************************************************************************)
(* A prefix speaks of the chunk's own domain unless the manifest has two   *)
(* documents of one source tag (rag/ingest.py:174).                        *)
(***************************************************************************)
THEOREM PrefixKept == Spec => []PrefixOfOwnDocument
<1>1. RetrievalInv => PrefixOfOwnDocument
  BY DEF RetrievalInv, QdrantInv
<1> QED  BY <1>1, RetrievalInvariance, PTL

(* A step that finds a caller searching leaves it the chunks of its domain, *)
(* if nothing was ingested since its index was begun.                       *)
LEMMA FreshSearch ==
  ASSUME IInv, RetrievalInv, [Next]_vars, NEW c \in Callers, At(c, "search"), epoch = stack.from
  PROVE  caller'[c].candidates \subseteq InDomain(stack.docs, c)
<1>1. /\ caller[c] \in State /\ caller[c].pc \in Searching \ Shortlisted
      /\ caller \in [Callers -> State]
      /\ Good(caller[c], stack)
  BY DEF At, RetrievalInv, CallersInv, Searching, Shortlisted
<1>2. caller[c].candidates = {} /\ stack # None /\ stack.docs # <<>>
  BY <1>1 DEF Good
<1>3. CASE caller'[c] = caller[c]
  BY <1>2, <1>3
<1>4. CASE ~(caller'[c] = caller[c])
  <2>1. PICK d \in Callers : CallerStep(d)
    <3>1. ~IngestStep /\ ~UNCHANGED vars
      BY <1>4, IngestFrame DEF vars, process
    <3> QED  BY <3>1 DEF Next
  <2>2. d = c
    BY <1>4, <2>1, CallerSettled DEF IInv, Settled, Effect
  <2>3. SearchRaises(c) \/ Searches(c)
    BY <2>1, <2>2 DEF At, CallerStep, Start, Prewarms, WarmsFirst, Warms, StartsSubtask,
       StartsSample, LlmStep, RouterFallsBack, RouterRaises, Decompose, Grade, Rewrite, Generate,
       StackStep, FindsStack, MissesStack, LocksStack, FindsStackLocked, LoadStarts,
       ScrollsPage, StackBuilt, LoadRaises, LlmNodes, Building,
       RetrieveStep, EmbedStarts, Embedded, RerankStarts, RerankEnds, TakesGpu
  <2>4. CASE SearchRaises(c)
    BY <1>1, <1>2, <2>4 DEF SearchRaises, Goes, Put, State
  <2>5. CASE Searches(c)
    <3>1. collection \in Points /\ Read(stack) /\ stack.docs = collection /\ stack \in Indexes
      BY <1>2, <2>5 DEF Searches, RetrievalInv, QdrantInv, IndexInv, Read
    <3>2. PICK dense \in Rankings(InDomain(collection, c)),
               sparse \in Rankings(InDomain(stack.docs, c)) :
            \E found \in Candidates(Known(dense, DOMAIN stack.docs), sparse) :
              Put(c, IF found = {} THEN Returned(c, {})
                     ELSE [caller[c] EXCEPT !.pc = "rerank", !.candidates = found])
      BY <2>5 DEF Searches
    <3>3. PICK found \in Candidates(Known(dense, DOMAIN stack.docs), sparse) :
              Put(c, IF found = {} THEN Returned(c, {})
                     ELSE [caller[c] EXCEPT !.pc = "rerank", !.candidates = found])
      BY <3>2
    <3>4. found \subseteq InDomain(stack.docs, c)
      BY <3>1, SearchFinds
    <3>5. CASE found = {}
      <4>1. caller'[c] = Returned(c, {})
        BY <1>1, <3>3, <3>5 DEF Put
      <4>2. Returned(c, {}).candidates = {}
        BY <1>1 DEF Returned, State
      <4> QED  BY <4>1, <4>2
    <3>6. CASE found # {}
      <4>1. caller'[c] = [caller[c] EXCEPT !.pc = "rerank", !.candidates = found]
        BY <1>1, <3>3, <3>6 DEF Put
      <4>2. caller'[c].candidates = found
        BY <1>1, <4>1 DEF State
      <4> QED  BY <3>4, <4>2
    <3> QED  BY <3>5, <3>6
  <2> QED  BY <2>3, <2>4, <2>5
<1> QED  BY <1>3, <1>4

(***************************************************************************)
(* A chunk of a foreign domain is only surfaced by an index older than the *)
(* collection (rag/retrieve.py:278).                                       *)
(***************************************************************************)
THEOREM ForeignKept == Spec => ForeignOnlyWhenStale
<1> DEFINE A == \A c \in Callers : At(c, "search") /\ epoch = stack.from
                  => caller'[c].candidates \subseteq InDomain(stack.docs, c)
<1>1. ASSUME IInv, RetrievalInv, [Next]_vars
      PROVE  [A]_vars
  BY <1>1, FreshSearch
<1>2. IInv /\ RetrievalInv /\ [Next]_vars => [A]_vars
  BY <1>1
<1> QED  BY <1>2, Invariance, RetrievalInvariance, PTL DEF Spec, ForeignOnlyWhenStale
==============================================================================
