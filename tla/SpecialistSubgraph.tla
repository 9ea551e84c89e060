------------------------- MODULE SpecialistSubgraph -------------------------
(***************************************************************************)
(* The specialists of one process and the retrieval they share             *)
(* (agents/specialists/builder.py, core/router.py, mcp_servers/rag,        *)
(* rag/retrieve.py), while an ingest in another process rebuilds the       *)
(* collection (rag/ingest.py).  The branches are the subtasks of a wave of *)
(* the main graph or the samples of a benchmark (eval/runner.py); a call   *)
(* that warms up the retrieval stack runs ahead of them, or beside them.   *)
(*                                                                         *)
(* Queries are not distinguished: which chunks rank first is any choice.   *)
(* `evidence` is the accumulated list without its order, a chunk being its *)
(* position in the index.                                                  *)
(***************************************************************************)
EXTENDS StandardsCorpus

CONSTANTS
  Branches,      \* concurrent runs of the compiled subgraph
  WarmUp,        \* the warm-up call
  DomainOf,      \* the domain of each caller
  MaxSubQueries, \* at most so many sub-queries
  MAX_REWRITES,  \* rewrite cap per subtask
  PageSize,      \* points in a page of the scroll
  MaxIngests,    \* bound on the ingests
  None           \* Python's None

Callers == Branches \cup {WarmUp}

(* Of a stored point only its domain tells; a prefix only moves its ranks. *)
Points == Seq(Domains)

Chunks == Seq([source : STRING, domain : Domains, about : Domains \cup {"none"}])

ASSUME SubgraphAssumption ==
  /\ WarmUp \notin Branches /\ IsFiniteSet(Branches)
  /\ DomainOf \in [Callers -> Domains]
  /\ {MaxSubQueries, PageSize} \subseteq Nat \ {0}
  /\ MAX_REWRITES \in Nat /\ MaxIngests \in Nat
  /\ None \notin Callers /\ None \notin Points
  /\ None \notin [docs : Points, from : Nat, to : Nat]

LlmNodes == {"decompose", "grade", "rewrite", "generate"}
Building == {"locked", "scrolling", "scrolled"}
OnGpu == {"embedding", "reranking"}
Retrieving == Building \cup OnGpu \cup {"get_stack", "waiting", "embed", "search", "rerank"}
Ended == {"diagnosed", "failed", "raised", "warmed"}
Pc == {"queued"} \cup LlmNodes \cup Retrieving \cup Ended

VARIABLES
  caller,      \* each caller's place and SpecialistState
  stack,       \* the process's RetrievalStack, or None
  stackLock,   \* holder of _stack_lock
  gpuLock,     \* holder of the stack's _gpu_lock
  scroll,      \* the index under construction, with the epochs it was read in
  collection,  \* the points in Qdrant, or None without collection
  epoch,       \* how often the collection was changed
  ingest,      \* the ingest's place and the chunks it will write
  bench        \* whether the branches are samples of the benchmark

process == <<caller, stack, stackLock, gpuLock, scroll>>
qdrant == <<collection, epoch, ingest>>
vars == <<process, qdrant, bench>>

NoScroll == [docs |-> <<>>, from |-> 0, to |-> 0]

(* The stack may also be cold without any warm-up under way. *)
Init ==
  /\ \E warm \in {"queued", "warmed"} :
       caller = [c \in Callers |->
                   [pc |-> IF c = WarmUp THEN warm ELSE "queued",
                    model |-> "primary", queries |-> 0, rewrites |-> 0,
                    evidence |-> {}, candidates |-> {}]]
  /\ bench \in BOOLEAN
  /\ stack = None /\ stackLock = None /\ gpuLock = None /\ scroll = NoScroll
  /\ collection = None /\ epoch = 0
  /\ ingest = [pc |-> "idle", chunks |-> <<>>]

-----------------------------------------------------------------------------
(* The language model: one call is one action, or two with the fallback. *)

At(c, pc) == caller[c].pc = pc

Put(c, state) == caller' = [caller EXCEPT ![c] = state]

Goes(c, pc) == Put(c, [caller[c] EXCEPT !.pc = pc])

(* A usable reply: the router's next call starts on its primary model. *)
Replied(c) == [caller[c] EXCEPT !.model = "primary"]

(* Timeout, lost connection, 5xx or 429 on the primary model. *)
RouterFallsBack(c) ==
  /\ caller[c].pc \in LlmNodes /\ caller[c].model = "primary"
  /\ Put(c, [caller[c] EXCEPT !.model = "fallback"])
  /\ UNCHANGED <<stack, stackLock, gpuLock, scroll, qdrant, bench>>

(* Any other 4xx leaves the node, which catches RouterExhausted only. *)
RouterRaises(c) ==
  /\ caller[c].pc \in LlmNodes
  /\ Goes(c, "raised")
  /\ UNCHANGED <<stack, stackLock, gpuLock, scroll, qdrant, bench>>

-----------------------------------------------------------------------------
(* The subgraph *)

Warms(c) ==
  /\ At(c, "queued") /\ c = WarmUp
  /\ Put(c, [caller[c] EXCEPT !.pc = "get_stack", !.queries = 1])
  /\ UNCHANGED <<stack, stackLock, gpuLock, scroll, qdrant, bench>>

(* The web process, in a thread of its own, when it starts. *)
Prewarms(c) == ~bench /\ Warms(c)

(* The benchmark, ahead of its samples. *)
WarmsFirst(c) == bench /\ Warms(c)

(* A branch of a wave, beside the warm-up. *)
StartsSubtask(c) ==
  /\ At(c, "queued") /\ c # WarmUp /\ ~bench
  /\ Goes(c, "decompose")
  /\ UNCHANGED <<stack, stackLock, gpuLock, scroll, qdrant, bench>>

(* A sample of a task, once the warm-up has returned or failed. *)
StartsSample(c) ==
  /\ At(c, "queued") /\ c # WarmUp /\ bench
  /\ caller[WarmUp].pc \in Ended
  /\ Goes(c, "decompose")
  /\ UNCHANGED <<stack, stackLock, gpuLock, scroll, qdrant, bench>>

Start(c) == Prewarms(c) \/ WarmsFirst(c) \/ StartsSubtask(c) \/ StartsSample(c)

(* The goal itself is the only sub-query without a usable reply. *)
Decompose(c) ==
  /\ At(c, "decompose")
  /\ \E n \in 1 .. MaxSubQueries :
       Put(c, [Replied(c) EXCEPT !.pc = "get_stack", !.queries = n])
  /\ UNCHANGED <<stack, stackLock, gpuLock, scroll, qdrant, bench>>

(* Without a usable reply the excerpts do not suffice. *)
Grade(c) ==
  /\ At(c, "grade")
  /\ \E yes \in BOOLEAN :
       Put(c, [Replied(c) EXCEPT
                 !.pc = IF yes \/ caller[c].rewrites >= MAX_REWRITES
                        THEN "generate" ELSE "rewrite"])
  /\ UNCHANGED <<stack, stackLock, gpuLock, scroll, qdrant, bench>>

(* Mutant: a rewrite that degraded to the old query is not counted. *)
UncountedRewrite(c) ==
  /\ At(c, "rewrite")
  /\ \E n \in {0, 1} :
       Put(c, [Replied(c) EXCEPT !.pc = "get_stack", !.queries = 1, !.rewrites = @ + n])
  /\ UNCHANGED <<stack, stackLock, gpuLock, scroll, qdrant, bench>>

(* Counted whether or not the query changed. *)
Rewrite(c) ==
  /\ At(c, "rewrite")
  /\ Put(c, [Replied(c) EXCEPT !.pc = "get_stack", !.queries = 1, !.rewrites = @ + 1])
  /\ UNCHANGED <<stack, stackLock, gpuLock, scroll, qdrant, bench>>

(* Nothing to fall back to: no usable reply is a failed subtask. *)
Generate(c) ==
  /\ At(c, "generate")
  /\ \E end \in {"diagnosed", "failed"} : Put(c, [Replied(c) EXCEPT !.pc = end])
  /\ UNCHANGED <<stack, stackLock, gpuLock, scroll, qdrant, bench>>

-----------------------------------------------------------------------------
(* The retrieval server: one stack, built by the first caller *)

(* Mutant: a round replaces the evidence of the round before. *)
ReturnedAnew(c, hits) ==
  [caller[c] EXCEPT
     !.evidence = hits, !.candidates = {}, !.queries = @ - 1,
     !.pc = IF caller[c].queries > 1 THEN "get_stack"
            ELSE IF c = WarmUp THEN "warmed" ELSE "grade"]

(* retrieve() has its hits: the next query, or the end of the round. *)
Returned(c, hits) ==
  [caller[c] EXCEPT
     !.evidence = @ \cup hits, !.candidates = {}, !.queries = @ - 1,
     !.pc = IF caller[c].queries > 1 THEN "get_stack"
            ELSE IF c = WarmUp THEN "warmed" ELSE "grade"]

(* An index without documents answers at once, with nothing. *)
HasStack(c, index) ==
  Put(c, IF index.docs = <<>> THEN Returned(c, {})
         ELSE [caller[c] EXCEPT !.pc = "embed"])

(* The first check, outside the lock. *)
FindsStack(c) ==
  /\ At(c, "get_stack") /\ stack # None
  /\ HasStack(c, stack)
  /\ UNCHANGED <<stack, stackLock, gpuLock, scroll, qdrant, bench>>

MissesStack(c) ==
  /\ At(c, "get_stack") /\ stack = None
  /\ Goes(c, "waiting")
  /\ UNCHANGED <<stack, stackLock, gpuLock, scroll, qdrant, bench>>

LocksStack(c) ==
  /\ At(c, "waiting") /\ stackLock = None
  /\ stackLock' = c /\ Goes(c, "locked")
  /\ UNCHANGED <<stack, gpuLock, scroll, qdrant, bench>>

(* The second check, inside the lock: somebody else built it. *)
FindsStackLocked(c) ==
  /\ At(c, "locked") /\ stack # None
  /\ stackLock' = None /\ HasStack(c, stack)
  /\ UNCHANGED <<stack, gpuLock, scroll, qdrant, bench>>

(* Mutant: no second check inside the lock. *)
LoadsAgain(c) ==
  /\ At(c, "locked")
  /\ scroll' = [docs |-> <<>>, from |-> epoch, to |-> epoch]
  /\ Goes(c, IF collection = None THEN "scrolled" ELSE "scrolling")
  /\ UNCHANGED <<stack, stackLock, gpuLock, qdrant, bench>>

(* The models are loaded; no collection yet is no document. *)
LoadStarts(c) ==
  /\ At(c, "locked") /\ stack = None
  /\ scroll' = [docs |-> <<>>, from |-> epoch, to |-> epoch]
  /\ Goes(c, IF collection = None THEN "scrolled" ELSE "scrolling")
  /\ UNCHANGED <<stack, stackLock, gpuLock, qdrant, bench>>

ScrollsPage(c) ==
  /\ At(c, "scrolling") /\ collection # None
  /\ LET last == Len(scroll.docs) + PageSize
     IN  /\ scroll' = [scroll EXCEPT
                         !.docs = @ \o SubSeq(collection, Len(@) + 1,
                                              Min({last, Len(collection)})),
                         !.to = epoch]
         /\ Goes(c, IF last < Len(collection) THEN "scrolling" ELSE "scrolled")
  /\ UNCHANGED <<stack, stackLock, gpuLock, qdrant, bench>>

StackBuilt(c) ==
  /\ At(c, "scrolled")
  /\ stack' = scroll /\ scroll' = NoScroll
  /\ stackLock' = None /\ HasStack(c, scroll)
  /\ UNCHANGED <<gpuLock, qdrant, bench>>

(* Mutant: a construction that fails keeps the lock. *)
LoadRaisesLocked(c) ==
  /\ caller[c].pc \in Building
  /\ Goes(c, "raised") /\ scroll' = NoScroll
  /\ UNCHANGED <<stack, stackLock, gpuLock, qdrant, bench>>

(* A model that does not load, Qdrant away, the collection dropped. *)
LoadRaises(c) ==
  /\ caller[c].pc \in Building
  /\ Goes(c, "raised") /\ stackLock' = None /\ scroll' = NoScroll
  /\ UNCHANGED <<stack, gpuLock, qdrant, bench>>

(* Mutant: forward passes are not serialised. *)
ForwardAtOnce(c, from, to) ==
  /\ At(c, from) /\ gpuLock' = c /\ Goes(c, to)
  /\ UNCHANGED <<stack, stackLock, scroll, qdrant, bench>>

TakesGpu(c, from, to) ==
  /\ At(c, from) /\ gpuLock = None
  /\ gpuLock' = c /\ Goes(c, to)
  /\ UNCHANGED <<stack, stackLock, scroll, qdrant, bench>>

EmbedStarts(c) == TakesGpu(c, "embed", "embedding")

Embedded(c) ==
  /\ At(c, "embedding")
  /\ gpuLock' = None /\ Goes(c, "search")
  /\ UNCHANGED <<stack, stackLock, scroll, qdrant, bench>>

InDomain(docs, c) == {i \in DOMAIN docs : docs[i] = DomainOf[c]}

(* Mutant: the sparse path ranks the whole index. *)
SearchesAllDomains(c) ==
  /\ At(c, "search") /\ collection # None
  /\ \E dense \in Rankings(InDomain(collection, c)),
        sparse \in Rankings(DOMAIN stack.docs) :
       \E found \in Candidates(Known(dense, DOMAIN stack.docs), sparse) :
         Put(c, IF found = {} THEN Returned(c, {})
                ELSE [caller[c] EXCEPT !.pc = "rerank", !.candidates = found])
  /\ UNCHANGED <<stack, stackLock, gpuLock, scroll, qdrant, bench>>

(* Dense: the collection of now, filtered there; ids the index does not    *)
(* know are dropped.  Sparse: the index, filtered here.                    *)
Searches(c) ==
  /\ At(c, "search") /\ collection # None
  /\ \E dense \in Rankings(InDomain(collection, c)),
        sparse \in Rankings(InDomain(stack.docs, c)) :
       \E found \in Candidates(Known(dense, DOMAIN stack.docs), sparse) :
         Put(c, IF found = {} THEN Returned(c, {})
                ELSE [caller[c] EXCEPT !.pc = "rerank", !.candidates = found])
  /\ UNCHANGED <<stack, stackLock, gpuLock, scroll, qdrant, bench>>

(* Qdrant is away or has no such collection. *)
SearchRaises(c) ==
  /\ At(c, "search") /\ Goes(c, "raised")
  /\ UNCHANGED <<stack, stackLock, gpuLock, scroll, qdrant, bench>>

RerankStarts(c) == TakesGpu(c, "rerank", "reranking")

RerankEnds(c) ==
  /\ At(c, "reranking")
  /\ gpuLock' = None
  /\ \E hits \in Reranked(caller[c].candidates) : Put(c, Returned(c, hits))
  /\ UNCHANGED <<stack, stackLock, scroll, qdrant, bench>>

-----------------------------------------------------------------------------
(* The ingest, in a process of its own *)

Changes(points, pc) ==
  /\ collection' = points /\ epoch' = epoch + 1
  /\ ingest' = [ingest EXCEPT !.pc = pc]
  /\ UNCHANGED <<process, bench>>

(* Bound: MaxIngests, three changes each. *)
IngestStarts ==
  /\ ingest.pc = "idle" /\ epoch + 3 <= 3 * MaxIngests
  /\ \E mode \in Modes, readable \in SUBSET ToSet(Manifest), contextual \in BOOLEAN :
       LET corpus == IF mode = "sample" THEN <<>> ELSE read_corpus_pdfs(readable)
           chunks == chunk_passages(select_passages(mode, corpus))
       IN  /\ mode = "corpus" => corpus # <<>>
           /\ \E c \in apply_contextual_prefixes(chunks, corpus, contextual) :
                ingest' = [pc |-> "ready", chunks |-> c]
  /\ UNCHANGED <<process, collection, epoch, bench>>

IngestDeletes ==
  /\ ingest.pc = "ready" /\ collection # None
  /\ Changes(None, "deleted")

IngestCreates ==
  /\ ingest.pc \in {"ready", "deleted"} /\ collection = None
  /\ Changes(<<>>, "created")

IngestUpserts ==
  /\ ingest.pc = "created"
  /\ collection' = [i \in DOMAIN ingest.chunks |-> ingest.chunks[i].domain]
  /\ epoch' = epoch + 1
  /\ ingest' = [pc |-> "idle", chunks |-> <<>>]
  /\ UNCHANGED <<process, bench>>

IngestDies ==
  /\ ingest.pc # "idle"
  /\ ingest' = [pc |-> "idle", chunks |-> <<>>]
  /\ UNCHANGED <<process, collection, epoch, bench>>

-----------------------------------------------------------------------------
LlmStep(c) ==
  \/ RouterFallsBack(c) \/ RouterRaises(c)
  \/ Decompose(c) \/ Grade(c) \/ Rewrite(c) \/ Generate(c)

StackStep(c) ==
  \/ FindsStack(c) \/ MissesStack(c) \/ LocksStack(c) \/ FindsStackLocked(c)
  \/ LoadStarts(c) \/ ScrollsPage(c) \/ StackBuilt(c) \/ LoadRaises(c)

RetrieveStep(c) ==
  \/ EmbedStarts(c) \/ Embedded(c) \/ Searches(c) \/ SearchRaises(c)
  \/ RerankStarts(c) \/ RerankEnds(c)

CallerStep(c) == Start(c) \/ LlmStep(c) \/ StackStep(c) \/ RetrieveStep(c)

IngestStep ==
  \/ IngestStarts \/ IngestDeletes \/ IngestCreates \/ IngestUpserts \/ IngestDies

Next == (\E c \in Callers : CallerStep(c)) \/ IngestStep

(* Threads run, and the calls they make return or time out. *)
Spec == Init /\ [][Next]_vars /\ \A c \in Callers : WF_vars(CallerStep(c))
-----------------------------------------------------------------------------
(* Properties *)

(***************************************************************************)
(* Types; _stack_lock is held by the caller that is building the stack and *)
(* _gpu_lock by the one in a forward pass, and nobody who has left, by an  *)
(* exception or otherwise, keeps either.                                   *)
(***************************************************************************)
TypeOK ==
  /\ caller \in [Callers -> [pc : Pc, model : {"primary", "fallback"},
                             queries : 0 .. MaxSubQueries,
                             rewrites : 0 .. MAX_REWRITES,
                             evidence : SUBSET Nat, candidates : SUBSET Nat]]
  /\ stack \in [docs : Points, from : Nat, to : Nat] \cup {None}
  /\ scroll \in [docs : Points, from : Nat, to : Nat]
  /\ stackLock \in Callers \cup {None} /\ gpuLock \in Callers \cup {None}
  /\ \A c \in Callers : /\ stackLock = c <=> caller[c].pc \in Building
                        /\ gpuLock = c <=> caller[c].pc \in OnGpu
  /\ collection \in Points \cup {None} /\ epoch \in Nat
  /\ ingest \in [pc : {"idle", "ready", "deleted", "created"}, chunks : Chunks]
  /\ bench \in BOOLEAN

(***************************************************************************)
(* rag/retrieve.py:151 "a concurrent forward ... corrupts the reranker's   *)
(* dtype state": of all concurrent retrievals at most one is on the GPU,   *)
(* and at most one caller builds a stack.                                  *)
(***************************************************************************)
Serialised ==
  \A c, d \in Callers :
     \/ caller[c].pc \in OnGpu /\ caller[d].pc \in OnGpu
     \/ caller[c].pc \in Building /\ caller[d].pc \in Building
     => c = d

(***************************************************************************)
(* mcp_servers/rag/server.py:31 "exactly one stack, loaded once": however  *)
(* many first callers race, whatever a failed construction left behind,    *)
(* the index under a running retrieval is never exchanged for another one. *)
(***************************************************************************)
OneStack == [][stack # None => stack' = stack]_vars

(***************************************************************************)
(* rag/retrieve.py:278 "restricted to one domain slice": the dense hits    *)
(* are filtered in Qdrant, but looked up by id in the index of this        *)
(* process, and an ingest reuses the ids.  A chunk of a foreign domain is  *)
(* only surfaced once the collection changed after the index was begun.    *)
(***************************************************************************)
ForeignOnlyWhenStale ==
  [][\A c \in Callers :
        At(c, "search") /\ epoch = stack.from
          => caller'[c].candidates \subseteq InDomain(stack.docs, c)]_vars

(* The index was read from one complete collection. *)
Whole(index) == index.docs # <<>> /\ index.from = index.to

(***************************************************************************)
(* Every ingest covers every domain (rag/ingest.py:144) and a subtask's    *)
(* evidence starts with the sparse path over the whole index: a branch     *)
(* judges on no evidence at all only when its process built the index      *)
(* before the first ingest or in the middle of one.                        *)
(***************************************************************************)
GroundedUnlessTorn ==
  \A b \in Branches :
     caller[b].pc \in {"grade", "rewrite", "generate"} /\ caller[b].evidence = {}
       => ~Whole(stack)

(***************************************************************************)
(* rag/ingest.py:174: a prefix situates a chunk "in its document"; it does *)
(* in every published corpus as long as no other document has the same     *)
(* source tag, which corpus_manifest.json as committed does not respect.   *)
(***************************************************************************)
PrefixOfOwnDocument ==
  \A i \in DOMAIN ingest.chunks :
     LET chunk == ingest.chunks[i]
     IN  chunk.about \in {"none", chunk.domain}
           \/ \E p \in ToSet(Manifest) :
                 p.source = chunk.source /\ p.domain # chunk.domain

(***************************************************************************)
(* agents/specialists/builder.py:301: whatever the grader answers, a       *)
(* branch that was started comes to its end, with every retry, model       *)
(* fallback and failed construction on its way.                            *)
(***************************************************************************)
BranchesSettle ==
  \A b \in Branches : caller[b].pc # "queued" ~> caller[b].pc \in Ended

-----------------------------------------------------------------------------
(* What the main graph sees of it *)

ContractPhase(pc) ==
  CASE pc \in {"queued", "decompose"} \cup Retrieving -> "gathering"
    [] pc = "grade" -> "judging"
    [] pc = "rewrite" -> "refining"
    [] pc = "generate" -> "answering"
    [] OTHER -> pc

(***************************************************************************)
(* The subgraph implements what the main graph relies on: gathering comes  *)
(* before judging, and only judging leads to an answer or to a refinement, *)
(* evidence is never withdrawn, at most MAX_REWRITES refinements, three    *)
(* ways to end.                                                            *)
(***************************************************************************)
Contract ==
  INSTANCE SubtaskContract
    WITH MaxRewrites <- MAX_REWRITES,
         phase <- [b \in Branches |-> ContractPhase(caller[b].pc)],
         rewrites <- [b \in Branches |-> caller[b].rewrites],
         evidence <- [b \in Branches |-> caller[b].evidence]
ContractSpec == Contract!Spec
=============================================================================
