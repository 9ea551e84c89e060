--------------------------- MODULE StandardsCorpus ---------------------------
(***************************************************************************)
(* The pure part of the standards retrieval: which passages an ingest puts *)
(* into the collection (rag/ingest.py) and how the dense and the sparse    *)
(* ranking are fused and cut (rag/retrieve.py).                            *)
(*                                                                         *)
(* A passage is its source, its domain and the number of pieces the        *)
(* splitter makes of it; a chunk is its source, its domain and the domain  *)
(* of the document its contextual prefix speaks about.  Chunk n of a       *)
(* collection is the point with id n - 1.                                  *)
(***************************************************************************)
EXTENDS Naturals, FiniteSets, Functions, FiniteSetsExt, SequencesExt

CONSTANTS
  Domains,          \* the specialists' domains
  Manifest,         \* corpus_manifest.json: the passages of the real PDFs
  SAMPLES,          \* the committed placeholder passages
  RecallTopK,       \* DENSE_TOP_K = SPARSE_TOP_K
  CANDIDATE_TOP_K,  \* how many fused candidates the reranker scores
  FINAL_TOP_K,      \* how many chunks retrieve() returns
  RRF_K             \* the constant of Reciprocal Rank Fusion

(* The splitter makes at least one piece of a text that is not empty. *)
Passages == [source : STRING, domain : Domains, pieces : Nat \ {0}]

ASSUME CorpusAssumption ==
  /\ Manifest \in Seq(Passages) /\ SAMPLES \in Seq(Passages)
  /\ \A d \in Domains : \E i \in DOMAIN SAMPLES : SAMPLES[i].domain = d
  /\ {RecallTopK, CANDIDATE_TOP_K, FINAL_TOP_K, RRF_K} \subseteq Nat \ {0}

Modes == {"sample", "corpus", "auto"}

-----------------------------------------------------------------------------
(* What an ingest writes *)

(* The entries of a list at the places I, in their order. *)
Entries(list, I) ==
  FlattenSeq([i \in DOMAIN list |-> IF i \in I THEN <<list[i]>> ELSE <<>>])

(* A PDF that is missing or has no text is skipped. *)
read_corpus_pdfs(readable) ==
  Entries(Manifest, {i \in DOMAIN Manifest : Manifest[i] \in readable})

(* Mutant: real passages only, once there are any. *)
WithoutFiller(mode, corpus) ==
  IF mode = "sample" \/ corpus = <<>> THEN SAMPLES ELSE corpus

select_passages(mode, corpus) ==
  LET covered == {p.domain : p \in ToSet(corpus)}
  IN  IF mode = "sample" \/ corpus = <<>> THEN SAMPLES
      ELSE corpus \o Entries(SAMPLES, {i \in DOMAIN SAMPLES : SAMPLES[i].domain \notin covered})

(* Mutant: the first document, whatever the chunk's source. *)
FirstDocument(source, corpus) == corpus[1].domain

(* doc_by_source: of several documents of one source the last one is kept. *)
DocumentOf(source, corpus) ==
  corpus[Max({i \in DOMAIN corpus : corpus[i].source = source})].domain

(* The plain embed_text of a chunk, or its prefix when the call succeeds. *)
PrefixOutcomes(passage, corpus, contextual) ==
  {"none"} \cup
    IF contextual /\ \E i \in DOMAIN corpus : corpus[i].source = passage.source
    THEN {DocumentOf(passage.source, corpus)} ELSE {}

Pieces(passage) ==
  [n \in 1 .. passage.pieces |->
     [source |-> passage.source, domain |-> passage.domain, about |-> "none"]]

chunk_passages(passages) ==
  FlattenSeq([i \in DOMAIN passages |-> Pieces(passages[i])])

(* Every outcome of the concurrent prefix calls. *)
apply_contextual_prefixes(chunks, corpus, contextual) ==
  LET About == UNION {PrefixOutcomes(chunks[i], corpus, contextual) : i \in DOMAIN chunks}
  IN  {[i \in DOMAIN chunks |-> [chunks[i] EXCEPT !.about = a[i]]] :
         a \in {f \in [DOMAIN chunks -> About] :
                  \A i \in DOMAIN chunks :
                     f[i] \in PrefixOutcomes(chunks[i], corpus, contextual)}}

-----------------------------------------------------------------------------
(* Fusion *)

(* The rankings of the best RecallTopK members of a set, in any order. *)
Rankings(S) ==
  UNION {Bijection(T, 1 .. Cardinality(T)) :
           T \in kSubset(Min({RecallTopK, Cardinality(S)}), S)}

(* A ranking without the members outside S; the others move up. *)
Known(ranking, S) ==
  [i \in DOMAIN ranking \cap S |->
     Cardinality({j \in DOMAIN ranking \cap S : ranking[j] <= ranking[i]})]

(* The sum of 1 / (RRF_K + rank) over both rankings, as a fraction. *)
rrf(i, dense, sparse) ==
  LET a == RRF_K + dense[i]
      b == RRF_K + sparse[i]
  IN  IF i \notin DOMAIN sparse THEN [num |-> 1, den |-> a]
      ELSE IF i \notin DOMAIN dense THEN [num |-> 1, den |-> b]
      ELSE [num |-> a + b, den |-> a * b]

Outranks(i, j, dense, sparse) ==
  LET x == rrf(i, dense, sparse)
      y == rrf(j, dense, sparse)
  IN  x.num * y.den > y.num * x.den

Fused(dense, sparse) == DOMAIN dense \cup DOMAIN sparse

(* The first CANDIDATE_TOP_K of the fused list. *)
Candidates(dense, sparse) ==
  LET all == Fused(dense, sparse)
  IN  {c \in kSubset(Min({CANDIDATE_TOP_K, Cardinality(all)}), all) :
         \A i \in c, j \in all \ c : ~Outranks(j, i, dense, sparse)}

(* The reranker scores as it likes: any FINAL_TOP_K of the candidates. *)
Reranked(candidates) ==
  kSubset(Min({FINAL_TOP_K, Cardinality(candidates)}), candidates)

=============================================================================
