------------------------- MODULE StandardsCorpusProofs -------------------------
(***************************************************************************)
(* Proofs about the operators of StandardsCorpus, for every manifest, all  *)
(* samples and every cut-off: what an ingest writes, and what a            *)
(* search can find.  Lists are built with FlattenSeq, which chooses a      *)
(* function by recursion: that it exists is shown by induction over sets   *)
(* of numbers, from the least-number principle.                            *)
(***************************************************************************)
EXTENDS StandardsCorpus, FiniteSetTheorems, WellFoundedInduction, SequenceTheorems, TLAPS

(* The least-number principle: the intervals from 0 to a member are ordered *)
(* by inclusion, which is well-founded on finite sets.                      *)
LEMMA Least ==
  ASSUME NEW S \in SUBSET Nat, S # {}
  PROVE  \E n \in S : \A m \in S : n <= m
<1> DEFINE F == {0 .. n : n \in S}
<1>1. F \subseteq FiniteSubsetsOf(Nat) /\ F # {}
  <2>1. ASSUME NEW n \in S PROVE 0 .. n \in FiniteSubsetsOf(Nat)
    BY FS_Interval DEF FiniteSubsetsOf
  <2> QED  BY <2>1
<1>2. IsWellFoundedOn(StrictSubsetOrdering(Nat), FiniteSubsetsOf(Nat))
  BY FS_StrictSubsetOrderingWellFounded
<1>3. PICK x \in F : \A y \in F : <<y, x>> \notin StrictSubsetOrdering(Nat)
  <2> HIDE DEF F
  <2> QED  BY <1>1, <1>2, WFMin
<1>4. PICK n \in S : x = 0 .. n
  OBVIOUS
<1>5. ASSUME NEW m \in S, m < n PROVE FALSE
  <2>1. 0 .. m \subseteq 0 .. n /\ 0 .. m # 0 .. n
    BY <1>5
  <2>2. <<0 .. m, 0 .. n>> \in StrictSubsetOrdering(Nat)
    BY <2>1 DEF StrictSubsetOrdering
  <2> QED  BY <1>3, <1>4, <2>2
<1> QED  BY <1>5

(* Induction, with the set of the numbers it holds for. *)
LEMMA NatSets ==
  ASSUME NEW S, 0 \in S, \A n \in Nat : n \in S => n + 1 \in S
  PROVE  Nat \subseteq S
<1> DEFINE T == Nat \ S
<1> SUFFICES ASSUME T # {} PROVE FALSE
  OBVIOUS
<1>1. PICK n \in T : \A m \in T : n <= m
  <2>1. T \in SUBSET Nat
    OBVIOUS
  <2> HIDE DEF T
  <2> QED  BY Least, <2>1
<1>2. n - 1 \in Nat /\ n - 1 + 1 = n /\ n - 1 < n
  OBVIOUS
<1>3. n - 1 \notin T
  BY <1>1, <1>2
<1> QED  BY <1>2, <1>3

(* The greatest of finitely many numbers is one of them. *)
LEMMA MaxIsMember ==
  ASSUME NEW S \in SUBSET Nat, S # {}, NEW n \in Nat, \A m \in S : m <= n
  PROVE  Max(S) \in S
<1> DEFINE T == {n - m : m \in S}
<1>1. T \in SUBSET Nat /\ T # {}
  <2>1. \A m \in S : n - m \in Nat
    OBVIOUS
  <2> QED  BY <2>1
<1>2. PICK k \in T : \A l \in T : k <= l
  <2> HIDE DEF T
  <2> QED  BY <1>1, Least
<1>3. PICK m \in S : k = n - m
  OBVIOUS
<1>4. \A l \in S : m >= l
  <2> TAKE l \in S
  <2>1. n - l \in T
    OBVIOUS
  <2>2. n - m <= n - l
    BY <1>2, <1>3, <2>1
  <2> QED  BY <2>2
<1> QED  BY <1>4 DEF Max

LEMMA MinOfTwo ==
  ASSUME NEW a \in Nat, NEW b \in Nat
  PROVE  Min({a, b}) = IF a <= b THEN a ELSE b
BY DEF Min

(* One function that concatenates the first n sequences for each n. *)
Flattens(ss, n, f) == f = [i \in 1 .. n |-> IF i = 1 THEN ss[i] ELSE f[i - 1] \o ss[i]]

LEMMA FlattenSeqDef ==
  ASSUME NEW ss, Len(ss) # 0
  PROVE  FlattenSeq(ss) = (CHOOSE f : Flattens(ss, Len(ss), f))[Len(ss)]
BY DEF FlattenSeq, Flattens

LEMMA FlattensExists ==
  ASSUME NEW ss, NEW n \in Nat
  PROVE  \E f : Flattens(ss, n, f)
<1> DEFINE E == {k \in Nat : \E f : Flattens(ss, k, f)}
<1>1. 0 \in E
  <2> DEFINE f == [i \in 1 .. 0 |-> ss]
  <2>1. Flattens(ss, 0, f)
    BY DEF Flattens
  <2> QED  BY <2>1
<1>2. ASSUME NEW k \in Nat, k \in E
      PROVE  k + 1 \in E
  <2>1. PICK f : Flattens(ss, k, f)
    BY <1>2
  <2> DEFINE g == [i \in 1 .. k + 1 |->
                     IF i = k + 1 THEN IF k = 0 THEN ss[i] ELSE f[k] \o ss[i] ELSE f[i]]
  <2>2. ASSUME NEW i \in 1 .. k + 1
        PROVE  g[i] = IF i = 1 THEN ss[i] ELSE g[i - 1] \o ss[i]
    <3>1. CASE i = k + 1
      <4>1. k # 0 => k \in 1 .. k + 1 /\ k # k + 1 /\ i - 1 = k
        BY <3>1
      <4> QED  BY <3>1, <4>1
    <3>2. CASE i # k + 1
      <4>1. i \in 1 .. k /\ (i # 1 => i - 1 \in 1 .. k + 1 /\ i - 1 # k + 1)
        BY <3>2
      <4>2. f[i] = IF i = 1 THEN ss[i] ELSE f[i - 1] \o ss[i]
        BY <2>1, <4>1 DEF Flattens
      <4>3. g[i] = f[i] /\ (i # 1 => g[i - 1] = f[i - 1])
        BY <3>2, <4>1
      <4> QED  BY <4>2, <4>3
    <3> QED  BY <3>1, <3>2
  <2>3. Flattens(ss, k + 1, g)
    <3>1. g = [i \in 1 .. k + 1 |-> g[i]]
      OBVIOUS
    <3> HIDE DEF g
    <3>2. g = [i \in 1 .. k + 1 |-> IF i = 1 THEN ss[i] ELSE g[i - 1] \o ss[i]]
      BY <2>2, <3>1, Zenon
    <3> QED  BY <3>2 DEF Flattens
  <2> QED  BY <2>3
<1> HIDE DEF E
<1>3. Nat \subseteq E
  BY <1>1, <1>2, NatSets
<1> QED  BY <1>3 DEF E

LEMMA ConcatToSet ==
  ASSUME NEW S, NEW s \in Seq(S), NEW t \in Seq(S)
  PROVE  ToSet(s \o t) = ToSet(s) \cup ToSet(t)
<1>1. /\ s \o t \in Seq(S) /\ Len(s \o t) = Len(s) + Len(t)
      /\ \A i \in 1 .. Len(s) + Len(t) :
            (s \o t)[i] = IF i <= Len(s) THEN s[i] ELSE t[i - Len(s)]
  BY ConcatProperties
<1>2. /\ Len(s) \in Nat /\ Len(t) \in Nat
      /\ DOMAIN s = 1 .. Len(s) /\ DOMAIN t = 1 .. Len(t)
      /\ DOMAIN (s \o t) = 1 .. Len(s) + Len(t)
  BY <1>1
<1>3. ASSUME NEW i \in 1 .. Len(s) PROVE s[i] \in ToSet(s \o t)
  <2>1. i \in 1 .. Len(s) + Len(t) /\ (s \o t)[i] = s[i]
    BY <1>1, <1>2
  <2> QED  BY <1>2, <2>1 DEF ToSet
<1>4. ASSUME NEW i \in 1 .. Len(t) PROVE t[i] \in ToSet(s \o t)
  <2>1. i + Len(s) \in 1 .. Len(s) + Len(t) /\ (s \o t)[i + Len(s)] = t[i]
    <3>1. i + Len(s) \in 1 .. Len(s) + Len(t) /\ ~(i + Len(s) <= Len(s))
          /\ i + Len(s) - Len(s) = i
      BY <1>2
    <3> QED  BY <1>1, <3>1
  <2> QED  BY <1>2, <2>1 DEF ToSet
<1>5. ASSUME NEW i \in 1 .. Len(s) + Len(t) PROVE (s \o t)[i] \in ToSet(s) \cup ToSet(t)
  <2>1. CASE i <= Len(s)
    BY <1>1, <1>2, <2>1 DEF ToSet
  <2>2. CASE ~(i <= Len(s))
    <3>1. i - Len(s) \in 1 .. Len(t) /\ (s \o t)[i] = t[i - Len(s)]
      BY <1>1, <1>2, <2>2
    <3> QED  BY <1>2, <3>1 DEF ToSet
  <2> QED  BY <2>1, <2>2
<1> QED  BY <1>2, <1>3, <1>4, <1>5 DEF ToSet

(* A flattened sequence has the elements of its parts and no others. *)
LEMMA Flattened ==
  ASSUME NEW S, NEW ss \in Seq(Seq(S))
  PROVE  /\ FlattenSeq(ss) \in Seq(S)
         /\ \A x : x \in ToSet(FlattenSeq(ss)) <=> \E i \in DOMAIN ss : x \in ToSet(ss[i])
<1>1. Len(ss) \in Nat /\ DOMAIN ss = 1 .. Len(ss) /\ \A i \in 1 .. Len(ss) : ss[i] \in Seq(S)
  OBVIOUS
<1>2. CASE Len(ss) = 0
  <2>1. FlattenSeq(ss) = ss /\ ss = <<>>
    BY <1>2 DEF FlattenSeq
  <2>2. <<>> \in Seq(S) /\ DOMAIN <<>> = {}
    OBVIOUS
  <2> QED  BY <2>1, <2>2 DEF ToSet
<1>3. CASE Len(ss) # 0
  <2> DEFINE N == Len(ss)
             f == CHOOSE g : Flattens(ss, N, g)
             Whole(n) == /\ f[n] \in Seq(S)
                         /\ \A x : x \in ToSet(f[n]) <=> \E i \in 1 .. n : x \in ToSet(ss[i])
             E == {k \in Nat : k + 1 \in 1 .. N => Whole(k + 1)}
  <2>1. FlattenSeq(ss) = f[N]
    BY <1>3, FlattenSeqDef
  <2>2. Flattens(ss, N, f)
    BY <1>1, FlattensExists
  <2> HIDE DEF f
  <2>3. \A i \in 1 .. N : f[i] = IF i = 1 THEN ss[i] ELSE f[i - 1] \o ss[i]
    BY <2>2 DEF Flattens
  <2>4. 0 \in E
    <3>1. f[1] = ss[1]
      BY <1>1, <1>3, <2>3
    <3>2. \A i \in 1 .. 0 + 1 : i = 1
      OBVIOUS
    <3> QED  BY <1>1, <3>1, <3>2
  <2>5. ASSUME NEW k \in Nat, k \in E
        PROVE  k + 1 \in E
    <3> SUFFICES ASSUME k + 2 \in 1 .. N PROVE Whole(k + 2)
      BY <1>1
    <3>1. Whole(k + 1)
      BY <1>1, <2>5
    <3>2. f[k + 2] = f[k + 1] \o ss[k + 2]
      <4> DEFINE j == k + 2
      <4>1. j \in 1 .. N /\ j # 1 /\ j - 1 = k + 1
        OBVIOUS
      <4> HIDE DEF j, N
      <4>2. f[j] = f[j - 1] \o ss[j]
        BY <2>3, <4>1
      <4> QED  BY <4>1, <4>2 DEF j
    <3>3. f[k + 1] \in Seq(S) /\ ss[k + 2] \in Seq(S)
      BY <1>1, <3>1
    <3>4. ToSet(f[k + 2]) = ToSet(f[k + 1]) \cup ToSet(ss[k + 2])
      BY <3>2, <3>3, ConcatToSet
    <3>5. 1 .. k + 2 = (1 .. k + 1) \cup {k + 2}
      OBVIOUS
    <3>6. f[k + 2] \in Seq(S)
      BY <3>2, <3>3, ConcatProperties
    <3> HIDE DEF N
    <3> QED  BY <3>1, <3>4, <3>5, <3>6
  <2>6. Nat \subseteq E
    <3> HIDE DEF E
    <3> QED  BY <2>4, <2>5, NatSets
  <2>7. N - 1 \in Nat /\ N - 1 + 1 = N /\ N \in 1 .. N
    BY <1>1, <1>3
  <2>8. Whole(N)
    BY <2>6, <2>7
  <2> QED  BY <1>1, <2>1, <2>8
<1> QED  BY <1>2, <1>3

LEMMA EntriesKept ==
  ASSUME NEW S, NEW list \in Seq(S), NEW I
  PROVE  /\ Entries(list, I) \in Seq(S)
         /\ \A x : x \in ToSet(Entries(list, I)) <=> \E i \in DOMAIN list \cap I : x = list[i]
<1> DEFINE parts == [i \in DOMAIN list |-> IF i \in I THEN <<list[i]>> ELSE <<>>]
<1>1. DOMAIN list = 1 .. Len(list) /\ Len(list) \in Nat
  OBVIOUS
<1>2. ASSUME NEW i \in DOMAIN list
      PROVE  /\ parts[i] \in Seq(S)
             /\ \A x : x \in ToSet(parts[i]) <=> i \in I /\ x = list[i]
  <2>1. list[i] \in S
    BY <1>2
  <2>2. CASE i \in I
    <3>1. parts[i] = <<list[i]>> /\ DOMAIN <<list[i]>> = {1}
      BY <2>2
    <3> QED  BY <2>1, <2>2, <3>1 DEF ToSet
  <2>3. CASE i \notin I
    <3>1. parts[i] = <<>> /\ DOMAIN <<>> = {}
      BY <2>3
    <3> QED  BY <2>3, <3>1 DEF ToSet
  <2> QED  BY <2>2, <2>3
<1>3. DOMAIN parts = DOMAIN list /\ parts \in Seq(Seq(S))
  <2>1. parts \in [1 .. Len(list) -> Seq(S)]
    BY <1>1, <1>2
  <2> QED  BY <1>1, <2>1
<1>4. Entries(list, I) = FlattenSeq(parts)
  BY DEF Entries
<1> HIDE DEF parts
<1> QED  BY <1>2, <1>3, <1>4, Flattened

LEMMA CorpusRead ==
  ASSUME NEW readable
  PROVE  /\ read_corpus_pdfs(readable) \in Seq(Passages)
         /\ ToSet(read_corpus_pdfs(readable)) \subseteq ToSet(Manifest)
<1> DEFINE I == {i \in DOMAIN Manifest : Manifest[i] \in readable}
<1>1. Manifest \in Seq(Passages)
  BY CorpusAssumption
<1>2. read_corpus_pdfs(readable) = Entries(Manifest, I)
  BY DEF read_corpus_pdfs
<1> HIDE DEF I
<1>3. \A x \in ToSet(read_corpus_pdfs(readable)) : \E i \in DOMAIN Manifest : x = Manifest[i]
  BY <1>1, <1>2, EntriesKept
<1> QED  BY <1>1, <1>2, <1>3, EntriesKept DEF ToSet

(* Every ingest covers every domain: with the PDFs, or with the filler. *)
LEMMA SelectedCovers ==
  ASSUME NEW mode, NEW corpus \in Seq(Passages)
  PROVE  /\ select_passages(mode, corpus) \in Seq(Passages)
         /\ \A d \in Domains : \E p \in ToSet(select_passages(mode, corpus)) : p.domain = d
<1>1. /\ SAMPLES \in Seq(Passages)
      /\ \A d \in Domains : \E i \in DOMAIN SAMPLES : SAMPLES[i].domain = d
  BY CorpusAssumption
<1>2. CASE mode = "sample" \/ corpus = <<>>
  <2>1. select_passages(mode, corpus) = SAMPLES
    BY <1>2 DEF select_passages
  <2> QED  BY <1>1, <2>1 DEF ToSet
<1>3. CASE ~(mode = "sample" \/ corpus = <<>>)
  <2> DEFINE covered == {p.domain : p \in ToSet(corpus)}
             I == {i \in DOMAIN SAMPLES : SAMPLES[i].domain \notin covered}
             filler == Entries(SAMPLES, I)
  <2>1. select_passages(mode, corpus) = corpus \o filler
    BY <1>3 DEF select_passages
  <2>2. /\ filler \in Seq(Passages)
        /\ \A x : x \in ToSet(filler) <=> \E i \in DOMAIN SAMPLES \cap I : x = SAMPLES[i]
    <3> HIDE DEF I
    <3> QED  BY <1>1, EntriesKept
  <2> HIDE DEF filler
  <2>3. corpus \o filler \in Seq(Passages) /\ ToSet(corpus \o filler) = ToSet(corpus) \cup ToSet(filler)
    BY <2>2, ConcatProperties, ConcatToSet
  <2>4. ASSUME NEW d \in Domains
        PROVE  \E p \in ToSet(corpus) \cup ToSet(filler) : p.domain = d
    <3>1. CASE d \in covered
      BY <3>1
    <3>2. CASE d \notin covered
      <4>1. PICK i \in DOMAIN SAMPLES : SAMPLES[i].domain = d
        BY <1>1
      <4>2. i \in I
        BY <3>2, <4>1
      <4> QED  BY <2>2, <4>1, <4>2
    <3> QED  BY <3>1, <3>2
  <2> QED  BY <2>1, <2>3, <2>4
<1> QED  BY <1>2, <1>3

Chunk == [source : STRING, domain : Domains, about : Domains \cup {"none"}]

LEMMA ChunkedCovers ==
  ASSUME NEW passages \in Seq(Passages)
  PROVE  /\ chunk_passages(passages) \in Seq(Chunk)
         /\ \A p \in ToSet(passages) : \E x \in ToSet(chunk_passages(passages)) : x.domain = p.domain
<1> DEFINE parts == [i \in DOMAIN passages |-> Pieces(passages[i])]
<1>1. DOMAIN passages = 1 .. Len(passages) /\ Len(passages) \in Nat
  OBVIOUS
<1>2. ASSUME NEW p \in Passages
      PROVE  Pieces(p) \in Seq(Chunk) /\ \E x \in ToSet(Pieces(p)) : x.domain = p.domain
  <2>1. p.pieces \in Nat /\ p.pieces >= 1 /\ p.source \in STRING /\ p.domain \in Domains
    BY DEF Passages
  <2> DEFINE chunk == [source |-> p.source, domain |-> p.domain, about |-> "none"]
  <2>2. chunk \in Chunk /\ chunk.domain = p.domain
    BY <2>1 DEF Chunk
  <2>3. Pieces(p) = [n \in 1 .. p.pieces |-> chunk]
    BY DEF Pieces
  <2> HIDE DEF chunk
  <2>4. Pieces(p) \in [1 .. p.pieces -> Chunk]
    BY <2>2, <2>3
  <2>5. 1 \in DOMAIN Pieces(p) /\ Pieces(p)[1] = chunk
    BY <2>1, <2>3
  <2> QED  BY <2>1, <2>2, <2>4, <2>5 DEF ToSet
<1>3. \A i \in DOMAIN passages : passages[i] \in Passages
  OBVIOUS
<1>4. DOMAIN parts = DOMAIN passages /\ parts \in Seq(Seq(Chunk))
  <2>1. parts \in [1 .. Len(passages) -> Seq(Chunk)]
    BY <1>1, <1>2, <1>3
  <2> QED  BY <1>1, <2>1
<1>5. \A i \in DOMAIN passages : \E x \in ToSet(parts[i]) : x.domain = passages[i].domain
  BY <1>2, <1>3
<1>6. chunk_passages(passages) = FlattenSeq(parts)
  BY DEF chunk_passages
<1> HIDE DEF parts
<1>7. /\ FlattenSeq(parts) \in Seq(Chunk)
      /\ \A i \in DOMAIN passages : ToSet(parts[i]) \subseteq ToSet(FlattenSeq(parts))
  BY <1>4, Flattened
<1>8. ASSUME NEW p \in ToSet(passages)
      PROVE  \E x \in ToSet(FlattenSeq(parts)) : x.domain = p.domain
  <2>1. PICK i \in DOMAIN passages : p = passages[i]
    BY DEF ToSet
  <2> QED  BY <1>5, <1>7, <2>1
<1> QED  BY <1>6, <1>7, <1>8

(* A prefix speaks of a document of the corpus with the chunk's source. *)
LEMMA PrefixOutcome ==
  ASSUME NEW chunk, NEW corpus \in Seq(Passages), NEW contextual,
         NEW about \in PrefixOutcomes(chunk, corpus, contextual)
  PROVE  \/ about = "none"
         \/ \E p \in ToSet(corpus) : p.source = chunk.source /\ about = p.domain
<1> SUFFICES ASSUME about # "none"
             PROVE  \E p \in ToSet(corpus) : p.source = chunk.source /\ about = p.domain
  OBVIOUS
<1> DEFINE I == {i \in DOMAIN corpus : corpus[i].source = chunk.source}
<1>1. I # {} /\ about = DocumentOf(chunk.source, corpus)
  BY DEF PrefixOutcomes
<1>2. I \in SUBSET Nat /\ Len(corpus) \in Nat /\ \A i \in I : i <= Len(corpus)
  OBVIOUS
<1>3. about = corpus[Max(I)].domain
  BY <1>1 DEF DocumentOf
<1>4. Max(I) \in I
  <2> HIDE DEF I
  <2> QED  BY <1>1, <1>2, MaxIsMember
<1> QED  BY <1>3, <1>4 DEF ToSet

LEMMA PrefixesApplied ==
  ASSUME NEW chunks \in Seq(Chunk), NEW corpus \in Seq(Passages), NEW contextual,
         NEW c \in apply_contextual_prefixes(chunks, corpus, contextual)
  PROVE  /\ c \in Seq(Chunk) /\ DOMAIN c = DOMAIN chunks
         /\ \A i \in DOMAIN c :
              /\ c[i].source = chunks[i].source /\ c[i].domain = chunks[i].domain
              /\ \/ c[i].about = "none"
                 \/ \E p \in ToSet(corpus) : p.source = c[i].source /\ c[i].about = p.domain
<1>1. PICK a : /\ \A i \in DOMAIN chunks : a[i] \in PrefixOutcomes(chunks[i], corpus, contextual)
               /\ c = [i \in DOMAIN chunks |-> [chunks[i] EXCEPT !.about = a[i]]]
  BY DEF apply_contextual_prefixes
<1>2. DOMAIN chunks = 1 .. Len(chunks) /\ Len(chunks) \in Nat
  OBVIOUS
<1>3. ASSUME NEW i \in DOMAIN chunks
      PROVE  /\ c[i] \in Chunk
             /\ c[i].source = chunks[i].source /\ c[i].domain = chunks[i].domain
             /\ \/ c[i].about = "none"
                \/ \E p \in ToSet(corpus) : p.source = c[i].source /\ c[i].about = p.domain
  <2>1. chunks[i] \in Chunk
    BY <1>3
  <2>2. \/ a[i] = "none"
        \/ \E p \in ToSet(corpus) : p.source = chunks[i].source /\ a[i] = p.domain
    <3> DEFINE chunk == chunks[i]
               about == a[i]
    <3>1. about \in PrefixOutcomes(chunk, corpus, contextual)
      BY <1>1, <1>3
    <3> HIDE DEF chunk, about
    <3>2. \/ about = "none"
          \/ \E p \in ToSet(corpus) : p.source = chunk.source /\ about = p.domain
      BY <3>1, PrefixOutcome
    <3> QED  BY <3>2 DEF chunk, about
  <2>3. ToSet(corpus) \subseteq Passages
    BY DEF ToSet
  <2>4. a[i] \in Domains \cup {"none"}
    BY <2>2, <2>3 DEF Passages
  <2>5. c[i] = [chunks[i] EXCEPT !.about = a[i]]
    BY <1>1
  <2>6. c[i] \in Chunk /\ c[i].about = a[i] /\ c[i].source = chunks[i].source
        /\ c[i].domain = chunks[i].domain
    BY <2>1, <2>4, <2>5 DEF Chunk
  <2> QED  BY <2>2, <2>6
<1>4. DOMAIN c = DOMAIN chunks
  BY <1>1
<1>5. c \in [1 .. Len(chunks) -> Chunk]
  BY <1>1, <1>2, <1>3, <1>4
<1> QED  BY <1>2, <1>3, <1>4, <1>5

(* The real passages an ingest reads. *)
CorpusOf(mode, readable) ==
  IF mode = "sample" THEN <<>> ELSE read_corpus_pdfs(readable)

LEMMA IngestOf ==
  ASSUME NEW mode, NEW contextual, NEW corpus \in Seq(Passages),
         ToSet(corpus) \subseteq ToSet(Manifest),
         NEW c \in apply_contextual_prefixes(
                     chunk_passages(select_passages(mode, corpus)), corpus, contextual)
  PROVE  /\ c \in Seq(Chunk)
         /\ \A d \in Domains : \E i \in DOMAIN c : c[i].domain = d
         /\ \A i \in DOMAIN c :
              \/ c[i].about = "none"
              \/ \E p \in ToSet(Manifest) : p.source = c[i].source /\ c[i].about = p.domain
<1> DEFINE selected == select_passages(mode, corpus)
           chunks == chunk_passages(selected)
<1>1. corpus \in Seq(Passages) /\ ToSet(corpus) \subseteq ToSet(Manifest)
  OBVIOUS
<1>2. /\ selected \in Seq(Passages)
      /\ \A d \in Domains : \E p \in ToSet(selected) : p.domain = d
  BY <1>1, SelectedCovers
<1>3. c \in apply_contextual_prefixes(chunks, corpus, contextual)
  OBVIOUS
<1> HIDE DEF selected
<1>4. /\ chunks \in Seq(Chunk)
      /\ \A p \in ToSet(selected) : \E x \in ToSet(chunks) : x.domain = p.domain
  BY <1>2, ChunkedCovers
<1> HIDE DEF chunks
<1>5. /\ c \in Seq(Chunk) /\ DOMAIN c = DOMAIN chunks
      /\ \A i \in DOMAIN c :
           /\ c[i].source = chunks[i].source /\ c[i].domain = chunks[i].domain
           /\ \/ c[i].about = "none"
              \/ \E p \in ToSet(corpus) : p.source = c[i].source /\ c[i].about = p.domain
  BY <1>1, <1>3, <1>4, PrefixesApplied
<1>6. ASSUME NEW d \in Domains PROVE \E i \in DOMAIN c : c[i].domain = d
  <2>1. PICK x \in ToSet(chunks) : x.domain = d
    BY <1>2, <1>4
  <2>2. PICK i \in DOMAIN chunks : x = chunks[i]
    BY DEF ToSet
  <2> QED  BY <1>5, <2>1, <2>2
<1>7. ASSUME NEW i \in DOMAIN c
      PROVE  \/ c[i].about = "none"
             \/ \E p \in ToSet(Manifest) : p.source = c[i].source /\ c[i].about = p.domain
  BY <1>1, <1>5
<1> QED  BY <1>5, <1>6, <1>7

(***************************************************************************)
(* Whatever PDFs are readable and whichever prefix calls fail, an ingest   *)
(* writes chunks of every domain (rag/ingest.py:144), and a prefix speaks  *)
(* of a document of the manifest with the chunk's source (:228).           *)
(***************************************************************************)
THEOREM IngestCovers ==
  ASSUME NEW mode, NEW readable, NEW contextual,
         NEW c \in apply_contextual_prefixes(
                     chunk_passages(select_passages(mode, CorpusOf(mode, readable))),
                     CorpusOf(mode, readable), contextual)
  PROVE  /\ c \in Seq(Chunk)
         /\ \A d \in Domains : \E i \in DOMAIN c : c[i].domain = d
         /\ \A i \in DOMAIN c :
              \/ c[i].about = "none"
              \/ \E p \in ToSet(Manifest) : p.source = c[i].source /\ c[i].about = p.domain
<1>1. /\ CorpusOf(mode, readable) \in Seq(Passages)
      /\ ToSet(CorpusOf(mode, readable)) \subseteq ToSet(Manifest)
  <2>1. <<>> \in Seq(Passages) /\ ToSet(<<>>) = {}
    BY DEF ToSet
  <2> QED  BY <2>1, CorpusRead DEF CorpusOf
<1> QED  BY <1>1, IngestOf

-----------------------------------------------------------------------------
(* Rankings and cuts *)

(* A cut at k of a finite set is empty only if the set is. *)
LEMMA Cut ==
  ASSUME NEW S, IsFiniteSet(S), NEW k \in Nat \ {0}, NEW T \in kSubset(Min({k, Cardinality(S)}), S)
  PROVE  T \subseteq S /\ IsFiniteSet(T) /\ (S # {} => T # {})
<1>1. T \subseteq S /\ Cardinality(T) = Min({k, Cardinality(S)})
  BY DEF kSubset
<1>2. IsFiniteSet(T)
  BY <1>1, FS_Subset
<1>3. Cardinality(S) \in Nat /\ (S # {} => Cardinality(S) # 0) /\ Cardinality({}) = 0
  BY FS_CardinalityType, FS_EmptySet
<1>4. S # {} => Cardinality(T) # 0
  BY <1>1, <1>3, MinOfTwo
<1> QED  BY <1>1, <1>2, <1>3, <1>4

LEMMA RankingOf ==
  ASSUME NEW S, IsFiniteSet(S), NEW r \in Rankings(S)
  PROVE  DOMAIN r \subseteq S /\ IsFiniteSet(DOMAIN r) /\ (S # {} => DOMAIN r # {})
<1>1. PICK T \in kSubset(Min({RecallTopK, Cardinality(S)}), S) : r \in Bijection(T, 1 .. Cardinality(T))
  BY DEF Rankings
<1>2. DOMAIN r = T
  BY <1>1 DEF Bijection, Injection
<1>3. RecallTopK \in Nat \ {0}
  BY CorpusAssumption
<1> QED  BY <1>1, <1>2, <1>3, Cut

LEMMA CandidatesOf ==
  ASSUME NEW dense, NEW sparse, IsFiniteSet(Fused(dense, sparse)),
         NEW found \in Candidates(dense, sparse)
  PROVE  /\ found \subseteq Fused(dense, sparse) /\ IsFiniteSet(found)
         /\ Fused(dense, sparse) # {} => found # {}
<1>1. found \in kSubset(Min({CANDIDATE_TOP_K, Cardinality(Fused(dense, sparse))}), Fused(dense, sparse))
  BY DEF Candidates
<1>2. CANDIDATE_TOP_K \in Nat \ {0}
  BY CorpusAssumption
<1> QED  BY <1>1, <1>2, Cut

LEMMA RerankedOf ==
  ASSUME NEW candidates, IsFiniteSet(candidates), NEW hits \in Reranked(candidates)
  PROVE  hits \subseteq candidates /\ (candidates # {} => hits # {})
<1>1. FINAL_TOP_K \in Nat \ {0}
  BY CorpusAssumption
<1> QED  BY <1>1, Cut DEF Reranked

(* What a search finds, for the places I in the collection and J in the    *)
(* index D: positions of the index, and some unless J is empty.            *)
LEMMA Found ==
  ASSUME NEW I, IsFiniteSet(I), NEW D, NEW J \in SUBSET D, IsFiniteSet(J),
         NEW dense \in Rankings(I), NEW sparse \in Rankings(J),
         NEW found \in Candidates(Known(dense, D), sparse)
  PROVE  /\ found \subseteq (I \cap D) \cup J /\ IsFiniteSet(found)
         /\ J # {} => found # {}
<1>1. DOMAIN Known(dense, D) = DOMAIN dense \cap D
  BY DEF Known
<1>2. /\ DOMAIN dense \subseteq I /\ IsFiniteSet(DOMAIN dense)
      /\ DOMAIN sparse \subseteq J /\ IsFiniteSet(DOMAIN sparse)
      /\ J # {} => DOMAIN sparse # {}
  BY RankingOf
<1>3. Fused(Known(dense, D), sparse) = (DOMAIN dense \cap D) \cup DOMAIN sparse
  BY <1>1 DEF Fused
<1>4. IsFiniteSet(DOMAIN dense \cap D)
  BY <1>2, FS_Subset
<1>5. IsFiniteSet(Fused(Known(dense, D), sparse))
  BY <1>2, <1>3, <1>4, FS_Union
<1> QED  BY <1>2, <1>3, <1>5, CandidatesOf

-----------------------------------------------------------------------------
(* Fusion.  First, the arithmetic of fractions. *)

LEMMA TimesLess ==
  ASSUME NEW x \in Nat, NEW y \in Nat, NEW z \in Nat, x < y, z > 0
  PROVE  x * z < y * z
OBVIOUS

LEMMA TimesLeq ==
  ASSUME NEW x \in Nat, NEW y \in Nat, NEW z \in Nat, x <= y
  PROVE  x * z <= y * z
OBVIOUS

LEMMA TwoBeatOne ==
  ASSUME NEW a \in Nat \ {0}, NEW b \in Nat \ {0}, NEW c \in Nat \ {0}, a < 2 * c, b < 2 * c
  PROVE  (a + b) * c > a * b
<1>1. a * b < (2 * c) * b /\ b * a < (2 * c) * a
  BY TimesLess
<1>2. (2 * c) * b + (2 * c) * a = 2 * ((a + b) * c) /\ b * a = a * b
  OBVIOUS
<1>3. a * b \in Nat /\ (a + b) * c \in Nat
  OBVIOUS
<1> QED BY <1>1, <1>2, <1>3

LEMMA FractionsTransitive ==
  ASSUME NEW a \in Nat \ {0}, NEW b \in Nat \ {0}, NEW c \in Nat \ {0}, NEW d \in Nat \ {0},
         NEW e \in Nat \ {0}, NEW f \in Nat \ {0}, a * d > c * b, c * f > e * d
  PROVE  a * f > e * b
<1>1. (a * d) * f > (c * b) * f /\ (c * f) * b > (e * d) * b
  BY TimesLess
<1>2. (c * b) * f = (c * f) * b /\ (a * d) * f = (a * f) * d /\ (e * d) * b = (e * b) * d
  OBVIOUS
<1>3. (a * f) * d > (e * b) * d
  BY <1>1, <1>2
<1>4. CASE ~(a * f > e * b)
  <2>1. (a * f) * d <= (e * b) * d
    BY <1>4, TimesLeq
  <2> QED BY <1>3, <2>1
<1> QED BY <1>4


(* The ranks a list can give. *)
Ranks == 1 .. RecallTopK

Ranked(list) == \A i \in DOMAIN list : list[i] \in Ranks

Both(dense, sparse) == DOMAIN dense \cap DOMAIN sparse

LEMMA RankingRanked ==
  ASSUME NEW S, IsFiniteSet(S), NEW r \in Rankings(S)
  PROVE  /\ Ranked(r) /\ IsFiniteSet(DOMAIN r) /\ Cardinality(DOMAIN r) <= RecallTopK
<1>1. PICK T \in kSubset(Min({RecallTopK, Cardinality(S)}), S) :
        r \in Bijection(T, 1 .. Cardinality(T))
  BY DEF Rankings
<1>2. DOMAIN r = T /\ \A i \in T : r[i] \in 1 .. Cardinality(T)
  BY <1>1 DEF Bijection, Injection
<1>3. T \subseteq S /\ Cardinality(T) = Min({RecallTopK, Cardinality(S)})
  BY DEF kSubset
<1>4. RecallTopK \in Nat /\ Cardinality(S) \in Nat
  BY CorpusAssumption, FS_CardinalityType
<1>5. Cardinality(T) \in Nat /\ Cardinality(T) <= RecallTopK
  BY <1>3, <1>4, MinOfTwo
<1>6. IsFiniteSet(T)
  BY <1>3, FS_Subset
<1> QED  BY <1>2, <1>4, <1>5, <1>6 DEF Ranked, Ranks

(* The ids the index does not know leave no gap behind. *)
LEMMA KnownRanked ==
  ASSUME NEW r, IsFiniteSet(DOMAIN r), Cardinality(DOMAIN r) <= RecallTopK, Ranked(r), NEW D
  PROVE  Ranked(Known(r, D))
<1> SUFFICES ASSUME NEW i \in DOMAIN r \cap D PROVE Known(r, D)[i] \in Ranks
  BY DEF Ranked, Known
<1> DEFINE J == {j \in DOMAIN r \cap D : r[j] <= r[i]}
<1>1. Known(r, D)[i] = Cardinality(J)
  BY DEF Known
<1>2. RecallTopK \in Nat
  BY CorpusAssumption
<1>3. i \in J
  BY <1>2 DEF Ranked, Ranks
<1>4. IsFiniteSet(J) /\ Cardinality(J) <= Cardinality(DOMAIN r)
  BY FS_Subset
<1> HIDE DEF J
<1>5. Cardinality(J) \in Nat /\ Cardinality(J) # 0 /\ Cardinality(DOMAIN r) \in Nat
  BY <1>3, <1>4, FS_CardinalityType, FS_EmptySet
<1> QED  BY <1>1, <1>2, <1>4, <1>5 DEF Ranks

(* The fused score, as a fraction with positive terms. *)
LEMMA Score ==
  ASSUME NEW dense, NEW sparse, Ranked(dense), Ranked(sparse), NEW i \in Fused(dense, sparse)
  PROVE  rrf(i, dense, sparse).num \in Nat \ {0} /\ rrf(i, dense, sparse).den \in Nat \ {0}
<1>1. RRF_K \in Nat \ {0} /\ RecallTopK \in Nat
  BY CorpusAssumption
<1> DEFINE a == RRF_K + dense[i]
           b == RRF_K + sparse[i]
<1>2. CASE i \notin DOMAIN sparse
  <2>1. a \in Nat \ {0}
    BY <1>1, <1>2 DEF Ranked, Ranks, Fused
  <2>2. rrf(i, dense, sparse) = [num |-> 1, den |-> a]
    BY <1>2 DEF rrf
  <2> HIDE DEF a
  <2> QED  BY <2>1, <2>2
<1>3. CASE i \in DOMAIN sparse /\ i \notin DOMAIN dense
  <2>1. b \in Nat \ {0}
    BY <1>1, <1>3 DEF Ranked, Ranks
  <2>2. rrf(i, dense, sparse) = [num |-> 1, den |-> b]
    BY <1>3 DEF rrf
  <2> HIDE DEF b
  <2> QED  BY <2>1, <2>2
<1>4. CASE i \in DOMAIN sparse /\ i \in DOMAIN dense
  <2>1. a \in Nat \ {0} /\ b \in Nat \ {0}
    BY <1>1, <1>4 DEF Ranked, Ranks
  <2>2. rrf(i, dense, sparse) = [num |-> a + b, den |-> a * b]
    BY <1>4 DEF rrf
  <2> HIDE DEF a, b
  <2>3. a + b \in Nat \ {0} /\ a * b \in Nat \ {0}
    BY <2>1
  <2> QED  BY <2>2, <2>3
<1> QED  BY <1>2, <1>3, <1>4

(***************************************************************************)
(* Two votes beat one, whatever the ranks (rag/retrieve.py:76, with its 20 *)
(* ranks and k = 60): a chunk that both paths recall is fused before every *)
(* chunk that only one of them recalls.                                    *)
(***************************************************************************)
THEOREM TwoVotesBeatOne ==
  ASSUME RecallTopK <= RRF_K + 1,
         NEW dense, NEW sparse, Ranked(dense), Ranked(sparse),
         NEW i \in Both(dense, sparse),
         NEW j \in Fused(dense, sparse) \ Both(dense, sparse)
  PROVE  Outranks(i, j, dense, sparse)
<1>1. RRF_K \in Nat \ {0} /\ RecallTopK \in Nat
  BY CorpusAssumption
<1> DEFINE a == RRF_K + dense[i]
           b == RRF_K + sparse[i]
           c == IF j \in DOMAIN dense THEN RRF_K + dense[j] ELSE RRF_K + sparse[j]
<1>2. a \in RRF_K + 1 .. RRF_K + RecallTopK /\ b \in RRF_K + 1 .. RRF_K + RecallTopK
  BY <1>1 DEF Ranked, Ranks, Both
<1>3. c \in RRF_K + 1 .. RRF_K + RecallTopK
  BY <1>1 DEF Ranked, Ranks, Both, Fused
<1>4. rrf(i, dense, sparse) = [num |-> a + b, den |-> a * b]
  BY DEF rrf, Both
<1>5. rrf(j, dense, sparse) = [num |-> 1, den |-> c]
  BY DEF rrf, Both, Fused
<1> HIDE DEF a, b, c
<1>6. a \in Nat \ {0} /\ b \in Nat \ {0} /\ c \in Nat \ {0} /\ a < 2 * c /\ b < 2 * c
  BY <1>1, <1>2, <1>3
<1>7. (a + b) * c > 1 * (a * b)
  <2>1. (a + b) * c > a * b
    BY <1>6, TwoBeatOne
  <2> QED  BY <1>6, <2>1
<1> QED  BY <1>4, <1>5, <1>7 DEF Outranks

(***************************************************************************)
(* The cut of the fused list (rag/retrieve.py:303) never takes a chunk     *)
(* that one path recalls and leaves out one that both recall.              *)
(***************************************************************************)
THEOREM AgreedFirst ==
  ASSUME RecallTopK <= RRF_K + 1,
         NEW I, IsFiniteSet(I), NEW J, IsFiniteSet(J), NEW D,
         NEW dense \in Rankings(I), NEW sparse \in Rankings(J),
         NEW found \in Candidates(Known(dense, D), sparse),
         NEW i \in Both(Known(dense, D), sparse), NEW j \in found \ Both(Known(dense, D), sparse)
  PROVE  i \in found
<1> DEFINE known == Known(dense, D)
<1>1. Ranked(known) /\ Ranked(sparse)
  BY RankingRanked, KnownRanked
<1> HIDE DEF known
<1>2. /\ found \subseteq Fused(known, sparse)
      /\ \A k \in found, l \in Fused(known, sparse) \ found : ~Outranks(l, k, known, sparse)
  BY DEF Candidates, kSubset, known
<1>3. i \in Both(known, sparse) /\ j \in Fused(known, sparse) \ Both(known, sparse)
  BY <1>2 DEF known
<1>4. Outranks(i, j, known, sparse)
  BY <1>1, <1>3, TwoVotesBeatOne
<1>5. i \in Fused(known, sparse)
  BY <1>3 DEF Both, Fused
<1> QED  BY <1>2, <1>4, <1>5

(* A chunk that is ranked before j by each list that has j.                *)
Dominates(i, j, dense, sparse) ==
  /\ j \in DOMAIN dense => i \in DOMAIN dense /\ dense[i] < dense[j]
  /\ j \in DOMAIN sparse => i \in DOMAIN sparse /\ sparse[i] < sparse[j]

LEMMA EarlierIsMore ==
  ASSUME NEW a \in Nat \ {0}, NEW b \in Nat \ {0}, NEW c \in Nat \ {0}, NEW d \in Nat \ {0},
         a < c, b < d
  PROVE  /\ (a + b) * (c * d) > (c + d) * (a * b)
         /\ (a + b) * c > a * b
         /\ 1 * c > 1 * a
<1>1. a * (b * d) < c * (b * d) /\ b * (a * c) < d * (a * c)
  <2>1. b * d \in Nat \ {0} /\ a * c \in Nat \ {0}
    OBVIOUS
  <2> QED  BY <2>1, TimesLess
<1>2. /\ (a + b) * (c * d) = d * (a * c) + c * (b * d)
      /\ (c + d) * (a * b) = b * (a * c) + a * (b * d)
  OBVIOUS
<1>3. (a + b) * (c * d) > (c + d) * (a * b)
  <2>1. /\ a * (b * d) \in Nat /\ b * (a * c) \in Nat
        /\ c * (b * d) \in Nat /\ d * (a * c) \in Nat
    OBVIOUS
  <2> QED  BY <1>1, <1>2, <2>1
<1>4. (a + b) * c > a * b
  <2>1. a * b < c * b
    BY TimesLess
  <2>2. (a + b) * c = c * b + a * c /\ a * c \in Nat /\ a * b \in Nat /\ c * b \in Nat
    OBVIOUS
  <2> QED  BY <2>1, <2>2
<1> QED  BY <1>3, <1>4

(***************************************************************************)
(* Fusion keeps what the two paths agree on (rag/retrieve.py:76): a chunk  *)
(* that is ranked before another by each path that recalls the other is    *)
(* never cut in its favour.                                                *)
(***************************************************************************)
THEOREM UndominatedKept ==
  ASSUME NEW dense, NEW sparse, Ranked(dense), Ranked(sparse),
         NEW found \in Candidates(dense, sparse),
         NEW i \in Fused(dense, sparse), NEW j \in found, Dominates(i, j, dense, sparse)
  PROVE  i \in found
<1>1. RRF_K \in Nat \ {0} /\ RecallTopK \in Nat
  BY CorpusAssumption
<1>2. /\ found \subseteq Fused(dense, sparse)
      /\ \A k \in found, l \in Fused(dense, sparse) \ found : ~Outranks(l, k, dense, sparse)
  BY DEF Candidates, kSubset
<1> DEFINE a == RRF_K + dense[i]
           b == RRF_K + sparse[i]
           c == RRF_K + dense[j]
           d == RRF_K + sparse[j]
<1>3. /\ i \in DOMAIN dense => a \in Nat \ {0}
      /\ i \in DOMAIN sparse => b \in Nat \ {0}
      /\ j \in DOMAIN dense => i \in DOMAIN dense /\ c \in Nat \ {0} /\ a < c
      /\ j \in DOMAIN sparse => i \in DOMAIN sparse /\ d \in Nat \ {0} /\ b < d
  BY <1>1 DEF Ranked, Ranks, Dominates
<1>4. \A k \in {i, j} : rrf(k, dense, sparse) =
        IF k \notin DOMAIN sparse THEN [num |-> 1, den |-> RRF_K + dense[k]]
        ELSE IF k \notin DOMAIN dense THEN [num |-> 1, den |-> RRF_K + sparse[k]]
        ELSE [num |-> (RRF_K + dense[k]) + (RRF_K + sparse[k]),
              den |-> (RRF_K + dense[k]) * (RRF_K + sparse[k])]
  BY DEF rrf
<1>5. /\ rrf(i, dense, sparse) = IF i \notin DOMAIN sparse THEN [num |-> 1, den |-> a]
                                 ELSE IF i \notin DOMAIN dense THEN [num |-> 1, den |-> b]
                                 ELSE [num |-> a + b, den |-> a * b]
      /\ rrf(j, dense, sparse) = IF j \notin DOMAIN sparse THEN [num |-> 1, den |-> c]
                                 ELSE IF j \notin DOMAIN dense THEN [num |-> 1, den |-> d]
                                 ELSE [num |-> c + d, den |-> c * d]
  BY <1>4
<1>6. j \in DOMAIN dense \/ j \in DOMAIN sparse
  BY <1>2 DEF Fused
<1> HIDE DEF a, b, c, d
<1>7. Outranks(i, j, dense, sparse)
  <2>1. CASE j \in DOMAIN dense /\ j \in DOMAIN sparse
    <3>1. (a + b) * (c * d) > (c + d) * (a * b)
      BY <1>3, <2>1, EarlierIsMore
    <3> QED  BY <1>3, <1>5, <2>1, <3>1 DEF Outranks
  <2>2. CASE j \in DOMAIN dense /\ j \notin DOMAIN sparse
    <3>1. CASE i \in DOMAIN sparse
      <4>1. (a + b) * c > 1 * (a * b)
        <5>1. b < b + 1 /\ b + 1 \in Nat \ {0}
          BY <1>3, <3>1
        <5>2. (a + b) * c > a * b
          BY <1>3, <2>2, <3>1, <5>1, EarlierIsMore
        <5> QED  BY <1>3, <2>2, <3>1, <5>2
      <4> QED  BY <1>3, <1>5, <2>2, <3>1, <4>1 DEF Outranks
    <3>2. CASE i \notin DOMAIN sparse
      <4>1. 1 * c > 1 * a
        BY <1>3, <2>2
      <4> QED  BY <1>3, <1>5, <2>2, <3>2, <4>1 DEF Outranks
    <3> QED  BY <3>1, <3>2
  <2>3. CASE j \notin DOMAIN dense /\ j \in DOMAIN sparse
    <3>1. CASE i \in DOMAIN dense
      <4>1. (a + b) * d > 1 * (a * b)
        <5>1. a < a + 1 /\ a + 1 \in Nat \ {0}
          BY <1>3, <3>1
        <5>2. (b + a) * d > b * a
          BY <1>3, <2>3, <3>1, <5>1, EarlierIsMore
        <5> QED  BY <1>3, <2>3, <3>1, <5>2
      <4> QED  BY <1>3, <1>5, <2>3, <3>1, <4>1 DEF Outranks
    <3>2. CASE i \notin DOMAIN dense
      <4>1. 1 * d > 1 * b
        BY <1>3, <2>3
      <4> QED  BY <1>3, <1>5, <2>3, <3>2, <4>1 DEF Outranks
    <3> QED  BY <3>1, <3>2
  <2> QED  BY <1>6, <2>1, <2>2, <2>3
<1> QED  BY <1>2, <1>7

LEMMA OutranksOrders ==
  ASSUME NEW dense, NEW sparse, Ranked(dense), Ranked(sparse),
         NEW i \in Fused(dense, sparse), NEW j \in Fused(dense, sparse),
         NEW k \in Fused(dense, sparse)
  PROVE  /\ ~Outranks(i, i, dense, sparse)
         /\ Outranks(i, j, dense, sparse) /\ Outranks(j, k, dense, sparse)
              => Outranks(i, k, dense, sparse)
<1> DEFINE x == rrf(i, dense, sparse)
           y == rrf(j, dense, sparse)
           z == rrf(k, dense, sparse)
<1>1. /\ x.num \in Nat \ {0} /\ x.den \in Nat \ {0}
      /\ y.num \in Nat \ {0} /\ y.den \in Nat \ {0}
      /\ z.num \in Nat \ {0} /\ z.den \in Nat \ {0}
  BY Score
<1>2. /\ Outranks(i, i, dense, sparse) <=> x.num * x.den > x.num * x.den
      /\ Outranks(i, j, dense, sparse) <=> x.num * y.den > y.num * x.den
      /\ Outranks(j, k, dense, sparse) <=> y.num * z.den > z.num * y.den
      /\ Outranks(i, k, dense, sparse) <=> x.num * z.den > z.num * x.den
  BY DEF Outranks
<1> HIDE DEF x, y, z
<1>3. ~Outranks(i, i, dense, sparse)
  <2>1. x.num * x.den \in Nat
    BY <1>1
  <2> QED  BY <1>2, <2>1
<1>4. ASSUME Outranks(i, j, dense, sparse), Outranks(j, k, dense, sparse)
      PROVE  Outranks(i, k, dense, sparse)
  <2>1. x.num * z.den > z.num * x.den
    BY <1>1, <1>2, <1>4, FractionsTransitive
  <2> QED  BY <1>2, <2>1
<1> QED  BY <1>3, <1>4

(* Of finitely many fused chunks one is outranked by no other of them. *)
LEMMA BestExists ==
  ASSUME NEW dense, NEW sparse, Ranked(dense), Ranked(sparse),
         NEW S \in SUBSET Fused(dense, sparse), IsFiniteSet(S), S # {}
  PROVE  \E m \in S : \A j \in S : ~Outranks(j, m, dense, sparse)
<1> DEFINE Better(m) == {j \in S : Outranks(j, m, dense, sparse)}
           F == {Better(m) : m \in S}
<1>1. F \subseteq FiniteSubsetsOf(S) /\ F # {}
  <2>1. ASSUME NEW m \in S PROVE Better(m) \in FiniteSubsetsOf(S)
    BY FS_Subset DEF FiniteSubsetsOf
  <2> QED  BY <2>1
<1>2. IsWellFoundedOn(StrictSubsetOrdering(S), FiniteSubsetsOf(S))
  BY FS_StrictSubsetOrderingWellFounded
<1>3. PICK x \in F : \A y \in F : <<y, x>> \notin StrictSubsetOrdering(S)
  <2> HIDE DEF F
  <2> QED  BY <1>1, <1>2, WFMin
<1>4. PICK m \in S : x = Better(m)
  OBVIOUS
<1>5. ASSUME NEW j \in S, Outranks(j, m, dense, sparse)
      PROVE  FALSE
  <2>1. ASSUME NEW k \in S, Outranks(k, j, dense, sparse)
        PROVE  Outranks(k, m, dense, sparse)
    BY <1>5, <2>1, OutranksOrders
  <2>2. ~Outranks(j, j, dense, sparse)
    BY OutranksOrders
  <2>3. Better(j) \subseteq Better(m) /\ Better(j) # Better(m)
    <3>1. j \in Better(m) /\ j \notin Better(j)
      BY <1>5, <2>2
    <3> QED  BY <2>1, <3>1
  <2>4. <<Better(j), Better(m)>> \in StrictSubsetOrdering(S)
    <3>1. Better(j) \in SUBSET S /\ Better(m) \in SUBSET S
      OBVIOUS
    <3> HIDE DEF Better
    <3> QED  BY <2>3, <3>1 DEF StrictSubsetOrdering
  <2> QED  BY <1>3, <1>4, <2>4
<1> QED  BY <1>5

(***************************************************************************)
(* The sort and the cut of the fused list always give a set of candidates  *)
(* (rag/retrieve.py:303): no search of the model is stuck for want of one. *)
(***************************************************************************)
THEOREM CandidatesExist ==
  ASSUME NEW dense, NEW sparse, Ranked(dense), Ranked(sparse), IsFiniteSet(Fused(dense, sparse))
  PROVE  Candidates(dense, sparse) # {}
<1> DEFINE all == Fused(dense, sparse)
           Top(T) == \A i \in T, j \in all \ T : ~Outranks(j, i, dense, sparse)
           E == {k \in Nat : k <= Cardinality(all) =>
                   \E T \in SUBSET all : Cardinality(T) = k /\ Top(T)}
<1>1. Cardinality(all) \in Nat
  BY FS_CardinalityType
<1>2. 0 \in E
  <2>1. {} \in SUBSET all /\ Cardinality({}) = 0 /\ Top({})
    BY FS_EmptySet
  <2> HIDE DEF Top
  <2> QED  BY <2>1
<1>3. ASSUME NEW k \in Nat, k \in E
      PROVE  k + 1 \in E
  <2> SUFFICES ASSUME k + 1 <= Cardinality(all)
               PROVE  \E T \in SUBSET all : Cardinality(T) = k + 1 /\ Top(T)
    OBVIOUS
  <2>1. PICK T \in SUBSET all : Cardinality(T) = k /\ Top(T)
    BY <1>1, <1>3
  <2>2. IsFiniteSet(T) /\ IsFiniteSet(all \ T) /\ all \ T # {}
    <3>1. T # all
      BY <1>1, <2>1
    <3> QED  BY <3>1, FS_Subset
  <2>3. PICK m \in all \ T : \A j \in all \ T : ~Outranks(j, m, dense, sparse)
    BY <2>2, BestExists
  <2>4. Cardinality(T \cup {m}) = k + 1
    BY <2>1, <2>2, <2>3, FS_AddElement
  <2>5. Top(T \cup {m})
    BY <2>1, <2>3
  <2>6. T \cup {m} \in SUBSET all
    OBVIOUS
  <2> HIDE DEF Top
  <2> QED  BY <2>4, <2>5, <2>6
<1>4. Nat \subseteq E
  <2> HIDE DEF E
  <2> QED  BY <1>2, <1>3, NatSets
<1> DEFINE n == Min({CANDIDATE_TOP_K, Cardinality(all)})
<1>5. n \in Nat /\ n <= Cardinality(all)
  <2>1. CANDIDATE_TOP_K \in Nat
    BY CorpusAssumption
  <2> QED  BY <1>1, <2>1, MinOfTwo
<1> HIDE DEF n
<1>6. PICK T \in SUBSET all : Cardinality(T) = n /\ Top(T)
  BY <1>4, <1>5
<1>7. T \in kSubset(n, all)
  BY <1>6 DEF kSubset
<1> QED  BY <1>6, <1>7 DEF Candidates, n

==============================================================================
