----------------------------- MODULE Retrieval -----------------------------
(***************************************************************************)
(* One search of the retrieval layer (app/retrieval): the factory chooses  *)
(* a retriever, the query is completed from the settings, the dense side   *)
(* ranks by similarity or selects by maximal marginal relevance, a sparse  *)
(* side may be fused in, and the compression pipeline trims the result.    *)
(*                                                                         *)
(* A document is its id, its embedding and the relevance of its sentences. *)
(* Embeddings are integer vectors of the plane of length Norm, so that     *)
(* cosines are whole multiples of 1 / Unit; scores are kept in units fine  *)
(* enough for the fractions of reciprocal rank fusion as well.  Lengths    *)
(* are counted in sentences.  Filters only narrow what the store holds.    *)
(***************************************************************************)
EXTENDS Integers, SequencesExt

CONSTANTS
    Documents,   \* the ids of the documents that pass the query's filters
    Norm,        \* the length of every embedding
    Target,      \* the embedding of the query
    Embeddings,  \* the embeddings a document may have
    Contents,    \* the contents a document may have: its sentences' relevance
    Settings,    \* the settings.retrieval to consider
    Queries,     \* the queries to consider
    None

Unit == Norm * Norm
SearchTypes == {"similarity", "mmr", "hybrid"}

(* cosine_similarity, in units of 1 / Unit. *)
cosine_similarity(left, right) == left[1] * right[1] + left[2] * right[2]

ASSUME RetrievalAssumption ==
    /\ Documents \subseteq Nat /\ IsFiniteSet(Documents)
    /\ Norm \in Nat \ {0} /\ Embeddings \cup {Target} \subseteq Int \X Int
    /\ \A v \in Embeddings \cup {Target} : cosine_similarity(v, v) = Unit
    /\ \A c \in Contents : c \in Seq(-Unit .. Unit)
    /\ \A s \in Settings :
          /\ s.default_search_type \in SearchTypes
          /\ {s.top_k, s.multiplier, s.max_characters, s.rrf_k} \subseteq Nat \ {0}
          /\ s.fetch_k \in Nat /\ s.fetch_k >= s.top_k
          /\ s.mmr_lambda \in 0 .. 2 /\ s.dense_weight \in 0 .. 2   \* in halves
          /\ {s.score_threshold, s.min_relevance, s.redundancy} \subseteq 0 .. Unit
          /\ {s.compression_enabled, s.sentence_level, s.sparse} \subseteq BOOLEAN
    /\ \A q \in Queries :
          /\ q.top_k \in {None} \cup (Nat \ {0})
          /\ q.search_type \in SearchTypes \cup {None}
          /\ q.compress \in BOOLEAN \cup {None}

VARIABLES
    settings,  \* settings.retrieval
    query,     \* the RetrievalQuery
    embedding, \* each document's embedding
    content,   \* each document's sentences
    pc,        \* the step to come
    retriever, \* the strategy, and whether CompressionRetriever wraps it
    asked,     \* what the base retriever is asked for: top_k, search_type, fetch_k
    pool,      \* the candidates MMR has not selected yet
    hits,      \* the ranked hits so far
    lists,     \* the rankings that were fused
    trail,     \* the hits before each compression stage
    stage      \* the compression stage to come

vars == <<settings, query, embedding, content, pc, retriever, asked, pool,
          hits, lists, trail, stage>>
inputs == <<settings, query, embedding, content>>

Ends == {"documents", "dependency_error", "validation_error"}

Or(value, default) == IF value = None THEN default ELSE value

page == Or(query.top_k, settings.top_k)

-----------------------------------------------------------------------------
(* Scores *)

(* What a score in units of 1 / Unit is in the units of the hits, of which *)
(* every fraction of a unit that fusion gives is a whole number.           *)
Products ==
    [s \in Settings |->
        LET Product[n \in 0 .. Cardinality(Documents)] ==
                IF n = 0 THEN 1 ELSE Product[n - 1] * (s.rrf_k + n)
        IN  Product[Cardinality(Documents)]]
RankProduct == Products[settings]
Fine(score) == score * 2 * RankProduct

(* How relevant a document is to the query. *)
Relevance(d) == cosine_similarity(Target, embedding[d])

(* distance_to_score, of the store's distance 1 - cosine, clamped. *)
distance_to_score(distance) == Min({Unit, Max({0, Unit - distance})})

(* The length of a text of so many sentences: no text is empty. *)
Length(sentences) == Max({1, sentences})

Hit(d, score) == [id |-> d, score |-> score, length |-> Length(Len(content[d]))]

Ids(hs) == [i \in DOMAIN hs |-> hs[i].id]

(* The first n of a ranking. *)
Page(hs, n) == SubSeq(hs, 1, Min({n, Len(hs)}))

(* A set as the sequence its strict order, a set of pairs, puts it in. *)
Ranked(S, Before) ==
    [i \in 1 .. Cardinality(S) |->
        CHOOSE d \in S : Cardinality({e \in S : <<e, d>> \in Before}) = i - 1]

(* What a sequence has at some of its positions, in its order. *)
Chosen(s, positions) ==
    LET order == Ranked(positions, {p \in positions \X positions : p[1] < p[2]})
    IN  [k \in DOMAIN order |-> s[order[k]]]

(* The store: nearest first, equally near ones in any fixed order. *)
Nearer == {p \in Documents \X Documents :
              \/ Relevance(p[1]) > Relevance(p[2])
              \/ Relevance(p[1]) = Relevance(p[2]) /\ p[1] < p[2]}

search_by_vector(n) ==
    LET ranked == Page(Ranked(Documents, Nearer), n)
    IN  [i \in DOMAIN ranked |->
            Hit(ranked[i], Fine(distance_to_score(Unit - Relevance(ranked[i]))))]

(* What maximal_marginal_relevance maximises after the first selection. *)
MarginalValue(d, selected) ==
    settings.mmr_lambda * Relevance(d)
    - (2 - settings.mmr_lambda) *
      Max({cosine_similarity(embedding[d], embedding[c]) : c \in ToSet(selected)})

RankOf(d, ranking) == CHOOSE i \in DOMAIN ranking : ranking[i] = d

(* Mutation: the later a document comes in a list the more it scores. *)
LateRanksScoreMore(d, ranking, weight) ==
    IF d \in ToSet(ranking) THEN weight * Unit * (settings.rrf_k + RankOf(d, ranking)) ELSE 0

(* The share of one list in a document's fused score. *)
Share(d, ranking, weight) ==
    IF d \in ToSet(ranking)
    THEN weight * Unit * (RankProduct \div (settings.rrf_k + RankOf(d, ranking)))
    ELSE 0

(* reciprocal_rank_fusion, with the weights of _fuse. *)
reciprocal_rank_fusion(d, dense, sparse) ==
    Share(d, dense, settings.dense_weight) + Share(d, sparse, 2 - settings.dense_weight)

(* The documents of both lists as they first name them. *)
Named(dense, sparse) ==
    dense \o Chosen(sparse, {i \in DOMAIN sparse : sparse[i] \notin ToSet(dense)})

(* Mutation: the fused documents are left as the lists first name them. *)
FusesWithoutSorting(dense, sparse) ==
    LET named == Named(dense, sparse)
    IN  [i \in DOMAIN named |-> Hit(named[i], reciprocal_rank_fusion(named[i], dense, sparse))]

(* _fuse: by fused score, equal ones as the lists first name them. *)
_fuse(dense, sparse) ==
    LET named == Named(dense, sparse)
        score == [d \in ToSet(named) |-> reciprocal_rank_fusion(d, dense, sparse)]
        ranked == Ranked(ToSet(named),
                         {p \in ToSet(named) \X ToSet(named) :
                             \/ score[p[1]] > score[p[2]]
                             \/ /\ score[p[1]] = score[p[2]]
                                /\ RankOf(p[1], named) < RankOf(p[2], named)})
    IN  [i \in DOMAIN ranked |-> Hit(ranked[i], score[ranked[i]])]

-----------------------------------------------------------------------------
(* Compression stages *)

(* The positions of the hits above a bar. *)
Above(hs, bar) == {i \in DOMAIN hs : hs[i].score >= Fine(bar)}

ScoreThresholdCompressor(hs) == Chosen(hs, Above(hs, settings.min_relevance))

(* Whether two hits repeat each other. *)
Near(a, b) == cosine_similarity(embedding[a.id], embedding[b.id]) >= settings.redundancy

(* Mutation: a document is compared with the one kept last only. *)
ComparesWithTheLast(hs) ==
    LET Kept[n \in 0 .. Len(hs)] ==
            CASE n = 0 -> {}
              [] n > 0 /\ Kept[n - 1] # {} /\ Near(hs[n], hs[Max(Kept[n - 1])]) -> Kept[n - 1]
              [] OTHER -> Kept[n - 1] \cup {n}
    IN  Chosen(hs, Kept[Len(hs)])

(* Which of the first n hits are kept. *)
KeptOf(hs) ==
    LET Kept[n \in 0 .. Len(hs)] ==
            IF n = 0 THEN {}
            ELSE IF \E k \in Kept[n - 1] : Near(hs[n], hs[k]) THEN Kept[n - 1]
            ELSE Kept[n - 1] \cup {n}
    IN  Kept

RedundancyCompressor(hs) == Chosen(hs, KeptOf(hs)[Len(hs)])

(* The sentences above the bar, or else the best one; a document in which  *)
(* no sentence is found stays as it is.                                    *)
SentenceCompressor(hs) ==
    LET Relevant(sentences) == {n \in DOMAIN sentences : sentences[n] >= settings.min_relevance}
    IN  [i \in DOMAIN hs |->
            [hs[i] EXCEPT !.length = Length(Cardinality(Relevant(content[hs[i].id])))]]

(* What the first n hits take of the budget. *)
Spent(hs) ==
    LET Sum[n \in 0 .. Len(hs)] == IF n = 0 THEN 0 ELSE Sum[n - 1] + hs[n].length
    IN  Sum

(* How many hits, one after the other, the budget has room for. *)
Fitting(hs) == Cardinality({n \in DOMAIN hs : Spent(hs)[n] <= settings.max_characters})

(* Mutation: a first document that is too long is dropped like the others. *)
DropsAnOversizedFirst(hs) == Page(hs, Fitting(hs))

(* The budget is spent in rank order until a document no longer fits; only *)
(* a first one is cut to it, which leaves nothing for the others.          *)
BudgetCompressor(hs) ==
    IF hs # <<>> /\ hs[1].length > settings.max_characters
    THEN <<[hs[1] EXCEPT !.length = settings.max_characters]>>
    ELSE Page(hs, Fitting(hs))

default_pipeline ==
    <<"threshold", "redundancy">>
    \o (IF settings.sentence_level THEN <<"sentences">> ELSE <<>>) \o <<"budget">>

compress(name, hs) ==
    CASE name = "threshold" -> ScoreThresholdCompressor(hs)
      [] name = "redundancy" -> RedundancyCompressor(hs)
      [] name = "sentences" -> SentenceCompressor(hs)
      [] name = "budget" -> BudgetCompressor(hs)

-----------------------------------------------------------------------------
Init ==
    /\ settings \in Settings
    /\ query \in Queries
    /\ embedding \in [Documents -> Embeddings]
    /\ content \in [Documents -> Contents]
    /\ pc = "build"
    /\ retriever = [base |-> None, compresses |-> FALSE]
    /\ asked = [top_k |-> None, search_type |-> None, fetch_k |-> None]
    /\ pool = <<>>
    /\ hits = <<>>
    /\ lists = None
    /\ trail = <<>>
    /\ stage = 1

(* RetrieverFactory.for_query and build; CompressionRetriever.search asks  *)
(* for a multiple of the page.                                             *)
for_query ==
    /\ pc = "build"
    /\ LET strategy == Or(query.search_type, settings.default_search_type)
           compressed == Or(query.compress, settings.compression_enabled)
       IN  /\ retriever' = [base |-> IF strategy = "hybrid" THEN "hybrid" ELSE "vector",
                            compresses |-> compressed]
           /\ asked' = [asked EXCEPT
                 !.top_k = page * (IF compressed THEN settings.multiplier ELSE 1),
                 !.search_type = query.search_type]
           /\ pc' = retriever'.base
    /\ UNCHANGED <<inputs, pool, hits, lists, trail, stage>>

(* HybridRetriever.search: the dense side is asked without a strategy. *)
hybrid ==
    /\ pc = "hybrid"
    /\ asked' = [asked EXCEPT !.search_type = None]
    /\ pc' = "vector"
    /\ UNCHANGED <<inputs, retriever, pool, hits, lists, trail, stage>>

(* BaseRetriever.prepare, for the dense side. *)
prepare ==
    /\ pc = "vector"
    /\ LET type == Or(asked.search_type, settings.default_search_type) IN
       IF type \in {"similarity", "mmr"}
       THEN /\ asked' = [asked EXCEPT !.search_type = type,
                                      !.fetch_k = Max({settings.fetch_k, asked.top_k})]
            /\ pc' = "search"
       ELSE pc' = "validation_error" /\ UNCHANGED asked
    /\ UNCHANGED <<inputs, retriever, pool, hits, lists, trail, stage>>

(* VectorRetriever.search asks the store for the page, or for the wider    *)
(* pool MMR selects from.                                                  *)
search ==
    /\ pc = "search"
    /\ IF asked.search_type = "mmr"
       THEN /\ pool' = search_by_vector(asked.fetch_k)
            /\ pc' = "mmr" /\ UNCHANGED hits
       ELSE /\ hits' = search_by_vector(asked.top_k)
            /\ pc' = "above_threshold" /\ UNCHANGED pool
    /\ UNCHANGED <<inputs, retriever, asked, lists, trail, stage>>

(* The candidates of which the next one is selected: the first of the most *)
(* relevant to begin with, then any of greatest value.                     *)
Best ==
    IF hits = <<>>
    THEN LET relevance == [i \in DOMAIN pool |-> Relevance(pool[i].id)]
         IN  {i \in DOMAIN pool :
                 /\ \A j \in DOMAIN pool : relevance[i] >= relevance[j]
                 /\ \A j \in 1 .. i - 1 : relevance[i] > relevance[j]}
    ELSE LET value == [i \in DOMAIN pool |-> MarginalValue(pool[i].id, Ids(hits))]
         IN  {i \in DOMAIN pool : \A j \in DOMAIN pool : value[i] >= value[j]}

(* maximal_marginal_relevance selects one candidate after another. *)
mmr ==
    /\ pc = "mmr"
    /\ IF pool # <<>> /\ Len(hits) < asked.top_k
       THEN \E i \in Best : hits' = Append(hits, pool[i]) /\ pool' = RemoveAt(pool, i) /\ UNCHANGED pc
       ELSE pool' = <<>> /\ pc' = "above_threshold" /\ UNCHANGED hits
    /\ UNCHANGED <<inputs, retriever, asked, lists, trail, stage>>

AfterBase(hs) ==
    IF retriever.compresses /\ hs # <<>> THEN "compress" ELSE "documents"

(* _above_threshold, and the dense result is complete. *)
_above_threshold ==
    /\ pc = "above_threshold"
    /\ hits' = Chosen(hits, Above(hits, settings.score_threshold))
    /\ pc' = IF retriever.base = "hybrid" /\ settings.sparse THEN "sparse" ELSE AfterBase(hits')
    /\ UNCHANGED <<inputs, retriever, asked, pool, lists, trail, stage>>

(* The sparse side ranks as it likes, at most as many as it is asked for.  *)
SparseRankings ==
    {s \in UNION {[1 .. n -> Documents] : n \in 0 .. Cardinality(Documents)} :
        IsInjective(s) /\ Len(s) <= asked.top_k}

fuse ==
    /\ pc = "sparse"
    /\ \E sparse \in SparseRankings :
          /\ lists' = <<Ids(hits), sparse>>
          /\ hits' = Page(_fuse(Ids(hits), sparse), asked.top_k)
    /\ pc' = AfterBase(hits')
    /\ UNCHANGED <<inputs, retriever, asked, pool, trail, stage>>

(* Mutation: what the pipeline leaves is returned whole. *)
_run_pipeline_unpaged ==
    /\ pc = "compress"
    /\ LET kept == compress(default_pipeline[stage], hits)
           over == stage = Len(default_pipeline) \/ kept = <<>>
       IN  /\ hits' = kept
           /\ pc' = IF over THEN "documents" ELSE "compress"
    /\ trail' = Append(trail, hits)
    /\ stage' = stage + 1
    /\ UNCHANGED <<inputs, retriever, asked, pool, lists>>

(* One stage of the pipeline; the last, or one that leaves nothing, ends   *)
(* it with the page the caller asked for.                                  *)
_run_pipeline ==
    /\ pc = "compress"
    /\ LET kept == compress(default_pipeline[stage], hits)
           over == stage = Len(default_pipeline) \/ kept = <<>>
       IN  /\ hits' = IF over THEN Page(kept, page) ELSE kept
           /\ pc' = IF over THEN "documents" ELSE "compress"
    /\ trail' = Append(trail, hits)
    /\ stage' = stage + 1
    /\ UNCHANGED <<inputs, retriever, asked, pool, lists>>

(* An embedding, the store or the sparse side fails. *)
DependencyError ==
    /\ \/ pc \in {"search", "sparse"}
       \/ pc = "compress" /\ stage = 1
       \/ pc = "compress" /\ default_pipeline[stage] = "redundancy" /\ Len(hits) > 1
       \/ /\ pc = "compress" /\ default_pipeline[stage] = "sentences"
          /\ \E h \in ToSet(hits) : content[h.id] # <<>>
    /\ pc' = "dependency_error"
    /\ hits' = <<>>
    /\ UNCHANGED <<inputs, retriever, asked, pool, lists, trail, stage>>

Next ==
    \/ for_query \/ hybrid \/ prepare \/ search \/ mmr \/ _above_threshold
    \/ fuse \/ _run_pipeline \/ DependencyError
    \/ pc \in Ends /\ UNCHANGED vars

Spec == Init /\ [][Next]_vars

-----------------------------------------------------------------------------
(* Properties *)

Hits == [id : Documents, score : Nat, length : Nat \ {0}]

TypeOK ==
    /\ pc \in {"build", "hybrid", "vector", "search", "mmr", "above_threshold",
               "sparse", "compress"} \cup Ends
    /\ retriever \in [base : {"vector", "hybrid", None}, compresses : BOOLEAN]
    /\ asked \in [top_k : Nat \cup {None}, search_type : SearchTypes \cup {None},
                  fetch_k : Nat \cup {None}]
    /\ pool \in Seq(Hits)
    /\ hits \in Seq(Hits)
    /\ stage \in 1 .. 5 /\ Len(trail) = stage - 1

(* A result never exceeds the page the caller asked for and never names a  *)
(* document twice, whichever retrievers it went through.                   *)
ResultIsAPage ==
    pc \in Ends => Len(hits) <= page /\ IsInjective(Ids(hits))

(* Fusion never reverses what both rankings agree on: a document that      *)
(* precedes another in both lists precedes it in the fused one.            *)
FusionKeepsAgreement ==
    lists # None /\ trail = <<>> =>
        \A i, j \in DOMAIN hits :
            LET Precedes(l) == /\ {hits[i].id, hits[j].id} \subseteq ToSet(l)
                               /\ RankOf(hits[i].id, l) < RankOf(hits[j].id, l)
            IN  Precedes(lists[1]) /\ Precedes(lists[2]) => i < j

(* What a pipeline returns is free of near-duplicates, and what it dropped *)
(* as redundant resembles a document of better rank that it kept.          *)
RedundantCopiesAreDropped ==
    pc \in {"compress", "documents"} /\ stage > 2 =>
        LET before == trail[2]
            after == IF stage = 3 THEN hits ELSE trail[3]
            Kept(h) == h.id \in ToSet(Ids(after))
        IN  \A i, j \in DOMAIN before :
               /\ Kept(before[i]) /\ Kept(before[j]) /\ i # j => ~Near(before[i], before[j])
               /\ i = j /\ ~Kept(before[i]) =>
                     \E k \in 1 .. i - 1 : Kept(before[k]) /\ Near(before[i], before[k])

(* "a document the retriever chose is never reduced to nothing" and "a     *)
(* single oversized document still yields context" (compressors.py): a hit *)
(* above the bar leaves something, within the budget, after every stage,   *)
(* and no document that is returned is empty.                              *)
GoodHitsYieldContext ==
    pc = "documents" /\ trail # <<>> =>
        /\ (\E h \in ToSet(trail[1]) : h.score >= Fine(settings.min_relevance)) => hits # <<>>
        /\ \A h \in ToSet(hits) : h.length > 0
        /\ Spent(hits)[Len(hits)] <= settings.max_characters

(* "With no sparse side supplied the retriever degrades to dense-only"     *)
(* (retrieval/hybrid.py): every strategy the settings and the query may    *)
(* name is one the retriever built for it can serve.                       *)
EveryStrategyIsServed == pc # "validation_error"

(* "Documents are compared in score order, so the higher-scoring copy is   *)
(* the one retained" (RedundancyCompressor).                               *)
HigherScoringCopyIsKept ==
    pc = "compress" /\ stage = 3 =>
        \A h \in ToSet(trail[2]) \ ToSet(hits) :
            \E k \in ToSet(hits) :
                /\ Near(h, k)
                /\ k.score >= h.score

(* The same of hits that do come in the order of their scores: those of a  *)
(* search by similarity, and fused ones.                                   *)
BestCopyIsKept ==
    asked.search_type = "similarity" \/ lists # None => HigherScoringCopyIsKept

(* "Over-fetching is what lets the pipeline discard weak and redundant     *)
(* hits and still return a full page" (CompressionRetriever): a document   *)
(* of sufficient similarity that both rankings put first is not a weak hit. *)
AgreedBestIsNotWeak ==
    pc = "documents" /\ trail # <<>> /\ lists # None =>
        ~ \E d \in Documents : /\ hits = <<>>
                               /\ Relevance(d) >= settings.min_relevance
                               /\ \A n \in 1 .. 2 : lists[n] # <<>> /\ lists[n][1] = d
=============================================================================
