---------------------------- MODULE MC_Retrieval ----------------------------
(* Retrieval for TLC: three documents whose embeddings lie on a circle of  *)
(* radius 5 about the origin, among them a pair whose cosine is 24 / 25.   *)
EXTENDS Retrieval

Circle == {<<5, 0>>, <<4, 3>>, <<3, 4>>, <<4, -3>>, <<-3, 4>>}
East == <<5, 0>>

(* No sentence found, three below the bar, and two of three above it. *)
ShortTexts == {<<>>, <<2, 2, 2>>, <<20, 2, 20>>}

Setting(type, sparse, lambda) ==
    [default_search_type |-> type, sparse |-> sparse, mmr_lambda |-> lambda,
     top_k |-> 2, fetch_k |-> 3, score_threshold |-> 0, compression_enabled |-> TRUE,
     multiplier |-> 2, min_relevance |-> 4, redundancy |-> 24, max_characters |-> 2,
     sentence_level |-> TRUE, dense_weight |-> 1, rrf_k |-> 1]

(* Each strategy of the dense side, with and without a sparse side, and    *)
(* without the sentence stage. *)
Deployments ==
    {Setting("similarity", FALSE, 1), Setting("similarity", TRUE, 1), Setting("mmr", FALSE, 1),
     Setting("mmr", FALSE, 2), [Setting("mmr", FALSE, 0) EXCEPT !.sentence_level = FALSE]}

HybridByDefault == {Setting("hybrid", FALSE, 1)}

(* The shipped rrf_k, with a sparse side. *)
ShippedFusion == {[Setting("similarity", TRUE, 1) EXCEPT !.rrf_k = 60]}

AskAnything ==
    [top_k : {1, None}, search_type : {"hybrid", None}, compress : {FALSE, None}]
AskDefault == {[top_k |-> None, search_type |-> None, compress |-> None]}
AskHybrid == {[top_k |-> None, search_type |-> "hybrid", compress |-> None]}
=============================================================================
