---------------------------- MODULE RagRetrieval ----------------------------
(***************************************************************************)
(* How RAGSystem.query() of app.py finds the chunks it answers from: the   *)
(* question is rephrased, every phrasing is searched for by vector and, in *)
(* an index that was built by this process, by keyword; ranks are fused    *)
(* (Reciprocal Rank Fusion), once per search and once over the phrasings;  *)
(* what falls short of a cutoff is dropped, and the rest is cut to the best*)
(* few.  Scores are in millionths, rounded down.                           *)
(***************************************************************************)
EXTENDS Integers, Sequences, FiniteSets, FiniteSetsExt, SequencesExt

CONSTANTS
    Chunks,
    Similarities,        \* cosine similarities the vector search may find
    MaxPhrasings,        \* the question and up to n = 3 variants of it: 4
    RetrievalK,          \* RAG_RETRIEVAL_K: 20
    TopK,                \* RAG_TOP_K: 5
    Cutoff               \* RAG_SIMILARITY_CUTOFF: 0.3, that is 300000

VARIABLES
    pc,
    hybrid,              \* has the index its nodes, so that it is searched by keyword too
    short,               \* has the question less than 15 words
    phrasings,           \* how many phrasings there are
    searches,            \* what was found, by phrasing
    found                \* the nodes that are left

vars == <<pc, hybrid, short, phrasings, searches, found>>

Hits == [chunk : Chunks, score : Similarities]

\* What a search may return: each chunk once, the best first.
Results(hits) ==
    {s \in UNION {[1 .. n -> hits] : n \in 0 .. Min({RetrievalK, Cardinality(Chunks)})} :
        \A i, j \in DOMAIN s : i < j =>
            s[i].chunk # s[j].chunk /\ s[i].score >= s[j].score}

\* A retriever that raises has found nothing.  (A long question in an index without
\* nodes is then refused, which comes to the same.)
VectorResults == Results(Hits)
KeywordResults == IF hybrid THEN Results([chunk : Chunks, score : {0}]) ELSE {<<>>}

Millionths(weight, rank) == (weight * 10000) \div (60 + rank)

RankOf(c, list) == CHOOSE i \in DOMAIN list : list[i].chunk = c
ChunksOf(list) == {list[i].chunk : i \in DOMAIN list}

\* Fusion of lists, of which the i-th counts Weight[i] per cent: a chunk's score is
\* the sum over the lists it is in, and on a tie the one met first stays first.
Fused(lists, Weight) ==
    LET score(c) == MapThenSumSet(LAMBDA i : Millionths(Weight[i], RankOf(c, lists[i])),
                                  {i \in DOMAIN lists : c \in ChunksOf(lists[i])})
        met == FlattenSeq(lists)
        before(c, d) == \/ score(c) > score(d)
                        \/ score(c) = score(d) /\ RankOf(c, met) < RankOf(d, met)
        all == SetToSortSeq(ChunksOf(met), before)
    IN  [i \in 1 .. Min({RetrievalK, Len(all)}) |-> [chunk |-> all[i], score |-> score(all[i])]]

\* One search: _HybridRetriever merges the two results, a plain one has vectors only.
Merged(s) == IF hybrid THEN Fused(<<s.vector, s.keyword>>, <<100, 100>>) ELSE s.vector

\* SimilarityPostprocessor
Above(list) == SelectSeq(list, LAMBDA h : h.score >= Cutoff)

Init ==
    /\ pc = "rephrase"
    /\ hybrid \in BOOLEAN /\ short \in BOOLEAN
    /\ phrasings = 1 /\ searches = <<>> /\ found = <<>>

\* _generate_query_variants, for a short question; without an answer of the model the
\* question itself is the only phrasing.
Rephrase ==
    /\ pc = "rephrase"
    /\ phrasings' \in IF short THEN 1 .. MaxPhrasings ELSE {1}
    /\ pc' = "search"
    /\ UNCHANGED <<hybrid, short, searches, found>>

\* One retrieve().
Search ==
    /\ pc = "search" /\ Len(searches) < phrasings
    /\ \E v \in VectorResults, k \in KeywordResults :
           searches' = Append(searches, [vector |-> v, keyword |-> k])
    /\ UNCHANGED <<pc, hybrid, short, phrasings, found>>

\* _multi_query_retrieve fuses again: a phrasing counts five per cent less than the
\* one before it.  Then the cutoff.
Keep ==
    /\ pc = "search" /\ Len(searches) = phrasings
    /\ LET merged == [i \in 1 .. phrasings |-> Merged(searches[i])]
       IN  found' = Above(IF short
                          THEN Fused(merged, [i \in 1 .. phrasings |-> 105 - 5 * i])
                          ELSE merged[1])
    /\ pc' = "rank"
    /\ UNCHANGED <<hybrid, short, phrasings, searches>>

\* The reranker orders more than TopK nodes anew, in its own way, and keeps TopK.
Rerank ==
    /\ pc = "rank"
    /\ found' \in IF Len(found) <= TopK THEN {found}
                  ELSE {[i \in 1 .. TopK |-> found[p[i]]] :
                            p \in {q \in [1 .. TopK -> DOMAIN found] : IsInjective(q)}}
    /\ pc' = "answer"
    /\ UNCHANGED <<hybrid, short, phrasings, searches>>

Next == Rephrase \/ Search \/ Keep \/ Rerank

Spec == Init /\ [][Next]_vars
----------------------------------------------------------------------------
\* The type of the state.
TypeOK ==
    /\ pc \in {"rephrase", "search", "rank", "answer"}
    /\ hybrid \in BOOLEAN /\ short \in BOOLEAN
    /\ phrasings \in 1 .. MaxPhrasings
    /\ Len(searches) <= phrasings
    /\ ChunksOf(found) \subseteq Chunks

\* Chunks that every search found before all others, by all it searched with.
Foremost ==
    {c \in Chunks : \A i \in DOMAIN searches :
        LET s == searches[i]
        IN  /\ s.vector # <<>> /\ Head(s.vector).chunk = c
            /\ hybrid => s.keyword # <<>> /\ Head(s.keyword).chunk = c}

\* "the postprocessor's cutoff is still meaningful as a relative relevance floor": a
\* chunk that is as similar as the cutoff asks, and that nothing found is more relevant
\* than, whatever the phrasing and the kind of search, is not dropped.
CutoffIsAFloor ==
    pc = "rank" => \A c \in Foremost :
        (\A i \in DOMAIN searches : Head(searches[i].vector).score >= Cutoff)
            => c \in ChunksOf(found)

\* Fusion respects what its lists agree on: of two chunks that are left, the one that
\* every list has in front of the other stays in front.
FusionAgrees ==
    pc = "rank" => \A i, j \in DOMAIN found : i < j =>
        ~ \A n \in DOMAIN searches :
              LET ahead(list) == /\ {found[i].chunk, found[j].chunk} \subseteq ChunksOf(list)
                                 /\ RankOf(found[j].chunk, list) < RankOf(found[i].chunk, list)
              IN  ahead(searches[n].vector) /\ (hybrid => ahead(searches[n].keyword))
=============================================================================
