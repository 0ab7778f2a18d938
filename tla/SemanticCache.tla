--------------------------- MODULE SemanticCache ---------------------------
(***************************************************************************)
(* The semantic cache of ai/semantic_cache.py: replies in a Qdrant         *)
(* collection, found by the nearness of the questions.                     *)
(*                                                                         *)
(* The other level, the exact match in Redis, never answers: the client's  *)
(* get() parses the JSON it reads, so _exact_match hands json.loads a dict,*)
(* which raises, and the lookup goes on to Qdrant.  What Redis holds is    *)
(* therefore left out, and with it the cache's only TTL: no point expires. *)
(* invalidate() and flush() have no caller.                                *)
(***************************************************************************)
CONSTANTS
    Users,           \* a user's id is the namespace of the user's points
    Questions,       \* texts, up to case and surrounding blanks
    Alike,           \* pairs of questions whose similarity reaches the threshold
    NoReply

ASSUME AlikeAssumption ==
    /\ Alike \subseteq Questions \X Questions
    /\ \A q \in Questions : <<q, q>> \in Alike

VARIABLE points      \* points[n][q]: the reply held under _make_id(q, n), or NoReply

NoPoints == [n \in Users |-> [q \in Questions |-> NoReply]]

\* generate() embeds by the model; without it, by a hash of the text, which is near
\* to nothing but the same text.
Vectors == {"model", "hash"}

Near(q, vector) ==
    IF vector = "model" THEN {p \in Questions : <<q, p>> \in Alike} ELSE {q}

\* Mutation: the search has no filter.
FoundAnywhere(n, q, vector) ==
    {points[m][p] : m \in Users, p \in Near(q, vector)} \ {NoReply}

\* _semantic_match: what may come first of the points near to q in namespace n; a
\* point that was stored with the other kind of vector is not among them.
Found(n, q, vector) == {points[n][p] : p \in Near(q, vector)} \ {NoReply}

\* _store_semantic: an upsert.
Put(n, q, reply) == points' = [points EXCEPT ![n][q] = reply]
=============================================================================
