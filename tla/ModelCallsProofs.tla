-------------------------- MODULE ModelCallsProofs --------------------------
(***************************************************************************)
(* Proofs about what calls models: the router with its breakers and the    *)
(* agents with their tools, for any number of routes, models, providers,   *)
(* runs, users and tools and any limits.  The two share lemmas about       *)
(* AtIndices, the list comprehension both programs filter lists with.      *)
(*                                                                         *)
(* Tools: the registry forgets no call of the last minute, so that a user  *)
(* has in any minute as many calls of a tool's function as the registry    *)
(* counts, and it compares that count with the limit.                      *)
(*                                                                         *)
(* Memory: counted from its end, the memory of a run holds the results of  *)
(* its last thought and then the thought, and what is trimmed is at the    *)
(* other end.  A thought with as many calls as are shown is left out: the  *)
(* code sets no bound, and its prompt begins in the middle of the results. *)
(*                                                                         *)
(* Router: a failure that trips a breaker is a call less that is pending,  *)
(* and while the breaker is open no route adds one.  A count and what is   *)
(* still pending together therefore stay below a bound, which the count    *)
(* alone does not: it grows while the breaker is open.                     *)
(***************************************************************************)
EXTENDS AgentRuns, ModelRouter, FiniteSetTheorems, TLAPS

----------------------------------------------------------------------------
(* List comprehensions.                                                    *)

\* The indices that AtIndices reads, in the order in which it reads them.
Chosen(K) == [n \in 1 .. Cardinality(K) |-> CHOOSE i \in K : Rank(K, i) = n]

\* The ranks of a finite set of indices are 1, 2, ... in the order of the indices.
LEMMA RankFacts ==
    ASSUME NEW K \in SUBSET Int, IsFiniteSet(K)
    PROVE  /\ Cardinality(K) \in Nat
           /\ \A i \in K : Rank(K, i) \in 1 .. Cardinality(K)
           /\ \A i, j \in K : i < j => Rank(K, i) < Rank(K, j)
           /\ \A n \in 1 .. Cardinality(K) : \E i \in K : Rank(K, i) = n
  <1> DEFINE Below(i) == {j \in K : j <= i}
             N == Cardinality(K)
             R == [i \in K |-> Rank(K, i)]
  <1>1. N \in Nat
    BY FS_CardinalityType
  <1>2. \A i \in K : IsFiniteSet(Below(i)) /\ Cardinality(Below(i)) \in Nat
                     /\ Cardinality(Below(i)) <= N
    <2>1. TAKE i \in K
    <2>2. Below(i) \in SUBSET K
      OBVIOUS
    <2> QED BY <2>2, FS_Subset, FS_CardinalityType
  <1>3. \A i, j \in K : i < j => Cardinality(Below(i)) < Cardinality(Below(j))
    <2>1. SUFFICES ASSUME NEW i \in K, NEW j \in K, i < j
                   PROVE  Cardinality(Below(i)) < Cardinality(Below(j))
      OBVIOUS
    <2>2. Below(i) \in SUBSET Below(j) /\ j \in Below(j) /\ j \notin Below(i)
      <3>1. i \in Int /\ j \in Int /\ \A k \in K : k \in Int
        OBVIOUS
      <3>2. j \in Below(j) /\ j \notin Below(i)
        BY <2>1, <3>1
      <3>3. \A k \in K : k <= i => k <= j
        BY <2>1, <3>1
      <3> QED BY <3>2, <3>3
    <2>3. Cardinality(Below(i)) <= Cardinality(Below(j))
          /\ Cardinality(Below(j)) # Cardinality(Below(i))
      BY <1>2, <2>2, FS_Subset
    <2> QED BY <1>2, <2>3
  <1>4. \A i \in K : Cardinality(Below(i)) >= 1
    <2>1. TAKE i \in K
    <2>2. i \in Below(i)
      OBVIOUS
    <2>3. Cardinality(Below(i)) # 0
      BY <1>2, <2>2, FS_EmptySet
    <2> QED BY <1>2, <2>3
  <1>5. \A i \in K : R[i] = Rank(K, i) /\ Rank(K, i) = Cardinality(Below(i))
    BY DEF Rank
  <1>6. \A i \in K : Rank(K, i) \in 1 .. N
    <2> HIDE DEF Below, N, R
    <2> QED BY <1>1, <1>2, <1>4, <1>5
  <1>7. \A i, j \in K : i < j => Rank(K, i) < Rank(K, j)
    BY <1>3, <1>5
  <1>8. R \in Injection(K, 1 .. N)
    <2>1. R \in [K -> 1 .. N]
      BY <1>6
    <2>2. \A i, j \in K : R[i] = R[j] => i = j
      <3> SUFFICES ASSUME NEW i \in K, NEW j \in K, R[i] = R[j], i # j
                   PROVE  FALSE
        OBVIOUS
      <3>1. i < j \/ j < i
        OBVIOUS
      <3>2. R[i] < R[j] \/ R[j] < R[i]
        BY <1>5, <1>7, <3>1
      <3>3. R[i] \in Int /\ R[j] \in Int
        BY <2>1, <1>1
      <3> HIDE DEF R
      <3> QED BY <3>2, <3>3
    <2> QED BY <2>1, <2>2 DEF Injection, IsInjective
  <1>9. R \in Surjection(K, 1 .. N)
    <2>1. IsFiniteSet(1 .. N) /\ Cardinality(1 .. N) = N
      <3> HIDE DEF N
      <3> QED BY <1>1, FS_Interval
    <2> HIDE DEF R
    <2> QED BY <1>8, <2>1, FS_Injection
  <1>10. \A n \in 1 .. N : \E i \in K : R[i] = n
    BY <1>9 DEF Surjection
  <1> QED BY <1>1, <1>5, <1>6, <1>7, <1>10

\* The indices chosen are those of K, each once, in increasing order.
LEMMA ChosenFacts ==
    ASSUME NEW K \in SUBSET Int, IsFiniteSet(K)
    PROVE  /\ Cardinality(K) \in Nat
           /\ Chosen(K) \in Bijection(1 .. Cardinality(K), K)
           /\ \A m, n \in 1 .. Cardinality(K) : m < n => Chosen(K)[m] < Chosen(K)[n]
           /\ \A i \in K : \E n \in 1 .. Cardinality(K) : Chosen(K)[n] = i
  <1> DEFINE N == Cardinality(K)
             h == Chosen(K)
  <1>1. N \in Nat
    BY RankFacts
  <1>2. \A n \in 1 .. N : h[n] \in K /\ Rank(K, h[n]) = n
    <2>1. TAKE n \in 1 .. N
    <2>2. \E i \in K : Rank(K, i) = n
      BY RankFacts
    <2>3. h[n] = CHOOSE i \in K : Rank(K, i) = n
      BY DEF Chosen
    <2> HIDE DEF h
    <2> QED BY <2>2, <2>3
  <1>3. h \in [1 .. N -> K]
    <2>1. h = [n \in 1 .. N |-> h[n]]
      BY DEF Chosen
    <2> HIDE DEF h
    <2> QED BY <1>2, <2>1
  <1>4. \A m, n \in 1 .. N : m < n => h[m] < h[n]
    <2>1. SUFFICES ASSUME NEW m \in 1 .. N, NEW n \in 1 .. N, m < n
                   PROVE  h[m] < h[n]
      OBVIOUS
    <2>2. h[m] \in K /\ h[n] \in K /\ Rank(K, h[m]) = m /\ Rank(K, h[n]) = n
      BY <1>2
    <2>3. CASE h[n] < h[m]
      <3>1. n < m
        <4> HIDE DEF h
        <4> QED BY <2>2, <2>3, RankFacts
      <3> QED BY <3>1, <2>1, <1>1
    <2>4. CASE h[n] = h[m]
      BY <2>4, <2>2, <2>1, <1>1
    <2>5. h[m] \in Int /\ h[n] \in Int
      <3> HIDE DEF h
      <3> QED BY <2>2
    <2> HIDE DEF h
    <2> QED BY <2>3, <2>4, <2>5
  <1>5. \A i \in K : \E n \in 1 .. N : h[n] = i
    <2>1. TAKE i \in K
    <2>2. Rank(K, i) \in 1 .. N
      BY RankFacts
    <2>3. Rank(K, h[Rank(K, i)]) = Rank(K, i) /\ h[Rank(K, i)] \in K
      BY <1>2, <2>2
    <2>4. h[Rank(K, i)] = i
      <3> DEFINE j == h[Rank(K, i)]
      <3>1. j \in K /\ Rank(K, j) = Rank(K, i) /\ Rank(K, i) \in Int
        BY <2>2, <2>3, <1>1
      <3>2. ~(i < j) /\ ~(j < i)
        <4> HIDE DEF j
        <4>1. i < j => Rank(K, i) < Rank(K, j)
          BY <3>1, RankFacts
        <4>2. j < i => Rank(K, j) < Rank(K, i)
          BY <3>1, RankFacts
        <4> QED BY <3>1, <4>1, <4>2
      <3>3. i \in Int /\ j \in Int
        <4> HIDE DEF j
        <4> QED BY <3>1
      <3>4. j = i
        <4> HIDE DEF j
        <4> QED BY <3>2, <3>3
      <3> QED BY <3>4
    <2> QED BY <2>2, <2>4
  <1>6. h \in Injection(1 .. N, K)
    <2>1. \A m, n \in 1 .. N : h[m] = h[n] => m = n
      <3> HIDE DEF h
      <3> QED BY <1>2
    <2> HIDE DEF h
    <2> QED BY <1>3, <2>1 DEF Injection, IsInjective
  <1>7. h \in Surjection(1 .. N, K)
    <2> HIDE DEF h, N
    <2> QED BY <1>3, <1>5 DEF Surjection
  <1>8. h \in Bijection(1 .. N, K)
    BY <1>6, <1>7 DEF Bijection
  <1> QED BY <1>1, <1>4, <1>5, <1>8
\* What a comprehension over a sequence returns: a sequence of its elements, one for
\* each index selected, in the order of the indices.
LEMMA AtIndicesFacts ==
    ASSUME NEW S, NEW s \in Seq(S), NEW K \in SUBSET DOMAIN s
    PROVE  /\ IsFiniteSet(K) /\ K \in SUBSET Int /\ Cardinality(K) \in Nat
           /\ AtIndices(s, K) \in Seq(S)
           /\ Len(AtIndices(s, K)) = Cardinality(K)
           /\ DOMAIN AtIndices(s, K) = 1 .. Cardinality(K)
           /\ \A n \in 1 .. Cardinality(K) :
                  Chosen(K)[n] \in K /\ AtIndices(s, K)[n] = s[Chosen(K)[n]]
  <1> DEFINE N == Cardinality(K)
             t == AtIndices(s, K)
  <1>1. DOMAIN s = 1 .. Len(s) /\ Len(s) \in Nat /\ \A i \in DOMAIN s : s[i] \in S
    OBVIOUS
  <1>2. IsFiniteSet(K) /\ K \in SUBSET Int
    <2>1. IsFiniteSet(1 .. Len(s))
      BY <1>1, FS_Interval
    <2> QED BY <1>1, <2>1, FS_Subset
  <1>3. N \in Nat /\ Chosen(K) \in [1 .. N -> K]
    <2>1. N \in Nat /\ Chosen(K) \in Bijection(1 .. N, K)
      BY <1>2, ChosenFacts
    <2> QED BY <2>1 DEF Bijection, Injection
  <1>4. \A n \in 1 .. N : Chosen(K)[n] = CHOOSE i \in K : Rank(K, i) = n
    BY DEF Chosen
  <1>5. t = [n \in 1 .. N |-> s[Chosen(K)[n]]]
    <2>1. \A n \in 1 .. N : s[CHOOSE i \in K : Rank(K, i) = n] = s[Chosen(K)[n]]
      BY <1>4
    <2>2. t = [n \in 1 .. N |-> s[CHOOSE i \in K : Rank(K, i) = n]]
      BY DEF AtIndices
    <2> HIDE DEF t, N
    <2> QED BY <2>1, <2>2
  <1>6. \A n \in 1 .. N : Chosen(K)[n] \in K /\ s[Chosen(K)[n]] \in S
    BY <1>1, <1>3
  <1> HIDE DEF t, N
  <1>7. t \in [1 .. N -> S]
    BY <1>5, <1>6
  <1>8. t \in Seq(S) /\ Len(t) = N /\ DOMAIN t = 1 .. N
    BY <1>3, <1>7
  <1>9. \A n \in 1 .. N : Chosen(K)[n] \in K /\ t[n] = s[Chosen(K)[n]]
    BY <1>5, <1>6
  <1> QED BY <1>2, <1>3, <1>8, <1>9 DEF t, N

\* Whatever was selected is found in the result.
LEMMA SelectedIsThere ==
    ASSUME NEW S, NEW s \in Seq(S), NEW K \in SUBSET DOMAIN s, NEW i \in K
    PROVE  \E n \in 1 .. Cardinality(K) : AtIndices(s, K)[n] = s[i]
  <1>1. IsFiniteSet(K) /\ K \in SUBSET Int
    BY AtIndicesFacts
  <1>2. PICK n \in 1 .. Cardinality(K) : Chosen(K)[n] = i
    BY <1>1, ChosenFacts
  <1>3. AtIndices(s, K)[n] = s[Chosen(K)[n]]
    BY AtIndicesFacts
  <1> QED BY <1>2, <1>3

\* The result repeats an element only if the sequence does.
LEMMA SelectionIsInjective ==
    ASSUME NEW S, NEW s \in Seq(S), NEW K \in SUBSET DOMAIN s, IsInjective(s)
    PROVE  IsInjective(AtIndices(s, K))
  <1> DEFINE t == AtIndices(s, K)
  <1>1. IsFiniteSet(K) /\ K \in SUBSET Int
    BY AtIndicesFacts
  <1>2. Chosen(K) \in Injection(1 .. Cardinality(K), K)
    BY <1>1, ChosenFacts DEF Bijection
  <1>3. \A m, n \in 1 .. Cardinality(K) : Chosen(K)[m] = Chosen(K)[n] => m = n
    BY <1>2 DEF Injection, IsInjective
  <1>4. \A n \in 1 .. Cardinality(K) : Chosen(K)[n] \in K /\ t[n] = s[Chosen(K)[n]]
    BY AtIndicesFacts
  <1>5. DOMAIN t = 1 .. Cardinality(K)
    BY AtIndicesFacts
  <1> SUFFICES ASSUME NEW m \in DOMAIN t, NEW n \in DOMAIN t, t[m] = t[n]
               PROVE  m = n
    BY DEF IsInjective
  <1> HIDE DEF t
  <1>6. Chosen(K)[m] = Chosen(K)[n]
    BY <1>4, <1>5 DEF IsInjective
  <1> QED BY <1>3, <1>5, <1>6

----------------------------------------------------------------------------
(* The tools: what is counted against a limit is what was called.          *)

\* The number of times of a list that are later than x.
CountOver(s, x) == Cardinality({i \in DOMAIN s : s[i] > x})

\* Dropping the times of an earlier window changes no count that starts in this one.
LEMMA RecentCounts ==
    ASSUME NEW s \in Seq(Int), NEW clock \in Int, NEW x \in Int, x >= clock - Window
    PROVE  /\ Recent(s, clock) \in Seq(Int)
           /\ CountOver(Recent(s, clock), x) = CountOver(s, x)
           /\ CountOver(Recent(s, clock), x) <= Len(Recent(s, clock))
           /\ Len(Recent(s, clock)) \in Nat /\ CountOver(s, x) \in Nat
  <1> DEFINE K == {i \in DOMAIN s : s[i] > clock - Window}
             t == Recent(s, clock)
             A == {n \in DOMAIN t : t[n] > x}
             B == {i \in DOMAIN s : s[i] > x}
             h == Chosen(K)
             N == Cardinality(K)
             g == [n \in A |-> h[n]]
  <1>1. K \in SUBSET DOMAIN s
    OBVIOUS
  <1>2. t = AtIndices(s, K)
    BY DEF Recent
  <1>3. /\ IsFiniteSet(K) /\ K \in SUBSET Int /\ N \in Nat
        /\ t \in Seq(Int) /\ Len(t) = N /\ DOMAIN t = 1 .. N
        /\ \A n \in 1 .. N : h[n] \in K /\ t[n] = s[h[n]]
    <2> HIDE DEF K, t
    <2> QED BY <1>1, <1>2, AtIndicesFacts
  <1>4. B \in SUBSET K
    <2>1. \A i \in DOMAIN s : s[i] \in Int
      OBVIOUS
    <2> QED BY <2>1, ToolsAssumption
  <1>5. h \in Injection(1 .. N, K) /\ \A i \in K : \E n \in 1 .. N : h[n] = i
    <2> HIDE DEF K
    <2> QED BY <1>3, ChosenFacts DEF Bijection
  <1>6. \A m, n \in 1 .. N : h[m] = h[n] => m = n
    <2> HIDE DEF K, N, h
    <2> QED BY <1>5 DEF Injection, IsInjective
  <1>7. A \in SUBSET (1 .. N) /\ IsFiniteSet(A) /\ Cardinality(A) <= N
    <2>1. A \in SUBSET (1 .. N)
      BY <1>3
    <2>2. IsFiniteSet(1 .. N) /\ Cardinality(1 .. N) = N
      <3> HIDE DEF N
      <3> QED BY <1>3, FS_Interval
    <2> HIDE DEF A, N
    <2> QED BY <2>1, <2>2, FS_Subset
  <1>8. \A n \in 1 .. N : n \in A <=> h[n] \in B
    <2> HIDE DEF h, N, t
    <2>1. \A n \in 1 .. N : h[n] \in DOMAIN s
      BY <1>3
    <2> QED BY <1>3, <2>1
  <1>9. g \in [A -> B]
    <2> HIDE DEF h, N, B, A
    <2> QED BY <1>7, <1>8
  <1>10. \A m, n \in A : g[m] = g[n] => m = n
    <2> HIDE DEF h, N, B, A
    <2> QED BY <1>6, <1>7
  <1>11. \A i \in B : \E n \in A : g[n] = i
    <2> HIDE DEF h, N, B, A, K
    <2> QED BY <1>4, <1>5, <1>8
  <1>12. g \in Bijection(A, B)
    <2> HIDE DEF g, A, B
    <2> QED BY <1>9, <1>10, <1>11 DEF Bijection, Injection, Surjection, IsInjective
  <1>13. Cardinality(B) = Cardinality(A) /\ Cardinality(A) \in Nat
    <2> HIDE DEF g, A, B
    <2> QED BY <1>7, <1>12, FS_Bijection, FS_CardinalityType DEF ExistsBijection
  <1>14. CountOver(t, x) = Cardinality(A) /\ CountOver(s, x) = Cardinality(B)
    BY DEF CountOver
  <1> HIDE DEF A, B, t
  <1> QED BY <1>3, <1>7, <1>13, <1>14 DEF t

\* One more time counts once wherever it is later.
LEMMA AppendCounts ==
    ASSUME NEW s \in Seq(Int), NEW clock \in Int, NEW x \in Int
    PROVE  CountOver(Append(s, clock), x) =
               IF clock > x THEN CountOver(s, x) + 1 ELSE CountOver(s, x)
  <1> DEFINE A == {i \in DOMAIN s : s[i] > x}
             t == Append(s, clock)
             L == Len(s) + 1
  <1>1. /\ DOMAIN s = 1 .. Len(s) /\ Len(s) \in Nat /\ DOMAIN t = DOMAIN s \cup {L}
        /\ L \notin DOMAIN s /\ t[L] = clock /\ \A i \in DOMAIN s : t[i] = s[i]
    OBVIOUS
  <1>2. IsFiniteSet(A)
    <2>1. IsFiniteSet(1 .. Len(s))
      BY <1>1, FS_Interval
    <2>2. A \in SUBSET (1 .. Len(s))
      BY <1>1
    <2> QED BY <2>1, <2>2, FS_Subset
  <1>3. L \notin A
    BY <1>1
  <1>4. {i \in DOMAIN t : t[i] > x} = IF clock > x THEN A \cup {L} ELSE A
    <2> HIDE DEF t, L
    <2> QED BY <1>1
  <1> HIDE DEF A, L, t
  <1>5. Cardinality(A \cup {L}) = Cardinality(A) + 1
    BY <1>2, <1>3, FS_AddElement
  <1> QED BY <1>4, <1>5 DEF CountOver, A, t
----------------------------------------------------------------------------
(* What the runs of agents keep.                                           *)

Messages == {"objective", "thought", "result"} \X (0 .. MaxIterations)

\* The types, with those of the sequences; a run that asks its model or acts is
\* within its iterations, and no call is left that its thought did not make.
AgentTypes ==
    /\ TypeOK
    /\ memory \in [Agents -> Seq(Messages)]
    /\ stamps \in [Users -> [Tools -> Seq(Int)]]
    /\ used \in [Users -> [Tools -> Seq(Int)]]
    /\ \A a \in Agents :
           /\ pc[a] \in {"think", "act"} => iteration[a] \in 0 .. MaxIterations
           /\ Len(calls[a]) <= wanted[a]

\* No call is of the future.
CallsArePast ==
    \A u \in Users, t \in Tools : \A i \in DOMAIN used[u][t] : used[u][t][i] <= now

\* However a stretch of time that ends now is chosen within the window, the registry
\* has counted as many calls in it as the tool's function had.
CallsCounted ==
    \A u \in Users, t \in Tools, x \in Int :
        x >= now - Window => CountOver(used[u][t], x) = CountOver(stamps[u][t], x)

ToolInv == AgentTypes /\ CallsArePast /\ CallsCounted /\ ToolLimitHolds

\* The memory ends with a thought of iteration k and n results of its tools.
EndsWithTurn(m, n, k) ==
    /\ Len(m) > n
    /\ \A j \in 0 .. n : m[Len(m) - j] = IF j = n THEN <<"thought", k>> ELSE <<"result", k>>

ResultsSoFar(a) == IF pc[a] = "act" THEN wanted[a] - Len(calls[a]) ELSE wanted[a]

OnlyObjective == << <<"objective", 0>> >>

\* A run's memory ends with its last turn, so far as the turn has come, or is fresh;
\* unless the turn is longer than what a model is shown.
HasTurn(a) ==
    pc[a] \in {"top", "think", "act"} /\ wanted[a] < PromptWindow =>
        \/ memory[a] = OnlyObjective /\ pc[a] # "act"
        \/ \E k \in 0 .. MaxIterations :
               /\ EndsWithTurn(memory[a], ResultsSoFar(a), k)
               /\ pc[a] = "act" => k = iteration[a]

TurnKept == \A a \in Agents : HasTurn(a)

AgentInv == AgentTypes /\ TurnKept

----------------------------------------------------------------------------
(* Lemmas about the operators of AgentRuns.                                *)

LEMMA AgentBounds ==
    /\ MaxIterations \in Nat /\ PromptWindow \in Nat /\ MemoryLimit \in Nat
    /\ MaxCalls \in Nat /\ MaxTime \in Nat /\ Window \in Nat
    /\ PromptWindow >= 1 /\ MemoryLimit >= 1 /\ MaxIterations >= 1 /\ Window >= 1
  BY BoundsAssumption, ToolsAssumption

\* The last n elements, counted from the end.
LEMMA LastOfFacts ==
    ASSUME NEW S, NEW s \in Seq(S), NEW n \in Nat
    PROVE  /\ LastOf(s, n) \in Seq(S)
           /\ Len(LastOf(s, n)) = IF Len(s) <= n THEN Len(s) ELSE n
           /\ \A j \in 0 .. Len(LastOf(s, n)) - 1 :
                  LastOf(s, n)[Len(LastOf(s, n)) - j] = s[Len(s) - j]
  <1>1. CASE Len(s) <= n
    BY <1>1 DEF LastOf
  <1>2. CASE ~(Len(s) <= n)
    <2> DEFINE t == SubSeq(s, Len(s) - n + 1, Len(s))
    <2>1. LastOf(s, n) = t
      BY <1>2 DEF LastOf
    <2>2. Len(s) \in Nat /\ Len(s) - n + 1 \in 1 .. Len(s) + 1
      BY <1>2
    <2>3. t \in Seq(S) /\ Len(t) = n
      BY <2>2, <1>2
    <2>4. \A i \in 1 .. n : t[i] = s[Len(s) - n + i]
      BY <2>2, <1>2
    <2> HIDE DEF t
    <2>5. \A j \in 0 .. n - 1 : n - j \in 1 .. n /\ Len(s) - n + (n - j) = Len(s) - j
      BY <2>2
    <2> QED BY <1>2, <2>1, <2>3, <2>4, <2>5
  <1> QED BY <1>1, <1>2

LEMMA ThoughtFacts ==
    /\ \A c \in Thoughts : /\ c \in Seq(Tools \cup {Unknown})
                           /\ Len(c) \in 0 .. MaxCalls
                           /\ c # <<>> => /\ Len(c) > 0
                                          /\ Tail(c) \in Thoughts
                                          /\ Len(Tail(c)) = Len(c) - 1
    /\ <<>> \in Thoughts
  <1>1. \A c \in Thoughts : /\ c \in Seq(Tools \cup {Unknown})
                            /\ Len(c) \in 0 .. MaxCalls
    <2>1. TAKE c \in Thoughts
    <2>2. PICK n \in 0 .. MaxCalls : c \in [1 .. n -> Tools \cup {Unknown}]
      BY DEF Thoughts
    <2>3. n \in Nat
      BY <2>2, AgentBounds
    <2> QED BY <2>2, <2>3
  <1>2. \A c \in Seq(Tools \cup {Unknown}) : Len(c) <= MaxCalls => c \in Thoughts
    <2>1. SUFFICES ASSUME NEW c \in Seq(Tools \cup {Unknown}), Len(c) <= MaxCalls
                   PROVE  c \in Thoughts
      OBVIOUS
    <2>2. c \in [1 .. Len(c) -> Tools \cup {Unknown}] /\ Len(c) \in 0 .. MaxCalls
      BY <2>1, AgentBounds
    <2> QED BY <2>2 DEF Thoughts
  <1>3. \A c \in Thoughts : c # <<>> => /\ Len(c) > 0
                                        /\ Tail(c) \in Thoughts
                                        /\ Len(Tail(c)) = Len(c) - 1
    <2>1. SUFFICES ASSUME NEW c \in Thoughts, c # <<>>
                   PROVE  /\ Len(c) > 0
                          /\ Tail(c) \in Thoughts
                          /\ Len(Tail(c)) = Len(c) - 1
      OBVIOUS
    <2>2. c \in Seq(Tools \cup {Unknown}) /\ Len(c) \in 0 .. MaxCalls
      BY <1>1
    <2>3. Len(c) > 0 /\ Tail(c) \in Seq(Tools \cup {Unknown}) /\ Len(Tail(c)) = Len(c) - 1
      BY <2>1, <2>2
    <2>4. Len(Tail(c)) <= MaxCalls
      BY <2>2, <2>3, AgentBounds
    <2> QED BY <1>2, <2>3, <2>4
  <1>4. <<>> \in Thoughts
    <2> DEFINE Names == Tools \cup {Unknown}
    <2> HIDE DEF Names
    <2>1. <<>> \in Seq(Names)
      OBVIOUS
    <2>2. Len(<<>>) = 0 /\ 0 <= MaxCalls
      BY AgentBounds
    <2> QED BY <1>2, <2>1, <2>2 DEF Names
  <1> QED BY <1>1, <1>3, <1>4

\* A message is remembered at the end, and what came before it is still there as far
\* as the memory reaches.
LEMMA RememberFacts ==
    ASSUME NEW m \in Seq(Messages), NEW message \in Messages
    PROVE  /\ Remember(m, message) \in Seq(Messages)
           /\ Len(Remember(m, message)) \in 1 .. MemoryLimit
           /\ Remember(m, message)[Len(Remember(m, message))] = message
           /\ \A n \in 0 .. MemoryLimit - 2, k \in Nat :
                  EndsWithTurn(m, n, k) /\ message = <<"result", k>>
                      => EndsWithTurn(Remember(m, message), n + 1, k)
  <1> DEFINE s == Append(m, message)
             t == Remember(m, message)
  <1>1. /\ s \in Seq(Messages) /\ Len(s) = Len(m) + 1 /\ Len(m) \in Nat
        /\ s[Len(s)] = message /\ \A i \in 1 .. Len(m) : s[i] = m[i]
    OBVIOUS
  <1>2. t = LastOf(s, MemoryLimit)
    BY DEF Remember
  <1> HIDE DEF s, t
  <1>3. /\ t \in Seq(Messages)
        /\ Len(t) = IF Len(s) <= MemoryLimit THEN Len(s) ELSE MemoryLimit
        /\ \A j \in 0 .. Len(t) - 1 : t[Len(t) - j] = s[Len(s) - j]
    BY <1>1, <1>2, LastOfFacts, AgentBounds
  <1>4. Len(t) \in 1 .. MemoryLimit
    BY <1>1, <1>3, AgentBounds
  <1>5. t[Len(t)] = message
    <2>1. 0 \in 0 .. Len(t) - 1 /\ Len(t) - 0 = Len(t) /\ Len(s) - 0 = Len(s)
      BY <1>1, <1>4, AgentBounds
    <2> QED BY <1>1, <1>3, <2>1
  <1>6. ASSUME NEW n \in 0 .. MemoryLimit - 2, NEW k \in Nat,
               EndsWithTurn(m, n, k), message = <<"result", k>>
        PROVE  EndsWithTurn(t, n + 1, k)
    <2>1. n \in Nat /\ n + 2 <= MemoryLimit /\ Len(m) > n
      BY <1>6, AgentBounds DEF EndsWithTurn
    <2>2. Len(t) > n + 1
      BY <1>1, <1>3, <2>1, AgentBounds
    <2>3. ASSUME NEW j \in 0 .. n + 1
          PROVE  t[Len(t) - j] = IF j = n + 1 THEN <<"thought", k>> ELSE <<"result", k>>
      <3>1. t[Len(t) - j] = s[Len(s) - j]
        <4>1. Len(t) \in Nat
          BY <1>4, AgentBounds
        <4>2. j \in 0 .. Len(t) - 1
          BY <2>1, <2>2, <4>1
        <4> QED BY <1>3, <4>2
      <3>2. CASE j = 0
        <4>1. j # n + 1 /\ Len(s) - j = Len(s)
          BY <1>1, <2>1, <3>2
        <4> QED BY <1>1, <1>6, <3>1, <4>1
      <3>3. CASE j # 0
        <4>1. j - 1 \in 0 .. n /\ Len(s) - j = Len(m) - (j - 1)
          BY <1>1, <2>1, <3>3
        <4>2. Len(m) - (j - 1) \in 1 .. Len(m)
          BY <1>1, <2>1, <4>1
        <4>3. s[Len(s) - j] = m[Len(m) - (j - 1)]
          BY <1>1, <4>1, <4>2
        <4>4. m[Len(m) - (j - 1)] = IF j - 1 = n THEN <<"thought", k>> ELSE <<"result", k>>
          BY <1>6, <4>1 DEF EndsWithTurn
        <4>5. j - 1 = n <=> j = n + 1
          BY <2>1
        <4> QED BY <3>1, <4>3, <4>4, <4>5
      <3> QED BY <3>2, <3>3
    <2> QED BY <2>2, <2>3 DEF EndsWithTurn
  <1> QED BY <1>3, <1>4, <1>5, <1>6 DEF t
----------------------------------------------------------------------------
(* Types.                                                                  *)

LEMMA ExecuteTypes ==
    ASSUME AgentTypes, NEW u \in Users, NEW t \in Tools, Execute(u, t, now)
    PROVE  stamps' \in [Users -> [Tools -> Seq(Int)]]
  <1> DEFINE recent == Recent(stamps[u][t], now)
             counted == IF HasRoom(t, recent) THEN Append(recent, now) ELSE recent
  <1>1. now \in Int /\ stamps \in [Users -> [Tools -> Seq(Int)]]
    BY AgentBounds DEF AgentTypes, TypeOK
  <1>2. stamps[u] \in [Tools -> Seq(Int)] /\ stamps[u][t] \in Seq(Int)
    BY <1>1
  <1>3. now - Window \in Int /\ now - Window >= now - Window
    BY <1>1, AgentBounds
  <1>4. recent \in Seq(Int)
    BY <1>1, <1>2, <1>3, RecentCounts
  <1>5. counted \in Seq(Int)
    <2> HIDE DEF recent
    <2> QED BY <1>1, <1>4
  <1>6. stamps' = [stamps EXCEPT ![u] = [stamps[u] EXCEPT ![t] = counted]]
    BY DEF Execute, Counted
  <1> HIDE DEF counted
  <1>7. [stamps[u] EXCEPT ![t] = counted] \in [Tools -> Seq(Int)]
    BY <1>2, <1>5
  <1> QED BY <1>1, <1>6, <1>7

LEMMA AgentTypesInit == Init => AgentTypes
  <1> SUFFICES ASSUME Init PROVE AgentTypes
    OBVIOUS
  <1> USE DEF Init
  <1>1. NoStamps \in [Users -> [Tools -> Seq(Int)]]
    <2>1. <<>> \in Seq(Int)
      OBVIOUS
    <2> QED BY <2>1 DEF NoStamps
  <1>2. memory \in [Agents -> Seq(Messages)]
    OBVIOUS
  <1>3. \A a \in Agents : Len(memory[a]) <= MemoryLimit /\ Len(calls[a]) <= wanted[a]
                          /\ pc[a] = "idle"
    BY AgentBounds
  <1>4. calls \in [Agents -> Thoughts]
    BY ThoughtFacts
  <1>5. TypeOK
    BY <1>3, <1>4, AgentBounds DEF TypeOK
  <1> QED BY <1>1, <1>2, <1>3, <1>5 DEF AgentTypes

\* A run that ends leaves nothing of itself but its status.
LEMMA EndTypes ==
    ASSUME AgentTypes, NEW a \in Agents,
           NEW how \in {"completed", "failed", "timeout", "cancelled"},
           End(a, how), UNCHANGED <<now, cancelled, stamps, used>>
    PROVE  AgentTypes'
  <1> USE DEF AgentTypes, TypeOK, End, Goto, Leaves
  <1>1. calls' \in [Agents -> Thoughts]
    BY ThoughtFacts
  <1>2. \A b \in Agents : Len(memory'[b]) <= MemoryLimit
    BY AgentBounds
  <1>3. memory' \in [Agents -> Seq(Messages)]
    BY AgentBounds
  <1>4. \A b \in Agents : /\ pc'[b] \in {"think", "act"} => iteration'[b] \in 0 .. MaxIterations
                          /\ Len(calls'[b]) <= wanted'[b]
    <2>1. TAKE b \in Agents
    <2>2. CASE b = a
      BY <2>2
    <2>3. CASE b # a
      BY <2>3
    <2> QED BY <2>2, <2>3
  <1>5. now' \in 0 .. MaxTime /\ loop' \in Agents \cup {Nobody, Others}
    OBVIOUS
  <1>6. /\ iteration' \in [Agents -> 0 .. MaxIterations + 1]
        /\ started' \in [Agents -> 0 .. MaxTime] /\ asked' \in [Agents -> 0 .. MaxTime]
        /\ wanted' \in [Agents -> 0 .. MaxCalls]
    <2>1. 0 \in 0 .. MaxIterations + 1 /\ 0 \in 0 .. MaxTime /\ 0 \in 0 .. MaxCalls
      BY AgentBounds
    <2>2. iteration' \in [Agents -> 0 .. MaxIterations + 1]
      BY <2>1
    <2>3. started' \in [Agents -> 0 .. MaxTime] /\ asked' \in [Agents -> 0 .. MaxTime]
      BY <2>1
    <2>4. wanted' \in [Agents -> 0 .. MaxCalls]
      BY <2>1
    <2> QED BY <2>2, <2>3, <2>4
  <1>7. pc' \in [Agents -> {"idle", "scheduled", "top", "think", "act", "ended"}]
    OBVIOUS
  <1>8. /\ status' \in [Agents -> {"pending", "running", "completed", "failed", "timeout",
                                   "cancelled"}]
        /\ client' \in [Agents -> {"none", "waits", "completed", "failed", "timeout",
                                   "cancelled", "late"}]
        /\ cancelled' \subseteq Orchestrated /\ active' \subseteq Orchestrated
    OBVIOUS
  <1>9. stamps' \in [Users -> [Tools -> Seq(Int)]] /\ used' \in [Users -> [Tools -> Seq(Int)]]
    OBVIOUS
  <1> QED BY <1>1, <1>2, <1>3, <1>4, <1>5, <1>6, <1>7, <1>8, <1>9
LEMMA AgentTypesStep ==
    ASSUME AgentTypes, [Next]_vars
    PROVE  AgentTypes'
  <1> USE DEF AgentTypes, TypeOK
  <1>1. ASSUME UNCHANGED vars PROVE AgentTypes'
    BY <1>1 DEF vars, run
  <1>2. ASSUME Tick PROVE AgentTypes'
    <2>1. now' \in 0 .. MaxTime
      BY <1>2, AgentBounds DEF Tick
    <2> QED BY <1>2, <2>1 DEF Tick, run
  <1>13. ASSUME OthersTake \/ OthersLetGo PROVE AgentTypes'
    BY <1>13 DEF OthersTake, OthersLetGo, run
  <1>3. ASSUME NEW a \in Agents, Ask(a) PROVE AgentTypes'
    <2>1. \A b \in Agents : pc'[b] \in {"think", "act"} => iteration'[b] \in 0 .. MaxIterations
      BY <1>3 DEF Ask, Goto
    <2> QED BY <1>3, <2>1 DEF Ask, Goto
  <1>4. ASSUME NEW a \in Agents, Begin(a) PROVE AgentTypes'
    <2> DEFINE fresh == Remember(<<>>, <<"objective", 0>>)
    <2>1. fresh \in Seq(Messages) /\ Len(fresh) <= MemoryLimit
      <3>1. <<>> \in Seq(Messages) /\ <<"objective", 0>> \in Messages
        <4>1. <<>> \in Seq(Messages)
          OBVIOUS
        <4>2. 0 \in 0 .. MaxIterations
          BY AgentBounds
        <4>3. <<"objective", 0>> \in Messages
          BY <4>2 DEF Messages
        <4> QED BY <4>1, <4>3
      <3>2. fresh \in Seq(Messages) /\ Len(fresh) \in 1 .. MemoryLimit
        BY <3>1, RememberFacts
      <3> HIDE DEF fresh
      <3> QED BY <3>2, AgentBounds
    <2>2. \A b \in Agents : memory'[b] = IF b = a THEN fresh ELSE memory[b]
      BY <1>4 DEF Begin
    <2>3. memory' = [memory EXCEPT ![a] = fresh]
      BY <1>4 DEF Begin
    <2> HIDE DEF fresh
    <2>4. memory' \in [Agents -> Seq(Messages)] /\ \A b \in Agents : Len(memory'[b]) <= MemoryLimit
      BY <2>1, <2>2, <2>3
    <2>5. iteration' \in [Agents -> 0 .. MaxIterations + 1]
      BY <1>4, AgentBounds DEF Begin
    <2>6. \A b \in Agents : pc'[b] \in {"think", "act"} => iteration'[b] \in 0 .. MaxIterations
      BY <1>4 DEF Begin, Goto
    <2> QED BY <1>4, <2>4, <2>5, <2>6 DEF Begin, Goto
  <1>5. ASSUME NEW a \in Agents, Top(a) PROVE AgentTypes'
    <2>1. CASE /\ iteration[a] <= MaxIterations /\ Verdict(a) = "go" /\ Goto(a, "think")
               /\ loop' = Nobody /\ UNCHANGED <<run, status, active, client>>
      <3>1. iteration[a] \in 0 .. MaxIterations
        BY <2>1, AgentBounds
      <3>2. \A b \in Agents : pc'[b] \in {"think", "act"} => iteration'[b] \in 0 .. MaxIterations
        BY <2>1, <3>1 DEF Goto, run
      <3> QED BY <1>5, <2>1, <3>2 DEF Top, Goto, run
    <2>2. CASE \E how \in {"failed", "timeout", "cancelled"} : End(a, how)
      <3>1. UNCHANGED <<now, cancelled, stamps, used>>
        BY <1>5 DEF Top
      <3>2. PICK how \in {"completed", "failed", "timeout", "cancelled"} : End(a, how)
        BY <2>2
      <3> QED BY <3>1, <3>2, EndTypes
    <2>3. Verdict(a) \in {"go", "timeout", "cancelled"}
      BY DEF Verdict
    <2> QED BY <1>5, <2>1, <2>2, <2>3 DEF Top
  <1>6. ASSUME NEW a \in Agents, Think(a) PROVE AgentTypes'
    <2>1. PICK thought \in Thoughts : /\ calls' = [calls EXCEPT ![a] = thought]
                                      /\ wanted' = [wanted EXCEPT ![a] = Len(thought)]
      BY <1>6 DEF Think
    <2>2. /\ calls' \in [Agents -> Thoughts] /\ wanted' \in [Agents -> 0 .. MaxCalls]
          /\ \A b \in Agents : Len(calls'[b]) <= wanted'[b]
      <3>1. Len(thought) \in 0 .. MaxCalls /\ Len(thought) \in Int
        <4>1. MaxCalls \in Nat
          BY AgentBounds
        <4>2. Len(thought) \in 0 .. MaxCalls
          BY ThoughtFacts
        <4> HIDE DEF AgentTypes, TypeOK
        <4> QED BY <4>1, <4>2
      <3>2. \A b \in Agents : /\ calls'[b] = IF b = a THEN thought ELSE calls[b]
                              /\ wanted'[b] = IF b = a THEN Len(thought) ELSE wanted[b]
        BY <2>1
      <3> QED BY <2>1, <3>1, <3>2
    <2> DEFINE m == Remember(memory[a], <<"thought", iteration[a]>>)
    <2>3. m \in Seq(Messages) /\ Len(m) <= MemoryLimit
      <3>1. iteration[a] \in 0 .. MaxIterations
        BY <1>6 DEF Think
      <3>2. memory[a] \in Seq(Messages) /\ <<"thought", iteration[a]>> \in Messages
        BY <3>1 DEF Messages
      <3>3. m \in Seq(Messages) /\ Len(m) \in 1 .. MemoryLimit
        BY <3>2, RememberFacts
      <3> HIDE DEF m
      <3> QED BY <3>3, AgentBounds
    <2>4. memory' = [memory EXCEPT ![a] = m]
      BY <1>6 DEF Think
    <2> HIDE DEF m
    <2>5. memory' \in [Agents -> Seq(Messages)] /\ \A b \in Agents : Len(memory'[b]) <= MemoryLimit
      BY <2>3, <2>4
    <2>6. \A b \in Agents : pc'[b] \in {"think", "act"} => iteration'[b] \in 0 .. MaxIterations
      BY <1>6 DEF Think, Goto
    <2> QED BY <1>6, <2>2, <2>5, <2>6 DEF Think, Goto
  <1>7. ASSUME NEW a \in Agents, ThinkTimesOut(a) PROVE AgentTypes'
    <2>1. iteration[a] \in 0 .. MaxIterations
      BY <1>7 DEF ThinkTimesOut
    <2>2. iteration' \in [Agents -> 0 .. MaxIterations + 1]
      BY <1>7, <2>1, AgentBounds DEF ThinkTimesOut
    <2>3. \A b \in Agents : pc'[b] \in {"think", "act"} => iteration'[b] \in 0 .. MaxIterations
      BY <1>7 DEF ThinkTimesOut, Goto
    <2> QED BY <1>7, <2>2, <2>3 DEF ThinkTimesOut, Goto
  <1>8. ASSUME NEW a \in Agents, ThinkFails(a) PROVE AgentTypes'
    BY <1>8, EndTypes DEF ThinkFails
  <1>9. ASSUME NEW a \in Agents, CallTool(a) PROVE AgentTypes'
    <2> DEFINE m == Remember(memory[a], <<"result", iteration[a]>>)
               u == UserOf[a]
               t == Head(calls[a])
    <2>1. m \in Seq(Messages) /\ Len(m) <= MemoryLimit
      <3>1. iteration[a] \in 0 .. MaxIterations
        BY <1>9 DEF CallTool
      <3>2. memory[a] \in Seq(Messages) /\ <<"result", iteration[a]>> \in Messages
        BY <3>1 DEF Messages
      <3>3. m \in Seq(Messages) /\ Len(m) \in 1 .. MemoryLimit
        BY <3>2, RememberFacts
      <3> HIDE DEF m
      <3> QED BY <3>3, AgentBounds
    <2>2. memory' = [memory EXCEPT ![a] = m]
      BY <1>9 DEF CallTool
    <2>3. memory' \in [Agents -> Seq(Messages)] /\ \A b \in Agents : Len(memory'[b]) <= MemoryLimit
      <3> HIDE DEF m
      <3> QED BY <2>1, <2>2
    <2>4. calls' \in [Agents -> Thoughts] /\ \A b \in Agents : Len(calls'[b]) <= wanted'[b]
      <3>1. calls[a] \in Thoughts /\ calls[a] # <<>> /\ wanted' = wanted
            /\ calls' = [calls EXCEPT ![a] = Tail(calls[a])]
        BY <1>9 DEF CallTool
      <3>2. Tail(calls[a]) \in Thoughts /\ Len(Tail(calls[a])) = Len(calls[a]) - 1
            /\ Len(calls[a]) \in Int
        BY <3>1, ThoughtFacts, AgentBounds
      <3>3. wanted[a] \in Int /\ Len(calls[a]) <= wanted[a]
        BY AgentBounds
      <3>4. Len(Tail(calls[a])) <= wanted[a]
        BY <3>2, <3>3
      <3>5. \A b \in Agents : calls'[b] = IF b = a THEN Tail(calls[a]) ELSE calls[b]
        BY <3>1
      <3> QED BY <3>1, <3>2, <3>4, <3>5
    <2>5. stamps' \in [Users -> [Tools -> Seq(Int)]] /\ used' \in [Users -> [Tools -> Seq(Int)]]
      <3>1. CASE t \in Allowed[a]
        <4>1. u \in Users /\ t \in Tools
          BY <3>1, AgentsAssumption
        <4>2. /\ Execute(u, t, now)
              /\ used' = IF Runs(u, t, now) THEN [used EXCEPT ![u][t] = Append(@, now)]
                         ELSE used
          BY <1>9, <3>1 DEF CallTool
        <4>3. stamps' \in [Users -> [Tools -> Seq(Int)]]
          BY <4>1, <4>2, ExecuteTypes
        <4>4. Append(used[u][t], now) \in Seq(Int)
          <5>1. used[u][t] \in Seq(Int) /\ now \in Int
            BY <4>1, AgentBounds
          <5> QED BY <5>1
        <4>5. [used EXCEPT ![u][t] = Append(@, now)] \in [Users -> [Tools -> Seq(Int)]]
          <5> HIDE DEF u, t
          <5> QED BY <4>1, <4>4
        <4> QED BY <4>2, <4>3, <4>5
      <3>2. CASE t \notin Allowed[a]
        BY <1>9, <3>2 DEF CallTool
      <3> QED BY <3>1, <3>2
    <2> HIDE DEF m, u, t
    <2> QED BY <1>9, <2>3, <2>4, <2>5 DEF CallTool
  <1>10. ASSUME NEW a \in Agents, EndIteration(a) PROVE AgentTypes'
    <2>1. CASE End(a, "completed")
      BY <1>10, <2>1, EndTypes DEF EndIteration
    <2>2. CASE /\ iteration' = [iteration EXCEPT ![a] = @ + 1]
               /\ Goto(a, "top")
               /\ UNCHANGED <<loop, asked, started, memory, calls, wanted, status, active, client>>
      <3>1. iteration[a] \in 0 .. MaxIterations
        BY <1>10 DEF EndIteration
      <3>2. iteration' \in [Agents -> 0 .. MaxIterations + 1]
        <4>1. iteration[a] + 1 \in 0 .. MaxIterations + 1
          <5> HIDE DEF AgentTypes, TypeOK
          <5> QED BY <3>1, AgentBounds
        <4> QED BY <2>2, <4>1
      <3>3. \A b \in Agents : pc'[b] \in {"think", "act"} => iteration'[b] \in 0 .. MaxIterations
        BY <2>2 DEF Goto
      <3> QED BY <1>10, <2>2, <3>2, <3>3 DEF EndIteration, Goto
    <2> QED BY <1>10, <2>1, <2>2 DEF EndIteration
  <1>11. ASSUME NEW a \in Agents, GiveUp(a) PROVE AgentTypes'
    <2>1. asked' \in [Agents -> 0 .. MaxTime]
      BY <1>11, AgentBounds DEF GiveUp
    <2>2. client' \in [Agents -> {"none", "waits", "completed", "failed", "timeout",
                                  "cancelled", "late"}]
      BY <1>11 DEF GiveUp
    <2> QED BY <1>11, <2>1, <2>2 DEF GiveUp
  <1>12. ASSUME NEW a \in Agents, Cancel(a) PROVE AgentTypes'
    BY <1>12 DEF Cancel, run
  <1> QED BY <1>1, <1>2, <1>3, <1>4, <1>5, <1>6, <1>7, <1>8, <1>9, <1>10, <1>11, <1>12,
             <1>13 DEF Next, Step, Resume
----------------------------------------------------------------------------
(* The limit of a tool.                                                    *)

LEMMA ToolInvInit == Init => ToolInv
  <1> SUFFICES ASSUME Init PROVE ToolInv
    OBVIOUS
  <1>1. \A u \in Users, t \in Tools : stamps[u][t] = <<>> /\ used[u][t] = <<>>
    BY DEF Init, NoStamps
  <1>2. AgentTypes
    BY AgentTypesInit
  <1>3. CallsArePast
    BY <1>1 DEF CallsArePast
  <1>4. CallsCounted
    BY <1>1 DEF CallsCounted
  <1>5. ToolLimitHolds
    <2>1. SUFFICES ASSUME NEW u \in Users, NEW t \in Tools, NEW from \in 0 .. MaxTime
                   PROVE  Cardinality({i \in DOMAIN used[u][t] :
                              used[u][t][i] >= from /\ used[u][t][i] < from + Window})
                              <= RateLimit[t]
      BY DEF ToolLimitHolds
    <2> DEFINE A == {i \in DOMAIN used[u][t] :
                        used[u][t][i] >= from /\ used[u][t][i] < from + Window}
    <2>2. A = {}
      BY <1>1
    <2>3. RateLimit[t] \in Nat
      BY ToolsAssumption
    <2>4. Cardinality({}) = 0
      BY FS_EmptySet
    <2>5. Cardinality(A) <= RateLimit[t]
      <3> HIDE DEF A
      <3> QED BY <2>2, <2>3, <2>4
    <2> QED BY <2>5
  <1> QED BY <1>2, <1>3, <1>4, <1>5 DEF ToolInv

\* A call that the registry lets through is counted and is within the limit; whatever
\* it does with a call, the registry forgets no call of the window.
LEMMA ExecuteCounts ==
    ASSUME ToolInv, NEW u \in Users, NEW t \in Tools, Execute(u, t, now),
           used' = IF Runs(u, t, now) THEN [used EXCEPT ![u][t] = Append(@, now)] ELSE used,
           now' = now
    PROVE  CallsArePast' /\ CallsCounted' /\ ToolLimitHolds'
  <1> DEFINE before == stamps[u][t]
             recent == Recent(before, now)
             past == used[u][t]
  <1>1. /\ now \in 0 .. MaxTime /\ now \in Int
        /\ before \in Seq(Int) /\ past \in Seq(Int)
        /\ RateLimit[t] \in Nat
    BY AgentBounds, ToolsAssumption DEF ToolInv, AgentTypes, TypeOK
  <1>2. \A i \in DOMAIN past : past[i] \in Int /\ past[i] <= now
    BY <1>1 DEF ToolInv, CallsArePast
  <1>3. \A x \in Int : x >= now - Window =>
            /\ CountOver(past, x) = CountOver(before, x)
            /\ CountOver(recent, x) = CountOver(before, x)
            /\ CountOver(recent, x) <= Len(recent)
            /\ CountOver(before, x) \in Nat
            /\ recent \in Seq(Int) /\ Len(recent) \in Nat
    <2>1. TAKE x \in Int
    <2>2. HAVE x >= now - Window
    <2>3. CountOver(past, x) = CountOver(before, x)
      BY <2>2 DEF ToolInv, CallsCounted
    <2> HIDE DEF before, past
    <2> QED BY <1>1, <2>2, <2>3, RecentCounts
  <1>4. now - Window \in Int /\ now - Window >= now - Window
    BY <1>1, AgentBounds
  <1>5. recent \in Seq(Int) /\ Len(recent) \in Nat
    BY <1>3, <1>4
  <1>6. stamps \in [Users -> [Tools -> Seq(Int)]] /\ used \in [Users -> [Tools -> Seq(Int)]]
    BY DEF ToolInv, AgentTypes
  <1>7. stamps' = [stamps EXCEPT ![u][t] =
                       IF HasRoom(t, recent) THEN Append(recent, now) ELSE recent]
    BY DEF Execute, Counted
  <1>8. \A v \in Users, w \in Tools : v # u \/ w # t =>
            stamps'[v][w] = stamps[v][w] /\ used'[v][w] = used[v][w]
    <2> HIDE DEF recent
    <2> QED BY <1>6, <1>7
  <1>9. Runs(u, t, now) <=> HasRoom(t, recent)
    BY DEF Runs
  <1>10. CASE ~HasRoom(t, recent)
    <2>1. used' = used
      BY <1>9, <1>10
    <2>2. stamps'[u][t] = recent
      <3> HIDE DEF recent
      <3> QED BY <1>6, <1>7, <1>10
    <2>3. CallsArePast' /\ ToolLimitHolds'
      BY <2>1 DEF ToolInv, CallsArePast, ToolLimitHolds
    <2>4. CallsCounted'
      <3>1. SUFFICES ASSUME NEW v \in Users, NEW w \in Tools, NEW x \in Int,
                            x >= now - Window
                     PROVE  CountOver(used'[v][w], x) = CountOver(stamps'[v][w], x)
        BY DEF CallsCounted
      <3>2. CASE v = u /\ w = t
        BY <1>3, <2>1, <2>2, <3>1, <3>2
      <3>3. CASE ~(v = u /\ w = t)
        BY <1>8, <3>1, <3>3 DEF ToolInv, CallsCounted
      <3> QED BY <3>2, <3>3
    <2> QED BY <2>3, <2>4
  <1>11. CASE HasRoom(t, recent)
    <2>1. stamps'[u][t] = Append(recent, now)
      <3> HIDE DEF recent
      <3> QED BY <1>6, <1>7, <1>11
    <2>2. used'[u][t] = Append(past, now)
      <3>1. used' = [used EXCEPT ![u][t] = Append(@, now)]
        BY <1>9, <1>11
      <3> QED BY <1>6, <3>1
    <2>3. Len(recent) < RateLimit[t]
      BY <1>11 DEF HasRoom
    <2>4. /\ DOMAIN Append(past, now) = DOMAIN past \cup {Len(past) + 1}
          /\ Len(past) + 1 \notin DOMAIN past
          /\ Append(past, now)[Len(past) + 1] = now
          /\ \A i \in DOMAIN past : Append(past, now)[i] = past[i]
      <3> HIDE DEF past
      <3> QED BY <1>1
    <2>5. CallsArePast'
      <3>1. SUFFICES ASSUME NEW v \in Users, NEW w \in Tools, NEW i \in DOMAIN used'[v][w]
                     PROVE  used'[v][w][i] <= now
        BY DEF CallsArePast
      <3>2. CASE v = u /\ w = t
        <4>1. used'[v][w] = Append(past, now)
          BY <2>2, <3>2
        <4>2. i \in DOMAIN past \cup {Len(past) + 1}
          BY <2>4, <4>1
        <4> HIDE DEF past
        <4>3. CASE i \in DOMAIN past
          BY <1>2, <2>4, <4>1, <4>3
        <4>4. CASE i = Len(past) + 1
          BY <1>1, <2>4, <4>1, <4>4
        <4> QED BY <4>2, <4>3, <4>4
      <3>3. CASE ~(v = u /\ w = t)
        BY <1>8, <3>1, <3>3 DEF ToolInv, CallsArePast
      <3> QED BY <3>2, <3>3
    <2>6. CallsCounted'
      <3>1. SUFFICES ASSUME NEW v \in Users, NEW w \in Tools, NEW x \in Int,
                            x >= now - Window
                     PROVE  CountOver(used'[v][w], x) = CountOver(stamps'[v][w], x)
        BY DEF CallsCounted
      <3>2. CASE v = u /\ w = t
        <4>1. CountOver(past, x) = CountOver(recent, x)
          BY <1>3, <3>1
        <4>2. CountOver(Append(past, now), x) = CountOver(Append(recent, now), x)
          <5> HIDE DEF past, recent
          <5>1. CountOver(Append(past, now), x) =
                    IF now > x THEN CountOver(past, x) + 1 ELSE CountOver(past, x)
            BY <1>1, AppendCounts
          <5>2. CountOver(Append(recent, now), x) =
                    IF now > x THEN CountOver(recent, x) + 1 ELSE CountOver(recent, x)
            BY <1>1, <1>5, AppendCounts
          <5> QED BY <4>1, <5>1, <5>2
        <4> QED BY <2>1, <2>2, <3>2, <4>2
      <3>3. CASE ~(v = u /\ w = t)
        BY <1>8, <3>1, <3>3 DEF ToolInv, CallsCounted
      <3> QED BY <3>2, <3>3
    <2>7. ToolLimitHolds'
      <3>1. SUFFICES ASSUME NEW v \in Users, NEW w \in Tools, NEW from \in 0 .. MaxTime
                     PROVE  Cardinality({i \in DOMAIN used'[v][w] :
                                used'[v][w][i] >= from /\ used'[v][w][i] < from + Window})
                                <= RateLimit[w]
        BY DEF ToolLimitHolds
      <3>2. Cardinality({i \in DOMAIN used[v][w] :
                            used[v][w][i] >= from /\ used[v][w][i] < from + Window})
                <= RateLimit[w]
        BY DEF ToolInv, ToolLimitHolds
      <3>3. CASE ~(v = u /\ w = t)
        BY <1>8, <3>2, <3>3
      <3> DEFINE s == Append(past, now)
                 A == {i \in DOMAIN past : past[i] >= from /\ past[i] < from + Window}
                 B == {i \in DOMAIN s : s[i] >= from /\ s[i] < from + Window}
      <3>4. CASE v = u /\ w = t /\ ~(from <= now /\ now < from + Window)
        <4>1. B = A
          <5>1. from \in Int
            BY AgentBounds
          <5> HIDE DEF past
          <5> QED BY <1>1, <2>4, <3>4, <5>1
        <4> HIDE DEF s
        <4> QED BY <2>2, <3>2, <3>4, <4>1 DEF s
      <3>5. CASE v = u /\ w = t /\ from <= now /\ now < from + Window
        <4>1. from - 1 \in Int /\ from - 1 >= now - Window /\ now > from - 1
          <5>1. from \in Int /\ now \in Int /\ Window \in Int
            BY <1>1, AgentBounds
          <5> QED BY <3>5, <5>1
        <4>2. B = {i \in DOMAIN s : s[i] > from - 1}
          <5>1. \A i \in DOMAIN s : s[i] \in Int /\ s[i] <= now
            <6> HIDE DEF past
            <6> QED BY <1>1, <1>2, <2>4
          <5>2. from \in Int /\ Window \in Int
            BY AgentBounds
          <5> HIDE DEF s
          <5> QED BY <1>1, <3>5, <5>1, <5>2
        <4>3. Cardinality(B) = CountOver(s, from - 1)
          BY <4>2 DEF CountOver
        <4>4. CountOver(s, from - 1) = CountOver(past, from - 1) + 1
          <5> HIDE DEF past
          <5> QED BY <1>1, <4>1, AppendCounts
        <4>5. CountOver(past, from - 1) <= Len(recent) /\ CountOver(past, from - 1) \in Nat
          BY <1>3, <4>1
        <4>6. Cardinality(B) <= RateLimit[t]
          <5> HIDE DEF B, s, past, recent
          <5> QED BY <1>1, <1>5, <2>3, <4>3, <4>4, <4>5
        <4> QED BY <2>2, <3>5, <4>6
      <3> QED BY <3>3, <3>4, <3>5
    <2> QED BY <2>5, <2>6, <2>7
  <1> QED BY <1>10, <1>11

LEMMA ToolInvStep ==
    ASSUME ToolInv, [Next]_vars
    PROVE  ToolInv'
  <1>1. AgentTypes'
    BY AgentTypesStep DEF ToolInv
  <1>2. CASE UNCHANGED <<now, stamps, used>>
    BY <1>1, <1>2 DEF ToolInv, CallsArePast, CallsCounted, ToolLimitHolds
  <1>3. ASSUME Tick PROVE ToolInv'
    <2>1. now' = now + 1 /\ stamps' = stamps /\ used' = used /\ now \in Int
      BY <1>3, AgentBounds DEF Tick, ToolInv, AgentTypes, TypeOK
    <2>2. CallsArePast'
      <3>1. \A u \in Users, t \in Tools : \A i \in DOMAIN used[u][t] : used[u][t][i] \in Int
        BY DEF ToolInv, AgentTypes
      <3> QED BY <2>1, <3>1 DEF ToolInv, CallsArePast
    <2>3. CallsCounted'
      <3>1. \A x \in Int : x >= now + 1 - Window => x >= now - Window
        BY <2>1, AgentBounds
      <3>2. \A u \in Users, t \in Tools, x \in Int : x >= now - Window =>
                CountOver(used[u][t], x) = CountOver(stamps[u][t], x)
        BY DEF ToolInv, CallsCounted
      <3>3. \A u \in Users, t \in Tools, x \in Int : x >= now + 1 - Window =>
                CountOver(used[u][t], x) = CountOver(stamps[u][t], x)
        BY <3>1, <3>2
      <3>4. SUFFICES ASSUME NEW u \in Users, NEW t \in Tools, NEW x \in Int,
                            x >= now' - Window
                     PROVE  CountOver(used'[u][t], x) = CountOver(stamps'[u][t], x)
        BY DEF CallsCounted
      <3>5. x >= now + 1 - Window
        BY <2>1, <3>4, AgentBounds
      <3>6. CountOver(used[u][t], x) = CountOver(stamps[u][t], x)
        BY <3>3, <3>5
      <3> QED BY <2>1, <3>6
    <2>4. ToolLimitHolds'
      BY <2>1 DEF ToolInv, ToolLimitHolds
    <2> QED BY <1>1, <2>2, <2>3, <2>4 DEF ToolInv
  <1>4. ASSUME NEW a \in Agents, CallTool(a) PROVE ToolInv'
    <2> DEFINE u == UserOf[a]
               t == Head(calls[a])
    <2>1. CASE t \in Allowed[a]
      <3>1. u \in Users /\ t \in Tools
        BY <2>1, AgentsAssumption
      <3>2. /\ Execute(u, t, now) /\ now' = now
            /\ used' = IF Runs(u, t, now) THEN [used EXCEPT ![u][t] = Append(@, now)]
                       ELSE used
        BY <1>4, <2>1 DEF CallTool
      <3>3. CallsArePast' /\ CallsCounted' /\ ToolLimitHolds'
        <4> HIDE DEF u, t
        <4> QED BY <3>1, <3>2, ExecuteCounts
      <3> QED BY <1>1, <3>3 DEF ToolInv
    <2>2. CASE t \notin Allowed[a]
      BY <1>2, <1>4, <2>2 DEF CallTool
    <2> QED BY <2>1, <2>2
  <1>5. CASE UNCHANGED vars \/ OthersTake \/ OthersLetGo
    BY <1>2, <1>5 DEF vars, OthersTake, OthersLetGo
  <1>6. ASSUME NEW a \in Agents,
               \/ Ask(a) \/ Begin(a) \/ Top(a) \/ Think(a) \/ ThinkTimesOut(a) \/ ThinkFails(a)
               \/ EndIteration(a) \/ GiveUp(a) \/ Cancel(a)
        PROVE  UNCHANGED <<now, stamps, used>>
    BY <1>6 DEF Ask, Begin, Top, Think, ThinkTimesOut, ThinkFails, EndIteration, GiveUp, Cancel
  <1> QED BY <1>2, <1>3, <1>4, <1>5, <1>6 DEF Next, Step, Resume

\* Whatever the runs of a user, the answers of their models and the pace of the clock,
\* _check_rate_limit lets no tool's function be called for the user more often in any
\* minute than rate_limit_per_minute.
THEOREM ToolLimits == Spec => []ToolLimitHolds
  <1>1. ToolInv /\ [Next]_vars => ToolInv'
    BY ToolInvStep
  <1>2. ToolInv => ToolLimitHolds
    BY DEF ToolInv
  <1> QED BY ToolInvInit, <1>1, <1>2, PTL DEF Spec
----------------------------------------------------------------------------
(* What the model is shown.                                                *)

LEMMA AgentInvInit == Init => AgentInv
  <1>1. Init => TurnKept
    BY DEF Init, TurnKept, HasTurn
  <1> QED BY <1>1, AgentTypesInit DEF AgentInv

\* A step of one run leaves the turns of the others.
LEMMA OthersKeepTurn ==
    ASSUME AgentInv, NEW a \in Agents,
           HasTurn(a)',
           \A b \in Agents : b # a => /\ pc'[b] = pc[b] /\ memory'[b] = memory[b]
                                      /\ wanted'[b] = wanted[b] /\ calls'[b] = calls[b]
                                      /\ iteration'[b] = iteration[b]
    PROVE  TurnKept'
  <1>1. SUFFICES ASSUME NEW b \in Agents PROVE HasTurn(b)'
    BY DEF TurnKept
  <1>2. CASE b = a
    BY <1>2
  <1>3. CASE b # a
    <2>1. HasTurn(b)
      BY DEF AgentInv, TurnKept
    <2>2. /\ pc'[b] = pc[b] /\ memory'[b] = memory[b] /\ wanted'[b] = wanted[b]
          /\ calls'[b] = calls[b] /\ iteration'[b] = iteration[b]
      BY <1>3
    <2> QED BY <2>1, <2>2 DEF HasTurn, ResultsSoFar
  <1> QED BY <1>2, <1>3

LEMMA EndKeepsTurns ==
    ASSUME AgentInv, NEW a \in Agents, NEW how, End(a, how)
    PROVE  TurnKept'
  <1>1. HasTurn(a)'
    BY DEF End, Goto, HasTurn, AgentInv, AgentTypes, TypeOK
  <1>2. \A b \in Agents : b # a => /\ pc'[b] = pc[b] /\ memory'[b] = memory[b]
                                   /\ wanted'[b] = wanted[b] /\ calls'[b] = calls[b]
                                   /\ iteration'[b] = iteration[b]
    BY DEF End, Goto, AgentInv, AgentTypes, TypeOK
  <1> QED BY <1>1, <1>2, OthersKeepTurn

LEMMA AgentInvStep ==
    ASSUME AgentInv, [Next]_vars
    PROVE  AgentInv'
  <1> DEFINE Same(b) == /\ pc'[b] = pc[b] /\ memory'[b] = memory[b]
                        /\ wanted'[b] = wanted[b] /\ calls'[b] = calls[b]
                        /\ iteration'[b] = iteration[b]
  <1>1. AgentTypes'
    BY AgentTypesStep DEF AgentInv
  <1>2. /\ pc \in [Agents -> {"idle", "scheduled", "top", "think", "act", "ended"}]
        /\ memory \in [Agents -> Seq(Messages)]
        /\ calls \in [Agents -> Thoughts] /\ wanted \in [Agents -> 0 .. MaxCalls]
        /\ iteration \in [Agents -> 0 .. MaxIterations + 1]
        /\ \A a \in Agents :
               /\ pc[a] \in {"think", "act"} => iteration[a] \in 0 .. MaxIterations
               /\ Len(calls[a]) <= wanted[a]
    BY DEF AgentInv, AgentTypes, TypeOK
  <1>3. CASE UNCHANGED <<pc, run>>
    <2>1. \A b \in Agents : HasTurn(b)'
      BY <1>3 DEF AgentInv, TurnKept, HasTurn, ResultsSoFar, run
    <2> QED BY <1>1, <2>1 DEF AgentInv, TurnKept
  <1>4. CASE \/ Tick \/ OthersTake \/ OthersLetGo \/ UNCHANGED vars
             \/ \E a \in Agents : Cancel(a)
    BY <1>3, <1>4 DEF Tick, OthersTake, OthersLetGo, vars, Cancel
  <1>5. ASSUME NEW a \in Agents, Ask(a) \/ GiveUp(a) PROVE AgentInv'
    <2>1. \A b \in Agents : b # a => Same(b)
      BY <1>2, <1>5 DEF Ask, GiveUp, Goto
    <2>2. HasTurn(a)
      BY DEF AgentInv, TurnKept
    <2>3. HasTurn(a)'
      BY <1>2, <1>5, <2>2 DEF Ask, GiveUp, Goto, HasTurn, ResultsSoFar
    <2> QED BY <1>1, <2>1, <2>3, OthersKeepTurn DEF AgentInv
  <1>6. ASSUME NEW a \in Agents, Begin(a) PROVE AgentInv'
    <2>1. \A b \in Agents : b # a => Same(b)
      BY <1>2, <1>6 DEF Begin, Goto
    <2>2. Remember(<<>>, <<"objective", 0>>) = OnlyObjective
      <3>1. Append(<<>>, <<"objective", 0>>) = OnlyObjective /\ Len(OnlyObjective) = 1
        BY DEF OnlyObjective
      <3> QED BY <3>1, AgentBounds DEF Remember, LastOf
    <2>3. memory'[a] = OnlyObjective /\ pc'[a] = "top"
      BY <1>2, <1>6, <2>2 DEF Begin, Goto
    <2>4. HasTurn(a)'
      BY <2>3 DEF HasTurn
    <2> QED BY <1>1, <2>1, <2>4, OthersKeepTurn DEF AgentInv
  <1>7. ASSUME NEW a \in Agents, Top(a) PROVE AgentInv'
    <2>1. CASE \E how : End(a, how)
      BY <1>1, <2>1, EndKeepsTurns DEF AgentInv
    <2>2. CASE Goto(a, "think") /\ UNCHANGED run
      <3>1. pc[a] = "top" /\ pc'[a] = "think"
        BY <1>2, <1>7, <2>2 DEF Top, Goto
      <3>2. \A b \in Agents : b # a => Same(b)
        BY <1>2, <2>2 DEF Goto, run
      <3>3. HasTurn(a)
        BY DEF AgentInv, TurnKept
      <3>4. HasTurn(a)'
        BY <2>2, <3>1, <3>3 DEF HasTurn, ResultsSoFar, run
      <3> QED BY <1>1, <3>2, <3>4, OthersKeepTurn DEF AgentInv
    <2> QED BY <1>7, <2>1, <2>2 DEF Top
  <1>8. ASSUME NEW a \in Agents, Think(a) PROVE AgentInv'
    <2>1. \A b \in Agents : b # a => Same(b)
      BY <1>2, <1>8 DEF Think, Goto
    <2> DEFINE message == <<"thought", iteration[a]>>
               m == Remember(memory[a], message)
    <2>2. iteration[a] \in 0 .. MaxIterations /\ memory[a] \in Seq(Messages)
      BY <1>2, <1>8 DEF Think
    <2>3. message \in Messages
      BY <2>2 DEF Messages
    <2>4. /\ memory'[a] = m /\ pc'[a] = "act" /\ iteration' = iteration
          /\ wanted'[a] = Len(calls'[a]) /\ Len(calls'[a]) \in Nat
      <3>1. PICK thought \in Thoughts : /\ calls' = [calls EXCEPT ![a] = thought]
                                        /\ wanted' = [wanted EXCEPT ![a] = Len(thought)]
        BY <1>8 DEF Think
      <3>2. Len(thought) \in Nat
        BY ThoughtFacts, AgentBounds
      <3> QED BY <1>2, <1>8, <3>1, <3>2 DEF Think, Goto
    <2>5. Len(m) > 0 /\ m[Len(m)] = message /\ Len(m) \in Nat
      <3>1. Len(m) \in 1 .. MemoryLimit /\ m[Len(m)] = message
        <4> HIDE DEF message
        <4> QED BY <2>2, <2>3, RememberFacts
      <3> HIDE DEF m
      <3> QED BY <3>1, AgentBounds
    <2>6. EndsWithTurn(m, 0, iteration[a])
      <3> HIDE DEF m
      <3>1. \A j \in 0 .. 0 : j = 0 /\ Len(m) - j = Len(m)
        BY <2>5
      <3> QED BY <2>5, <3>1 DEF EndsWithTurn
    <2>7. ResultsSoFar(a)' = 0
      <3>1. ResultsSoFar(a)' = wanted'[a] - Len(calls'[a])
        BY <2>4 DEF ResultsSoFar
      <3>2. wanted'[a] \in Nat /\ Len(calls'[a]) = wanted'[a]
        BY <2>4
      <3> QED BY <3>1, <3>2
    <2>8. HasTurn(a)'
      <3> HIDE DEF m
      <3> QED BY <2>2, <2>4, <2>6, <2>7 DEF HasTurn
    <2> QED BY <1>1, <2>1, <2>8, OthersKeepTurn DEF AgentInv
  <1>9. ASSUME NEW a \in Agents, ThinkTimesOut(a) PROVE AgentInv'
    <2>1. \A b \in Agents : b # a => Same(b)
      BY <1>2, <1>9 DEF ThinkTimesOut, Goto
    <2>2. /\ pc[a] = "think" /\ pc'[a] = "top" /\ memory' = memory
          /\ wanted' = wanted /\ calls' = calls
      BY <1>2, <1>9 DEF ThinkTimesOut, Goto
    <2>3. HasTurn(a)
      BY DEF AgentInv, TurnKept
    <2>4. HasTurn(a)'
      BY <2>2, <2>3 DEF HasTurn, ResultsSoFar
    <2> QED BY <1>1, <2>1, <2>4, OthersKeepTurn DEF AgentInv
  <1>10. ASSUME NEW a \in Agents, ThinkFails(a) PROVE AgentInv'
    BY <1>1, <1>10, EndKeepsTurns DEF ThinkFails, AgentInv
  <1>11. ASSUME NEW a \in Agents, CallTool(a) PROVE AgentInv'
    <2>1. \A b \in Agents : b # a => Same(b)
      BY <1>2, <1>11 DEF CallTool
    <2> DEFINE k == iteration[a]
               n == wanted[a] - Len(calls[a])
               message == <<"result", k>>
               m == Remember(memory[a], message)
    <2>2. /\ pc[a] = "act" /\ pc' = pc /\ iteration' = iteration /\ wanted' = wanted
          /\ memory'[a] = m /\ calls'[a] = Tail(calls[a])
          /\ calls[a] \in Thoughts /\ calls[a] # <<>>
      BY <1>2, <1>11 DEF CallTool
    <2>3. k \in 0 .. MaxIterations /\ memory[a] \in Seq(Messages) /\ k \in Nat
      BY <1>2, <2>2
    <2>4. message \in Messages
      BY <2>3 DEF Messages
    <2>5. Len(calls[a]) \in Int /\ Len(calls[a]) > 0 /\ Len(calls'[a]) = Len(calls[a]) - 1
      BY <2>2, ThoughtFacts, AgentBounds
    <2>6. CASE wanted[a] < PromptWindow
      <3>1. n \in 0 .. MemoryLimit - 2
        <4>1. wanted[a] \in Int /\ Len(calls[a]) <= wanted[a]
          BY <1>2
        <4> QED BY <2>5, <2>6, <4>1, AgentBounds, BoundsAssumption
      <3>2. EndsWithTurn(memory[a], n, k)
        <4>1. HasTurn(a)
          BY DEF AgentInv, TurnKept
        <4>2. ResultsSoFar(a) = n
          BY <2>2 DEF ResultsSoFar
        <4> HIDE DEF n
        <4> QED BY <2>2, <2>6, <4>1, <4>2 DEF HasTurn
      <3>3. EndsWithTurn(m, n + 1, k)
        <4> HIDE DEF n, k
        <4> QED BY <2>3, <2>4, <3>1, <3>2, RememberFacts
      <3>4. ResultsSoFar(a)' = n + 1
        <4>1. wanted[a] \in Int
          BY <1>2
        <4> QED BY <2>2, <2>5, <4>1 DEF ResultsSoFar
      <3>5. HasTurn(a)'
        <4> HIDE DEF m, n
        <4> QED BY <2>2, <2>3, <3>3, <3>4 DEF HasTurn
      <3> QED BY <1>1, <2>1, <3>5, OthersKeepTurn DEF AgentInv
    <2>7. CASE ~(wanted[a] < PromptWindow)
      <3>1. HasTurn(a)'
        BY <2>2, <2>7 DEF HasTurn
      <3> QED BY <1>1, <2>1, <3>1, OthersKeepTurn DEF AgentInv
    <2> QED BY <2>6, <2>7
  <1>12. ASSUME NEW a \in Agents, EndIteration(a) PROVE AgentInv'
    <2>1. CASE End(a, "completed")
      BY <1>1, <2>1, EndKeepsTurns DEF AgentInv
    <2>2. CASE /\ iteration' = [iteration EXCEPT ![a] = @ + 1]
               /\ Goto(a, "top")
               /\ UNCHANGED <<loop, asked, started, memory, calls, wanted, status, active, client>>
      <3>1. \A b \in Agents : b # a => Same(b)
        BY <1>2, <2>2 DEF Goto
      <3>2. /\ pc[a] = "act" /\ calls[a] = <<>> /\ pc'[a] = "top"
            /\ memory' = memory /\ wanted' = wanted
        BY <1>2, <1>12, <2>2 DEF EndIteration, Goto
      <3>3. ResultsSoFar(a)' = ResultsSoFar(a)
        <4>1. Len(calls[a]) = 0 /\ wanted[a] \in Int
          BY <1>2, <3>2
        <4> QED BY <3>2, <4>1 DEF ResultsSoFar
      <3>4. HasTurn(a)
        BY DEF AgentInv, TurnKept
      <3>5. HasTurn(a)'
        BY <3>2, <3>3, <3>4 DEF HasTurn
      <3> QED BY <1>1, <3>1, <3>5, OthersKeepTurn DEF AgentInv
    <2> QED BY <1>12, <2>1, <2>2 DEF EndIteration
  <1> QED BY <1>4, <1>5, <1>6, <1>7, <1>8, <1>9, <1>10, <1>11, <1>12 DEF Next, Step, Resume

LEMMA TurnIsSeen == AgentInv => ResultsSeen
  <1> SUFFICES ASSUME AgentInv, NEW a \in Agents, pc[a] = "think", wanted[a] < PromptWindow
               PROVE  LET shown == Prompt(memory[a])
                          turn == LastOf(shown, wanted[a] + 1)
                      IN  \/ shown = << <<"objective", 0>> >>
                          \/ /\ Len(turn) = wanted[a] + 1
                             /\ turn[1][1] = "thought"
                             /\ \A i \in 2 .. Len(turn) : turn[i] = <<"result", turn[1][2]>>
    BY DEF ResultsSeen
  <1> DEFINE m == memory[a]
             shown == Prompt(m)
             w == wanted[a]
             turn == LastOf(shown, w + 1)
  <1>1. m \in Seq(Messages) /\ w \in 0 .. MaxCalls /\ w \in Nat /\ w + 1 <= PromptWindow
    <2>1. m \in Seq(Messages) /\ w \in 0 .. MaxCalls
      BY DEF AgentInv, AgentTypes, TypeOK
    <2>2. w < PromptWindow
      OBVIOUS
    <2> HIDE DEF w
    <2> QED BY <2>1, <2>2, AgentBounds
  <1>2. CASE m = OnlyObjective
    <2>1. Len(m) = 1
      BY <1>2 DEF OnlyObjective
    <2>2. shown = m
      BY <2>1, AgentBounds DEF Prompt, LastOf
    <2> QED BY <1>2, <2>2 DEF OnlyObjective
  <1>3. CASE \E k \in 0 .. MaxIterations : EndsWithTurn(m, w, k)
    <2>1. PICK k \in 0 .. MaxIterations : EndsWithTurn(m, w, k)
      BY <1>3
    <2> HIDE DEF m, w
    <2>2. /\ Len(m) > w /\ Len(m) \in Nat
          /\ \A j \in 0 .. w :
                 m[Len(m) - j] = IF j = w THEN <<"thought", k>> ELSE <<"result", k>>
      BY <1>1, <2>1 DEF EndsWithTurn
    <2>3. /\ shown \in Seq(Messages)
          /\ Len(shown) = IF Len(m) <= PromptWindow THEN Len(m) ELSE PromptWindow
          /\ \A j \in 0 .. Len(shown) - 1 : shown[Len(shown) - j] = m[Len(m) - j]
      BY <1>1, LastOfFacts, AgentBounds DEF Prompt
    <2> HIDE DEF shown
    <2>4. Len(shown) \in Nat /\ Len(shown) >= w + 1
      BY <1>1, <2>2, <2>3, AgentBounds
    <2>5. /\ turn \in Seq(Messages)
          /\ Len(turn) = IF Len(shown) <= w + 1 THEN Len(shown) ELSE w + 1
          /\ \A j \in 0 .. Len(turn) - 1 : turn[Len(turn) - j] = shown[Len(shown) - j]
      <3>1. w + 1 \in Nat
        BY <1>1
      <3> QED BY <2>3, <3>1, LastOfFacts
    <2> HIDE DEF turn
    <2>6. Len(turn) = w + 1
      BY <1>1, <2>4, <2>5
    <2>7. \A j \in 0 .. w :
              turn[w + 1 - j] = IF j = w THEN <<"thought", k>> ELSE <<"result", k>>
      <3>1. TAKE j \in 0 .. w
      <3>2. turn[w + 1 - j] = shown[Len(shown) - j]
        <4>1. j \in 0 .. Len(turn) - 1 /\ Len(turn) - j = w + 1 - j
          BY <1>1, <2>6
        <4> QED BY <2>5, <4>1
      <3>3. shown[Len(shown) - j] = m[Len(m) - j]
        <4>1. j \in 0 .. Len(shown) - 1
          BY <1>1, <2>4
        <4> QED BY <2>3, <4>1
      <3> QED BY <2>2, <3>2, <3>3
    <2>8. turn[1] = <<"thought", k>>
      <3>1. w \in 0 .. w /\ w + 1 - w = 1
        BY <1>1
      <3> QED BY <2>7, <3>1
    <2>9. \A i \in 2 .. Len(turn) : turn[i] = <<"result", k>>
      <3>1. TAKE i \in 2 .. Len(turn)
      <3>2. w + 1 - i \in 0 .. w /\ w + 1 - i # w /\ w + 1 - (w + 1 - i) = i
        BY <1>1, <2>6
      <3> QED BY <2>7, <3>2
    <2>10. /\ Len(turn) = w + 1 /\ turn[1][1] = "thought"
           /\ \A i \in 2 .. Len(turn) : turn[i] = <<"result", turn[1][2]>>
      BY <2>6, <2>8, <2>9
    <2> QED BY <2>10 DEF turn, shown, m, w
  <1>4. HasTurn(a) /\ ResultsSoFar(a) = w
    BY DEF AgentInv, TurnKept, ResultsSoFar
  <1> QED BY <1>2, <1>3, <1>4 DEF HasTurn

\* _add_memory trims the memory and _build_user_prompt shows less of it, yet a model is
\* shown all that came of its last thought, in order, whenever that is no more than it is
\* shown of any memory.
THEOREM ModelSeesItsResults == Spec => []ResultsSeen
  <1>1. AgentInv /\ [Next]_vars => AgentInv'
    BY AgentInvStep
  <1> QED BY AgentInvInit, TurnIsSeen, <1>1, PTL DEF Spec

----------------------------------------------------------------------------
(* Cancelled runs.                                                         *)

LEMMA CancelStep ==
    ASSUME AgentTypes, [Next]_vars, NEW a \in cancelled,
           pc[a] = "top", pc'[a] # "top"
    PROVE  /\ pc'[a] = "ended"
           /\ iteration[a] <= MaxIterations => status'[a] = "cancelled"
  <1>1. /\ pc \in [Agents -> {"idle", "scheduled", "top", "think", "act", "ended"}]
        /\ a \in Agents /\ iteration \in [Agents -> 0 .. MaxIterations + 1]
        /\ DOMAIN status = Agents
    BY AgentsAssumption DEF AgentTypes, TypeOK
  <1>2. Top(a)
    <2>1. ASSUME NEW b \in Agents,
                 \/ Ask(b) \/ Begin(b) \/ Think(b) \/ ThinkTimesOut(b) \/ ThinkFails(b)
                 \/ EndIteration(b)
          PROVE  FALSE
      <3>1. pc[b] # "top"
        BY <2>1 DEF Ask, Begin, Think, ThinkTimesOut, ThinkFails, EndIteration
      <3>2. \E place : pc' = [pc EXCEPT ![b] = place]
        BY <2>1 DEF Ask, Begin, Think, ThinkTimesOut, ThinkFails, EndIteration, End, Goto
      <3>3. pc'[a] = pc[a]
        BY <1>1, <3>1, <3>2
      <3> QED BY <3>3
    <2>2. ASSUME NEW b \in Agents, Top(b), b # a PROVE FALSE
      <3>1. \E place : pc' = [pc EXCEPT ![b] = place]
        BY <2>2 DEF Top, End, Goto
      <3> QED BY <1>1, <2>2, <3>1
    <2>3. ASSUME \/ Tick \/ OthersTake \/ OthersLetGo \/ UNCHANGED vars
                 \/ \E b \in Agents : GiveUp(b) \/ Cancel(b) \/ CallTool(b)
          PROVE  FALSE
      BY <2>3 DEF Tick, OthersTake, OthersLetGo, vars, GiveUp, Cancel, CallTool
    <2> QED BY <2>1, <2>2, <2>3 DEF Next, Step, Resume
  <1>3. Verdict(a) = "cancelled"
    BY DEF Verdict
  <1>4. ASSUME NEW how, End(a, how) PROVE pc'[a] = "ended" /\ status'[a] = how
    BY <1>1, <1>4 DEF End, Goto
  <1>5. iteration[a] \in Int
    BY <1>1, AgentBounds
  <1> QED BY <1>2, <1>3, <1>4, <1>5, AgentBounds DEF Top

\* The cancellation flag is read before the deadline: a run cancelled between two
\* iterations asks its model no more and is reported as cancelled.
THEOREM CancelIsHonoured == Spec => CancelHolds
  <1>1. AgentTypes /\ [Next]_vars => AgentTypes'
    BY AgentTypesStep
  <1>2. AgentTypes /\ [Next]_vars =>
            [\A a \in cancelled :
                pc[a] = "top" /\ pc'[a] # "top" =>
                    /\ pc'[a] = "ended"
                    /\ iteration[a] <= MaxIterations => status'[a] = "cancelled"]_vars
    BY CancelStep
  <1> QED BY AgentTypesInit, <1>1, <1>2, PTL DEF Spec, CancelHolds
----------------------------------------------------------------------------
(* The router: what is still to be called when a breaker trips.            *)

ModelsOf(p) == {m \in Enabled : ProviderOf[m] = p}

\* The calls of p that the routes under way may still make, as <<route, model>>.
Pending(p) ==
    {c \in Routes \X ModelsOf(p) :
        /\ rpc[c[1]] = "calling"
        /\ \E k \in pos[c[1]] .. Len(chain[c[1]]) : chain[c[1]][k] = c[2]}

\* What a tripped breaker has counted and what may still be added to it.
CountBounded ==
    \A p \in Providers :
        Tripped(p) => failures[p] + Cardinality(Pending(p)) < Threshold + CallsAhead(p)

\* A route tries no model twice and is within its list.
RoutesInRange ==
    \A r \in Routes : /\ IsInjective(chain[r])
                      /\ rpc[r] = "calling" => pos[r] \in 1 .. Len(chain[r])

\* The providers a route that calls models may still call.
Ahead(r) == {ProviderOf[chain[r][k]] : k \in pos[r] .. Len(chain[r])}

\* An open breaker of such a provider opened after the route began.
OpenedSince ==
    \A r \in Routes : rpc[r] = "calling" =>
        \A p \in Ahead(r) : IsOpen(p) => p \in stamped[r]

\* A reliable provider's breaker never trips, so one such provider is ahead of every
\* route that calls models.
ReliableAhead ==
    /\ \A p \in reliable : ~Tripped(p)
    /\ (\E m \in Enabled : ProviderOf[m] \in reliable) =>
           \A r \in Routes : /\ rpc[r] \notin {"exhausted", "unavailable"}
                             /\ rpc[r] = "calling" => \E p \in Ahead(r) : p \in reliable

RouterInv == RouterTypes /\ RoutesInRange /\ CountBounded /\ OpenedSince /\ ReliableAhead

----------------------------------------------------------------------------
(* Lemmas about the operators of ModelRouter.                              *)

LEMMA BreakerBounds ==
    /\ Threshold \in Nat /\ Threshold >= 1
    /\ Recovery \in Nat /\ MaxRetries \in Nat /\ MaxRetries >= 1
  BY BreakerAssumption

LEMMA ChainFacts ==
    /\ Chain \in Seq(Models) /\ IsInjective(Chain)
    /\ \A m \in Models : \E i \in DOMAIN Chain : Chain[i] = m
  BY ModelsAssumption DEF ToSet

\* Every order tries every model once.
LEMMA OrderFacts ==
    ASSUME NEW order \in Orders
    PROVE  /\ order \in Seq(Models) /\ IsInjective(order)
           /\ \A m \in Models : \E i \in DOMAIN order : order[i] = m
  <1>1. CASE order = Chain
    BY <1>1, ChainFacts
  <1>2. ASSUME NEW m \in Models, order = Preferring(m)
        PROVE  /\ order \in Seq(Models) /\ IsInjective(order)
               /\ \A q \in Models : \E i \in DOMAIN order : order[i] = q
    <2> DEFINE K == {i \in DOMAIN Chain : Chain[i] # m}
               t == AtIndices(Chain, K)
    <2>1. K \in SUBSET DOMAIN Chain
      OBVIOUS
    <2>2. /\ t \in Seq(Models) /\ Len(t) \in Nat /\ DOMAIN t = 1 .. Len(t)
          /\ \A n \in DOMAIN t : t[n] # m
          /\ IsInjective(t)
          /\ \A i \in K : \E n \in DOMAIN t : t[n] = Chain[i]
      <3>1. /\ t \in Seq(Models) /\ Len(t) = Cardinality(K) /\ Cardinality(K) \in Nat
            /\ DOMAIN t = 1 .. Cardinality(K)
            /\ \A n \in 1 .. Cardinality(K) : Chosen(K)[n] \in K /\ t[n] = Chain[Chosen(K)[n]]
        <4>1. Chain \in Seq(Models)
          BY ChainFacts
        <4> HIDE DEF K
        <4> QED BY <2>1, <4>1, AtIndicesFacts
      <3>2. \A n \in DOMAIN t : t[n] # m
        <4>1. \A i \in K : Chain[i] # m
          OBVIOUS
        <4> HIDE DEF K, t
        <4> QED BY <3>1, <4>1
      <3>3. IsInjective(t)
        <4> HIDE DEF K
        <4> QED BY <2>1, SelectionIsInjective, ChainFacts
      <3>4. \A i \in K : \E n \in DOMAIN t : t[n] = Chain[i]
        <4>1. TAKE i \in K
        <4>2. \E n \in 1 .. Cardinality(K) : t[n] = Chain[i]
          <5> HIDE DEF K
          <5> QED BY <2>1, SelectedIsThere, ChainFacts
        <4> HIDE DEF t, K
        <4> QED BY <3>1, <4>2
      <3> HIDE DEF t, K
      <3> QED BY <3>1, <3>2, <3>3, <3>4
    <2>3. order = <<m>> \o t
      BY <1>2 DEF Preferring
    <2>4. \A q \in Models : q # m => \E n \in DOMAIN t : t[n] = q
      <3>1. SUFFICES ASSUME NEW q \in Models, q # m PROVE \E n \in DOMAIN t : t[n] = q
        OBVIOUS
      <3>2. PICK i \in DOMAIN Chain : Chain[i] = q
        BY ChainFacts
      <3>3. i \in K
        BY <3>1, <3>2
      <3> HIDE DEF t, K
      <3> QED BY <2>2, <3>2, <3>3
    <2> HIDE DEF t, K
    <2>5. /\ order \in Seq(Models) /\ DOMAIN order = 1 .. Len(t) + 1 /\ order[1] = m
          /\ \A n \in DOMAIN t : n + 1 \in DOMAIN order /\ order[n + 1] = t[n]
          /\ \A i \in DOMAIN order : i # 1 => i - 1 \in DOMAIN t /\ order[i] = t[i - 1]
      BY <2>2, <2>3
    <2>6. IsInjective(order)
      <3>1. SUFFICES ASSUME NEW i \in DOMAIN order, NEW j \in DOMAIN order,
                            order[i] = order[j], i # j
                     PROVE  FALSE
        BY DEF IsInjective
      <3>2. i \in Int /\ j \in Int
        BY <2>2, <2>5
      <3>3. i # 1 /\ j # 1
        BY <2>2, <2>5, <3>1
      <3>4. i - 1 \in DOMAIN t /\ j - 1 \in DOMAIN t /\ t[i - 1] = t[j - 1]
        BY <2>5, <3>1, <3>3
      <3>5. i - 1 = j - 1
        BY <2>2, <3>4 DEF IsInjective
      <3> QED BY <3>1, <3>2, <3>5
    <2>7. \A q \in Models : \E i \in DOMAIN order : order[i] = q
      <3>1. TAKE q \in Models
      <3>2. CASE q = m
        <4>1. 1 \in DOMAIN order
          BY <2>2, <2>5
        <4> QED BY <2>5, <3>2, <4>1
      <3>3. CASE q # m
        BY <2>4, <2>5, <3>3
      <3> QED BY <3>2, <3>3
    <2> QED BY <2>5, <2>6, <2>7
  <1> QED BY <1>1, <1>2 DEF Orders

\* The list of a route: models with a key whose breaker is not open, each once, and
\* all of them.
LEMMA AvailableFacts ==
    ASSUME NEW order \in Orders
    PROVE  /\ Available(order) \in Seq(Enabled) /\ IsInjective(Available(order))
           /\ \A k \in DOMAIN Available(order) : ~IsOpen(ProviderOf[Available(order)[k]])
           /\ \A m \in Enabled : ~IsOpen(ProviderOf[m]) =>
                  \E k \in DOMAIN Available(order) : Available(order)[k] = m
  <1> DEFINE K == {i \in DOMAIN order : order[i] \in Enabled /\ ~IsOpen(ProviderOf[order[i]])}
             t == AtIndices(order, K)
  <1>1. K \in SUBSET DOMAIN order /\ \A i \in K : /\ order[i] \in Enabled
                                                  /\ ~IsOpen(ProviderOf[order[i]])
    OBVIOUS
  <1>2. Available(order) = t
    BY DEF Available
  <1>3. \A m \in Enabled : ~IsOpen(ProviderOf[m]) => \E i \in K : order[i] = m
    BY OrderFacts, ModelsAssumption
  <1> HIDE DEF K
  <1>4. /\ t \in Seq(Models) /\ Len(t) = Cardinality(K) /\ Cardinality(K) \in Nat
        /\ DOMAIN t = 1 .. Cardinality(K)
        /\ \A n \in 1 .. Cardinality(K) : Chosen(K)[n] \in K /\ t[n] = order[Chosen(K)[n]]
    BY <1>1, AtIndicesFacts, OrderFacts
  <1>5. IsInjective(t)
    BY <1>1, SelectionIsInjective, OrderFacts
  <1>6. \A i \in K : \E n \in DOMAIN t : t[n] = order[i]
    <2>1. TAKE i \in K
    <2>2. \E n \in 1 .. Cardinality(K) : t[n] = order[i]
      BY <1>1, SelectedIsThere, OrderFacts
    <2> HIDE DEF t
    <2> QED BY <1>4, <2>2
  <1> HIDE DEF t
  <1>7. \A n \in DOMAIN t : t[n] \in Enabled /\ ~IsOpen(ProviderOf[t[n]])
    BY <1>1, <1>4
  <1>8. t \in Seq(Enabled)
    <2>1. t \in [1 .. Cardinality(K) -> Enabled]
      BY <1>4, <1>7
    <2> QED BY <1>4, <2>1
  <1>9. \A m \in Enabled : ~IsOpen(ProviderOf[m]) => \E n \in DOMAIN t : t[n] = m
    BY <1>3, <1>6
  <1> QED BY <1>2, <1>5, <1>7, <1>8, <1>9

LEMMA AheadType ==
    ASSUME RouterTypes, NEW r \in Routes
    PROVE  Ahead(r) \in SUBSET Providers
  <1>1. pos[r] \in Nat \ {0} /\ chain[r] \in Seq(Enabled)
    BY DEF RouterTypes
  <1>2. \A k \in pos[r] .. Len(chain[r]) : chain[r][k] \in Enabled
    BY <1>1
  <1> QED BY <1>2, ModelsAssumption DEF Ahead

\* There are finitely many calls ahead, and at most one of each model per route.
LEMMA PendingFacts ==
    ASSUME NEW p \in Providers
    PROVE  /\ CallsAhead(p) \in Nat
           /\ IsFiniteSet(Pending(p)) /\ Cardinality(Pending(p)) \in Nat
           /\ Cardinality(Pending(p)) <= CallsAhead(p)
  <1> DEFINE M == ModelsOf(p)
  <1>1. IsFiniteSet(M)
    <2>1. IsFiniteSet(DOMAIN Chain)
      <3>1. DOMAIN Chain = 1 .. Len(Chain) /\ Len(Chain) \in Nat
        BY ChainFacts
      <3> QED BY <3>1, FS_Interval
    <2>2. Chain \in Surjection(DOMAIN Chain, Models)
      <3>1. Chain \in [DOMAIN Chain -> Models]
        BY ChainFacts
      <3> QED BY <3>1, ChainFacts DEF Surjection
    <2>3. IsFiniteSet(Models)
      BY <2>1, <2>2, FS_Surjection
    <2>4. M \in SUBSET Models
      BY ModelsAssumption DEF ModelsOf
    <2> HIDE DEF M
    <2> QED BY <2>3, <2>4, FS_Subset
  <1>2. CallsAhead(p) = Cardinality(Routes) * Cardinality(M)
    BY DEF CallsAhead, ModelsOf
  <1> HIDE DEF M
  <1>3. IsFiniteSet(Routes \X M) /\ Cardinality(Routes \X M) = CallsAhead(p)
    BY <1>1, <1>2, RoutesAssumption, FS_Product
  <1>4. Pending(p) \in SUBSET (Routes \X M)
    BY DEF Pending, M
  <1>5. IsFiniteSet(Pending(p)) /\ Cardinality(Pending(p)) <= CallsAhead(p)
    BY <1>3, <1>4, FS_Subset
  <1>6. CallsAhead(p) \in Nat
    BY <1>3, FS_CardinalityType
  <1>7. Cardinality(Pending(p)) \in Nat
    BY <1>5, FS_CardinalityType
  <1> QED BY <1>5, <1>6, <1>7
----------------------------------------------------------------------------
(* The invariant of the router, step by step.                              *)

LEMMA RouterInvInit == InitRouter => RouterInv
  <1> SUFFICES ASSUME InitRouter PROVE RouterInv
    OBVIOUS
  <1> USE DEF InitRouter
  <1>1. RouterTypes
    <2>1. chain \in [Routes -> Seq(Enabled)]
      <3>1. <<>> \in Seq(Enabled)
        OBVIOUS
      <3> QED BY <3>1
    <2>2. pos \in [Routes -> Nat \ {0}] /\ failures \in [Providers -> Nat]
      OBVIOUS
    <2>3. age \in [Providers -> 0 .. Recovery + 1] /\ attempt \in [Routes -> 0 .. MaxRetries - 1]
      BY BreakerBounds
    <2> QED BY <2>1, <2>2, <2>3 DEF RouterTypes
  <1>2. \A p \in Providers : ~Tripped(p)
    BY BreakerBounds DEF Tripped
  <1>3. RoutesInRange
    BY DEF RoutesInRange, IsInjective
  <1>4. CountBounded
    BY <1>2 DEF CountBounded
  <1>5. OpenedSince
    BY DEF OpenedSince
  <1>6. ReliableAhead
    BY <1>2 DEF ReliableAhead
  <1> QED BY <1>1, <1>3, <1>4, <1>5, <1>6 DEF RouterInv

\* A step that trips no breaker, counts nothing for a tripped one and adds no call of
\* its provider keeps the bound.
LEMMA NoCountAdded ==
    ASSUME RouterInv, RouterTypes',
           \A p \in Providers : Tripped(p)' =>
               /\ Tripped(p) /\ failures'[p] = failures[p]
               /\ \A c \in Pending(p)' : c \in Pending(p)
    PROVE  CountBounded'
  <1>1. SUFFICES ASSUME NEW p \in Providers, Tripped(p)'
                 PROVE  failures'[p] + Cardinality(Pending(p)') < Threshold + CallsAhead(p)
    BY DEF CountBounded, CallsAhead
  <1>2. /\ Tripped(p) /\ failures'[p] = failures[p]
        /\ Pending(p)' \in SUBSET Pending(p)
    BY <1>1
  <1>3. failures[p] + Cardinality(Pending(p)) < Threshold + CallsAhead(p)
    BY <1>2 DEF RouterInv, CountBounded
  <1>4. /\ CallsAhead(p) \in Nat
        /\ IsFiniteSet(Pending(p)) /\ Cardinality(Pending(p)) \in Nat
    BY PendingFacts
  <1>5. Cardinality(Pending(p)') <= Cardinality(Pending(p)) /\ Cardinality(Pending(p)') \in Nat
    <2> DEFINE A == Pending(p)'
               B == Pending(p)
    <2>1. A \in SUBSET B /\ IsFiniteSet(B)
      BY <1>2, <1>4
    <2>2. IsFiniteSet(A) /\ Cardinality(A) <= Cardinality(B)
      <3> HIDE DEF A, B
      <3> QED BY <2>1, FS_Subset
    <2>3. Cardinality(A) \in Nat
      <3> HIDE DEF A
      <3> QED BY <2>2, FS_CardinalityType
    <2> QED BY <2>2, <2>3
  <1>6. failures[p] \in Nat
    BY DEF RouterInv, RouterTypes
  <1> QED BY <1>2, <1>3, <1>4, <1>5, <1>6, BreakerBounds

\* A step that leaves the calls ahead of every route where they are, or ends the route.
CallsAheadKept(r) ==
    \/ rpc'[r] # "calling"
    \/ /\ rpc[r] = "calling" /\ rpc'[r] = "calling"
       /\ chain'[r] = chain[r] /\ pos'[r] = pos[r]

LEMMA KeptNotAdded ==
    ASSUME \A r \in Routes : CallsAheadKept(r), NEW p \in Providers
    PROVE  \A c \in Pending(p)' : c \in Pending(p)
  <1>1. SUFFICES ASSUME NEW c \in Pending(p)' PROVE c \in Pending(p)
    OBVIOUS
  <1>2. /\ c \in Routes \X ModelsOf(p) /\ rpc'[c[1]] = "calling"
        /\ \E k \in pos'[c[1]] .. Len(chain'[c[1]]) : chain'[c[1]][k] = c[2]
    BY <1>1 DEF Pending, ModelsOf
  <1>3. c[1] \in Routes
    BY <1>2
  <1>4. rpc[c[1]] = "calling" /\ chain'[c[1]] = chain[c[1]] /\ pos'[c[1]] = pos[c[1]]
    BY <1>2, <1>3 DEF CallsAheadKept
  <1> QED BY <1>2, <1>4 DEF Pending

\* A step that keeps calls where they are, opens no breaker and counts nothing for a
\* tripped one keeps the invariant.
LEMMA QuietStep ==
    ASSUME RouterInv, RouterTypes', reliable' = reliable,
           \A r \in Routes : /\ CallsAheadKept(r)
                             /\ IsInjective(chain'[r])
                             /\ rpc'[r] = "calling" => stamped'[r] = stamped[r]
                             /\ rpc'[r] \in {"exhausted", "unavailable"} => rpc'[r] = rpc[r],
           \A p \in Providers : /\ Tripped(p)' => Tripped(p) /\ failures'[p] = failures[p]
                                /\ IsOpen(p)' => IsOpen(p)
    PROVE  RouterInv'
  <1>1. RoutesInRange'
    BY DEF RouterInv, RoutesInRange, CallsAheadKept
  <1>2. CountBounded'
    BY NoCountAdded, KeptNotAdded
  <1>3. \A r \in Routes : rpc'[r] = "calling" =>
            /\ rpc[r] = "calling" /\ Ahead(r)' = Ahead(r) /\ stamped'[r] = stamped[r]
    BY DEF CallsAheadKept, Ahead
  <1>4. \A r \in Routes : Ahead(r) \in SUBSET Providers
    BY AheadType DEF RouterInv
  <1>5. OpenedSince'
    <2>1. SUFFICES ASSUME NEW r \in Routes, rpc'[r] = "calling",
                          NEW p \in Ahead(r)', IsOpen(p)'
                   PROVE  p \in stamped'[r]
      BY DEF OpenedSince
    <2>2. rpc[r] = "calling" /\ p \in Ahead(r) /\ stamped'[r] = stamped[r]
      BY <1>3, <2>1
    <2>3. IsOpen(p)
      BY <1>4, <2>1, <2>2
    <2> QED BY <2>2, <2>3 DEF RouterInv, OpenedSince
  <1>6. ReliableAhead'
    <2>1. \A p \in reliable' : ~Tripped(p)'
      BY DEF RouterInv, RouterTypes, ReliableAhead
    <2>2. ASSUME \E m \in Enabled : ProviderOf[m] \in reliable', NEW r \in Routes
          PROVE  /\ rpc'[r] \notin {"exhausted", "unavailable"}
                 /\ rpc'[r] = "calling" => \E p \in Ahead(r)' : p \in reliable'
      <3>1. /\ rpc[r] \notin {"exhausted", "unavailable"}
            /\ rpc[r] = "calling" => \E p \in Ahead(r) : p \in reliable
        BY <2>2 DEF RouterInv, ReliableAhead
      <3> QED BY <1>3, <3>1
    <2> QED BY <2>1, <2>2 DEF ReliableAhead
  <1> QED BY <1>1, <1>2, <1>5, <1>6 DEF RouterInv
LEMMA FinishTypes ==
    ASSUME RouterTypes, NEW r \in Routes,
           NEW how \in {"idle", "exhausted", "unavailable"}, Finish(r, how)
    PROVE  /\ rpc' \in [Routes -> {"idle", "streaming", "calling", "exhausted",
                                   "unavailable"}]
           /\ chain' \in [Routes -> Seq(Enabled)]
           /\ pos' \in [Routes -> Nat \ {0}]
           /\ attempt' \in [Routes -> 0 .. MaxRetries - 1]
           /\ rpc'[r] = how /\ chain'[r] = <<>>
           /\ \A q \in Routes : q # r => /\ rpc'[q] = rpc[q] /\ chain'[q] = chain[q]
                                         /\ pos'[q] = pos[q]
  <1> USE DEF RouterTypes, Finish
  <1>1. chain' \in [Routes -> Seq(Enabled)]
    <2>1. <<>> \in Seq(Enabled)
      OBVIOUS
    <2> QED BY <2>1
  <1>2. attempt' \in [Routes -> 0 .. MaxRetries - 1] /\ pos' \in [Routes -> Nat \ {0}]
    BY BreakerBounds
  <1>3. rpc' \in [Routes -> {"idle", "streaming", "calling", "exhausted", "unavailable"}]
    OBVIOUS
  <1>4. /\ rpc'[r] = how /\ chain'[r] = <<>>
        /\ \A q \in Routes : q # r => /\ rpc'[q] = rpc[q] /\ chain'[q] = chain[q]
                                      /\ pos'[q] = pos[q]
    OBVIOUS
  <1> QED BY <1>1, <1>2, <1>3, <1>4

LEMMA EmptyIsInjective == IsInjective(<<>>)
  BY DEF IsInjective

LEMMA HalfOpenTypes ==
    ASSUME RouterTypes, NEW p \in Providers
    PROVE  /\ HalfOpened(p) \in Nat
           /\ HalfOpened(p) >= Threshold => HalfOpened(p) = failures[p] /\ IsOpen(p)
  <1>1. failures[p] \in Nat
    BY DEF RouterTypes
  <1> QED BY <1>1, BreakerBounds DEF HalfOpened, Tripped, Expired, IsOpen

\* A route that begins calls no provider whose breaker is open, and half-opens those
\* whose timeout is over.
LEMMA BeginStep ==
    ASSUME RouterInv, NEW r \in Routes, BeginRoute(r), rpc[r] \notin {"calling"}
    PROVE  RouterInv'
  <1>1. PICK order \in Orders :
            /\ failures' = [p \in Providers |-> IF p \in ProvidersAsked
                                                THEN HalfOpened(p) ELSE failures[p]]
            /\ UNCHANGED <<age, probes, reliable>>
            /\ stamped' = [stamped EXCEPT ![r] = {}]
            /\ IF Available(order) = <<>>
               THEN Finish(r, "unavailable")
               ELSE /\ rpc' = [rpc EXCEPT ![r] = "calling"]
                    /\ chain' = [chain EXCEPT ![r] = Available(order)]
                    /\ pos' = [pos EXCEPT ![r] = 1]
                    /\ attempt' = [attempt EXCEPT ![r] = 0]
    BY DEF BeginRoute
  <1> DEFINE available == Available(order)
  <1>2. /\ available \in Seq(Enabled) /\ IsInjective(available)
        /\ \A k \in DOMAIN available : ~IsOpen(ProviderOf[available[k]])
        /\ \A m \in Enabled : ~IsOpen(ProviderOf[m]) =>
               \E k \in DOMAIN available : available[k] = m
    BY AvailableFacts
  <1> HIDE DEF available
  <1>3. RouterTypes
    BY DEF RouterInv
  <1>4. \A p \in Providers : failures'[p] \in Nat
                             /\ (Tripped(p)' => Tripped(p) /\ failures'[p] = failures[p])
    <2>1. TAKE p \in Providers
    <2>2. failures'[p] = IF p \in ProvidersAsked THEN HalfOpened(p) ELSE failures[p]
      BY <1>1
    <2>3. failures[p] \in Nat
      BY <1>3 DEF RouterTypes
    <2> QED BY <1>3, <2>2, <2>3, HalfOpenTypes DEF Tripped
  <1>5. \A p \in Providers : IsOpen(p)' => IsOpen(p)
    BY <1>1, <1>4 DEF IsOpen, Expired
  <1>6. \A p \in ProvidersAsked : Tripped(p)' => IsOpen(p)
    <2>1. TAKE p \in ProvidersAsked
    <2>2. p \in Providers
      BY ModelsAssumption DEF ProvidersAsked
    <2>3. failures'[p] = HalfOpened(p)
      BY <1>1, <2>2
    <2> QED BY <1>3, <2>2, <2>3, HalfOpenTypes DEF Tripped
  <1>7. failures' \in [Providers -> Nat] /\ stamped' \in [Routes -> SUBSET Providers]
        /\ reliable' = reliable
        /\ reliable' \subseteq Providers /\ probes' \subseteq Providers
        /\ age' \in [Providers -> 0 .. Recovery + 1]
    <2>1. failures' \in [Providers -> Nat]
      BY <1>1, <1>4
    <2> QED BY <1>1, <1>3, <2>1 DEF RouterTypes
  <1>8. \A p \in Providers : ~IsOpen(p) =>
            \A m \in Enabled : ProviderOf[m] = p => \E k \in DOMAIN available : available[k] = m
    BY <1>2
  <1>9. \A p \in reliable : ~IsOpen(p)
    BY DEF RouterInv, ReliableAhead, IsOpen
  <1>10. CASE available = <<>>
    <2>1. Finish(r, "unavailable")
      BY <1>1, <1>10 DEF available
    <2>2. RouterTypes'
      BY <1>3, <1>7, <2>1, FinishTypes DEF RouterTypes
    <2>3. ~\E m \in Enabled : ProviderOf[m] \in reliable
      <3>1. \A k : k \notin DOMAIN available
        BY <1>10
      <3> QED BY <1>2, <1>9, <3>1
    <2>4. /\ rpc'[r] = "unavailable" /\ chain'[r] = <<>>
          /\ \A q \in Routes : q # r => /\ rpc'[q] = rpc[q] /\ chain'[q] = chain[q]
                                        /\ pos'[q] = pos[q] /\ stamped'[q] = stamped[q]
      <3>1. \A q \in Routes : q # r => stamped'[q] = stamped[q]
        BY <1>1, <1>3 DEF RouterTypes
      <3> QED BY <1>3, <2>1, <3>1, FinishTypes
    <2>5. \A q \in Routes : CallsAheadKept(q) /\ IsInjective(chain'[q])
                            /\ (rpc'[q] = "calling" => stamped'[q] = stamped[q])
      <3>1. TAKE q \in Routes
      <3>2. CASE q = r
        BY <2>4, <3>2, EmptyIsInjective DEF CallsAheadKept
      <3>3. CASE q # r
        BY <2>4, <3>3 DEF CallsAheadKept, RouterInv, RoutesInRange
      <3> QED BY <3>2, <3>3
    <2>6. RoutesInRange'
      BY <2>5 DEF RouterInv, RoutesInRange, CallsAheadKept
    <2>7. CountBounded'
      BY <1>4, <2>2, <2>5, NoCountAdded, KeptNotAdded
    <2>8. OpenedSince'
      <3>1. SUFFICES ASSUME NEW q \in Routes, rpc'[q] = "calling",
                            NEW p \in Ahead(q)', IsOpen(p)'
                     PROVE  p \in stamped'[q]
        BY DEF OpenedSince
      <3>2. /\ rpc[q] = "calling" /\ p \in Ahead(q) /\ stamped'[q] = stamped[q]
        BY <2>5, <3>1 DEF CallsAheadKept, Ahead
      <3>3. IsOpen(p)
        BY <1>3, <1>5, <3>1, <3>2, AheadType
      <3> QED BY <3>2, <3>3 DEF RouterInv, OpenedSince
    <2>9. ReliableAhead'
      BY <1>4, <1>7, <2>3 DEF RouterInv, ReliableAhead
    <2> QED BY <2>2, <2>6, <2>7, <2>8, <2>9 DEF RouterInv
  <1>11. CASE available # <<>>
    <2>1. /\ rpc' = [rpc EXCEPT ![r] = "calling"]
          /\ chain' = [chain EXCEPT ![r] = available]
          /\ pos' = [pos EXCEPT ![r] = 1]
          /\ attempt' = [attempt EXCEPT ![r] = 0]
      BY <1>1, <1>11 DEF available
    <2>2. RouterTypes'
      <3>1. chain' \in [Routes -> Seq(Enabled)]
        BY <1>2, <1>3, <2>1 DEF RouterTypes
      <3>2. pos' \in [Routes -> Nat \ {0}]
        BY <1>3, <2>1 DEF RouterTypes
      <3>3. attempt' \in [Routes -> 0 .. MaxRetries - 1]
        BY <1>3, <2>1, BreakerBounds DEF RouterTypes
      <3>4. rpc' \in [Routes -> {"idle", "streaming", "calling", "exhausted", "unavailable"}]
        BY <1>3, <2>1 DEF RouterTypes
      <3> QED BY <1>7, <3>1, <3>2, <3>3, <3>4 DEF RouterTypes
    <2>3. /\ rpc'[r] = "calling" /\ chain'[r] = available /\ pos'[r] = 1
          /\ \A q \in Routes : q # r => /\ rpc'[q] = rpc[q] /\ chain'[q] = chain[q]
                                        /\ pos'[q] = pos[q] /\ stamped'[q] = stamped[q]
      BY <1>1, <1>3, <2>1 DEF RouterTypes
    <2>4. 1 \in 1 .. Len(available) /\ DOMAIN available = 1 .. Len(available)
      BY <1>2, <1>11
    <2>5. RoutesInRange'
      <3>1. SUFFICES ASSUME NEW q \in Routes
                     PROVE  /\ IsInjective(chain'[q])
                            /\ rpc'[q] = "calling" => pos'[q] \in 1 .. Len(chain'[q])
        BY DEF RoutesInRange
      <3>2. CASE q = r
        BY <1>2, <2>3, <2>4, <3>2
      <3>3. CASE q # r
        BY <2>3, <3>3 DEF RouterInv, RoutesInRange
      <3> QED BY <3>2, <3>3
    <2>6. \A q \in Routes : q # r => CallsAheadKept(q)
      BY <2>3 DEF CallsAheadKept
    <2>7. \A p \in Ahead(r)' : ~IsOpen(p)
      <3>1. Ahead(r)' = {ProviderOf[available[k]] : k \in 1 .. Len(available)}
        BY <2>3 DEF Ahead
      <3> QED BY <1>2, <2>4, <3>1
    <2>8. CountBounded'
      <3>1. ASSUME NEW p \in Providers, Tripped(p)', NEW c \in Pending(p)'
            PROVE  c \in Pending(p)
        <4>1. /\ c \in Routes \X ModelsOf(p) /\ rpc'[c[1]] = "calling"
              /\ \E k \in pos'[c[1]] .. Len(chain'[c[1]]) : chain'[c[1]][k] = c[2]
          BY <3>1 DEF Pending, ModelsOf
        <4>2. c[1] \in Routes /\ c[2] \in Enabled /\ ProviderOf[c[2]] = p
          BY <4>1 DEF ModelsOf
        <4>3. IsOpen(p)
          BY <1>6, <3>1, <4>2 DEF ProvidersAsked
        <4>4. c[1] # r
          <5>1. SUFFICES ASSUME c[1] = r PROVE FALSE
            OBVIOUS
          <5>2. p \in Ahead(r)'
            BY <4>1, <4>2, <5>1 DEF Ahead
          <5> QED BY <2>7, <4>3, <5>2
        <4>5. /\ rpc[c[1]] = "calling" /\ chain'[c[1]] = chain[c[1]]
              /\ pos'[c[1]] = pos[c[1]]
          BY <2>3, <4>1, <4>2, <4>4
        <4> QED BY <4>1, <4>5 DEF Pending
      <3> QED BY <1>4, <2>2, <3>1, NoCountAdded
    <2>9. OpenedSince'
      <3>1. SUFFICES ASSUME NEW q \in Routes, rpc'[q] = "calling",
                            NEW p \in Ahead(q)', IsOpen(p)'
                     PROVE  p \in stamped'[q]
        BY DEF OpenedSince
      <3>2. p \in Providers
        <4>1. Ahead(q)' \in SUBSET Providers
          <5>1. pos'[q] \in Nat \ {0} /\ chain'[q] \in Seq(Enabled)
            BY <2>2 DEF RouterTypes
          <5>2. \A k \in pos'[q] .. Len(chain'[q]) : chain'[q][k] \in Enabled
            BY <5>1
          <5> QED BY <5>2, ModelsAssumption DEF Ahead
        <4> QED BY <3>1, <4>1
      <3>3. IsOpen(p)
        BY <1>5, <3>1, <3>2
      <3>4. q # r
        BY <2>7, <3>1, <3>3
      <3>5. rpc[q] = "calling" /\ p \in Ahead(q) /\ stamped'[q] = stamped[q]
        BY <2>3, <3>1, <3>4 DEF Ahead
      <3> QED BY <3>3, <3>5 DEF RouterInv, OpenedSince
    <2>10. ReliableAhead'
      <3>1. \A p \in reliable' : ~Tripped(p)'
        BY <1>4, <1>7 DEF RouterInv, RouterTypes, ReliableAhead
      <3>2. ASSUME \E m \in Enabled : ProviderOf[m] \in reliable', NEW q \in Routes
            PROVE  /\ rpc'[q] \notin {"exhausted", "unavailable"}
                   /\ rpc'[q] = "calling" => \E p \in Ahead(q)' : p \in reliable'
        <4>1. CASE q = r
          <5>1. PICK m \in Enabled : ProviderOf[m] \in reliable
            BY <1>7, <3>2
          <5>2. PICK k \in DOMAIN available : available[k] = m
            BY <1>2, <1>9, <5>1
          <5>3. ProviderOf[m] \in Ahead(r)'
            BY <2>3, <2>4, <5>2 DEF Ahead
          <5> QED BY <1>7, <2>3, <4>1, <5>1, <5>3
        <4>2. CASE q # r
          <5>1. rpc'[q] = rpc[q] /\ Ahead(q)' = Ahead(q)
            BY <2>3, <4>2 DEF Ahead
          <5>2. \E m \in Enabled : ProviderOf[m] \in reliable
            BY <1>7, <3>2
          <5> QED BY <1>7, <5>1, <5>2 DEF RouterInv, ReliableAhead
        <4> QED BY <4>1, <4>2
      <3> QED BY <3>1, <3>2 DEF ReliableAhead
    <2> QED BY <2>2, <2>5, <2>8, <2>9, <2>10 DEF RouterInv
  <1> QED BY <1>10, <1>11
\* The model being called is one of those pending.
LEMMA CurrentIsPending ==
    ASSUME RouterTypes, RoutesInRange, NEW r \in Routes, rpc[r] = "calling"
    PROVE  /\ pos[r] \in 1 .. Len(chain[r]) /\ Len(chain[r]) \in Nat
           /\ chain[r][pos[r]] \in Enabled
           /\ Current(r) \in Providers /\ Current(r) \in Ahead(r)
           /\ <<r, chain[r][pos[r]]>> \in Pending(Current(r))
  <1>1. pos[r] \in 1 .. Len(chain[r]) /\ chain[r] \in Seq(Enabled) /\ Len(chain[r]) \in Nat
    BY DEF RouterTypes, RoutesInRange
  <1>2. chain[r][pos[r]] \in Enabled /\ pos[r] \in pos[r] .. Len(chain[r])
    BY <1>1
  <1>3. Current(r) \in Providers /\ Current(r) \in Ahead(r)
    BY <1>2, ModelsAssumption DEF Current, Ahead
  <1>4. chain[r][pos[r]] \in ModelsOf(Current(r))
    BY <1>2 DEF ModelsOf, Current
  <1>5. <<r, chain[r][pos[r]]>> \in Pending(Current(r))
    BY <1>2, <1>4 DEF Pending
  <1> QED BY <1>1, <1>2, <1>3, <1>5

\* A call that fails is one fewer ahead, and at most one more that is counted.
LEMMA FailStep ==
    ASSUME RouterInv, NEW r \in Routes, CallFails(r)
    PROVE  RouterInv'
  <1> DEFINE i == pos[r]
             m == chain[r][i]
  <1>0. PICK p : p = Current(r)
    OBVIOUS
  <1>1. RouterTypes /\ RoutesInRange /\ rpc[r] = "calling" /\ p \notin reliable
    BY <1>0 DEF RouterInv, CallFails
  <1>2. /\ i \in 1 .. Len(chain[r]) /\ Len(chain[r]) \in Nat /\ m \in Enabled
        /\ p \in Providers /\ <<r, m>> \in Pending(p)
    BY <1>0, <1>1, CurrentIsPending
  <1>3. /\ failures' = [failures EXCEPT ![p] = @ + 1]
        /\ age' = IF failures'[p] >= Threshold THEN [age EXCEPT ![p] = 0] ELSE age
        /\ probes' = probes /\ reliable' = reliable
        /\ stamped' = [q \in Routes |->
                           IF rpc'[q] # "calling" THEN {}
                           ELSE stamped[q] \cup {o \in {p} : Tripped(o)'}]
    BY <1>0 DEF CallFails, RecordFailure
  <1>4. /\ failures' \in [Providers -> Nat] /\ failures'[p] = failures[p] + 1
        /\ failures[p] \in Nat
        /\ \A o \in Providers : o # p => failures'[o] = failures[o] /\ age'[o] = age[o]
        /\ age' \in [Providers -> 0 .. Recovery + 1]
    <2>1. failures \in [Providers -> Nat] /\ age \in [Providers -> 0 .. Recovery + 1]
      BY <1>1 DEF RouterTypes
    <2>2. failures' \in [Providers -> Nat] /\ failures'[p] = failures[p] + 1
      BY <1>2, <1>3, <2>1
    <2>3. \A o \in Providers : o # p => failures'[o] = failures[o] /\ age'[o] = age[o]
      BY <1>3, <2>1
    <2>4. age' \in [Providers -> 0 .. Recovery + 1]
      <3>1. 0 \in 0 .. Recovery + 1
        BY BreakerBounds
      <3> QED BY <1>3, <2>1, <3>1
    <2> QED BY <1>2, <2>1, <2>2, <2>3, <2>4
  <1>5. stamped' \in [Routes -> SUBSET Providers]
        /\ \A q \in Routes : rpc'[q] = "calling" =>
               /\ stamped[q] \in SUBSET stamped'[q]
               /\ Tripped(p)' => p \in stamped'[q]
    BY <1>1, <1>2, <1>3 DEF RouterTypes
  \* The route goes to its next model or ends.
  <1>6. /\ \/ /\ i < Len(chain[r]) /\ rpc' = rpc /\ chain' = chain
              /\ pos' = [pos EXCEPT ![r] = i + 1]
           \/ i = Len(chain[r]) /\ rpc'[r] = "exhausted" /\ chain'[r] = <<>>
        /\ \A q \in Routes : q # r => /\ rpc'[q] = rpc[q] /\ chain'[q] = chain[q]
                                      /\ pos'[q] = pos[q]
        /\ rpc' \in [Routes -> {"idle", "streaming", "calling", "exhausted", "unavailable"}]
        /\ chain' \in [Routes -> Seq(Enabled)]
        /\ pos' \in [Routes -> Nat \ {0}]
        /\ attempt' \in [Routes -> 0 .. MaxRetries - 1]
    <2>1. CASE i < Len(chain[r])
      <3>1. /\ pos' = [pos EXCEPT ![r] = i + 1] /\ rpc' = rpc /\ chain' = chain
            /\ attempt' = [attempt EXCEPT ![r] = 0]
        BY <2>1 DEF CallFails, GoToNext
      <3>2. pos' \in [Routes -> Nat \ {0}]
        <4>1. i + 1 \in Nat \ {0}
          BY <1>2
        <4> QED BY <1>1, <3>1, <4>1 DEF RouterTypes
      <3>3. attempt' \in [Routes -> 0 .. MaxRetries - 1]
        BY <1>1, <3>1, BreakerBounds DEF RouterTypes
      <3> QED BY <1>1, <2>1, <3>1, <3>2, <3>3 DEF RouterTypes
    <2>2. CASE ~(i < Len(chain[r]))
      <3>1. Finish(r, "exhausted") /\ i = Len(chain[r])
        BY <1>2, <2>2 DEF CallFails, GoToNext
      <3> QED BY <1>1, <3>1, FinishTypes
    <2> QED BY <2>1, <2>2
  <1>7. RouterTypes'
    BY <1>1, <1>3, <1>4, <1>5, <1>6 DEF RouterTypes
  <1>8. RoutesInRange'
    <2>1. SUFFICES ASSUME NEW q \in Routes
                   PROVE  /\ IsInjective(chain'[q])
                          /\ rpc'[q] = "calling" => pos'[q] \in 1 .. Len(chain'[q])
      BY DEF RoutesInRange
    <2>2. IsInjective(chain[q]) /\ (rpc[q] = "calling" => pos[q] \in 1 .. Len(chain[q]))
      BY <1>1 DEF RoutesInRange
    <2>3. CASE q = r /\ i < Len(chain[r]) /\ chain' = chain /\ pos' = [pos EXCEPT ![r] = i + 1]
      <3>1. pos'[r] = i + 1 /\ i + 1 \in 1 .. Len(chain[r])
        BY <1>1, <1>2, <2>3 DEF RouterTypes
      <3> QED BY <2>2, <2>3, <3>1
    <2>4. CASE q = r /\ rpc'[r] = "exhausted" /\ chain'[r] = <<>>
      BY <2>4, EmptyIsInjective
    <2>5. CASE q # r
      BY <1>6, <2>2, <2>5
    <2> QED BY <1>6, <2>3, <2>4, <2>5
  \* What is ahead was ahead, and the model that failed is not.
  <1>9. \A q \in Routes : rpc'[q] = "calling" =>
            /\ rpc[q] = "calling" /\ chain'[q] = chain[q]
            /\ pos[q] \in Int /\ pos'[q] \in Int /\ pos'[q] >= pos[q]
            /\ q = r => pos'[q] = i + 1
    <2>1. TAKE q \in Routes
    <2>2. HAVE rpc'[q] = "calling"
    <2>3. pos[q] \in Int /\ pos'[q] \in Int
      BY <1>1, <1>6 DEF RouterTypes
    <2>4. CASE q = r
      BY <1>1, <1>6, <2>2, <2>3, <2>4 DEF RouterTypes
    <2>5. CASE q # r
      BY <1>6, <2>2, <2>3, <2>5
    <2> QED BY <2>4, <2>5
  <1>10. \A o \in Providers : \A c \in Pending(o)' : c \in Pending(o) /\ c # <<r, m>>
    <2>1. SUFFICES ASSUME NEW o \in Providers, NEW c \in Pending(o)'
                   PROVE  c \in Pending(o) /\ c # <<r, m>>
      OBVIOUS
    <2>2. c \in Routes \X ModelsOf(o) /\ rpc'[c[1]] = "calling"
      BY <2>1 DEF Pending, ModelsOf
    <2>3. PICK k \in pos'[c[1]] .. Len(chain'[c[1]]) : chain'[c[1]][k] = c[2]
      BY <2>1 DEF Pending
    <2>4. c[1] \in Routes /\ c = <<c[1], c[2]>>
      BY <2>2
    <2>5. /\ rpc[c[1]] = "calling" /\ chain'[c[1]] = chain[c[1]]
          /\ pos[c[1]] \in Int /\ pos'[c[1]] >= pos[c[1]] /\ pos'[c[1]] \in Int
          /\ c[1] = r => pos'[c[1]] = i + 1
      BY <1>9, <2>2, <2>4
    <2>6. k \in pos[c[1]] .. Len(chain[c[1]]) /\ chain[c[1]][k] = c[2]
      <3>1. Len(chain[c[1]]) \in Int
        BY <1>1, <2>4 DEF RouterTypes
      <3> QED BY <2>3, <2>5, <3>1
    <2>7. c \in Pending(o)
      BY <2>2, <2>5, <2>6 DEF Pending
    <2>8. c # <<r, m>>
      <3>1. SUFFICES ASSUME c[1] = r, c[2] = m PROVE FALSE
        BY <2>4
      <3>2. k \in DOMAIN chain[r] /\ i \in DOMAIN chain[r] /\ k # i
        <4>1. chain[r] \in Seq(Enabled) /\ k >= i + 1 /\ k \in 1 .. Len(chain[r])
          BY <1>1, <1>2, <2>3, <2>5, <3>1 DEF RouterTypes
        <4> QED BY <1>2, <4>1
      <3>3. chain[r][k] = chain[r][i]
        BY <2>6, <3>1
      <3> QED BY <1>1, <3>2, <3>3 DEF RoutesInRange, IsInjective
    <2> QED BY <2>7, <2>8
  <1>11. CountBounded'
    <2>1. SUFFICES ASSUME NEW o \in Providers, Tripped(o)'
                   PROVE  failures'[o] + Cardinality(Pending(o)') < Threshold + CallsAhead(o)
      BY DEF CountBounded, CallsAhead
    <2> DEFINE A == Pending(o)'
               B == Pending(o)
    <2>2. /\ CallsAhead(o) \in Nat /\ IsFiniteSet(B) /\ Cardinality(B) \in Nat
          /\ Cardinality(B) <= CallsAhead(o)
      BY PendingFacts
    <2>3. Tripped(o) => failures[o] + Cardinality(B) < Threshold + CallsAhead(o)
      BY DEF RouterInv, CountBounded
    <2>4. \A c \in A : c \in B /\ c # <<r, m>>
      BY <1>10
    <2>5. o = p => <<r, m>> \in B
      BY <1>2
    <2> HIDE DEF A, B, m, i
    <2>6. CASE o # p
      <3>1. A \in SUBSET B
        BY <2>4
      <3>2. Cardinality(A) <= Cardinality(B) /\ IsFiniteSet(A)
        BY <2>2, <3>1, FS_Subset
      <3>3. Cardinality(A) \in Nat
        BY <3>2, FS_CardinalityType
      <3>4. failures'[o] = failures[o] /\ Tripped(o) /\ failures[o] \in Nat
        BY <1>1, <1>4, <2>1, <2>6 DEF Tripped, RouterTypes
      <3>5. failures'[o] + Cardinality(A) < Threshold + CallsAhead(o)
        BY <2>2, <2>3, <3>2, <3>3, <3>4, BreakerBounds
      <3> QED BY <3>5 DEF A
    <2>7. CASE o = p
      <3>1. /\ IsFiniteSet(B \ {<<r, m>>})
            /\ Cardinality(B \ {<<r, m>>}) = Cardinality(B) - 1
        BY <2>2, <2>5, <2>7, FS_RemoveElement
      <3>2. A \in SUBSET (B \ {<<r, m>>})
        BY <2>4
      <3>3. Cardinality(A) <= Cardinality(B) - 1 /\ IsFiniteSet(A)
        BY <3>1, <3>2, FS_Subset
      <3>4. Cardinality(A) \in Nat
        BY <3>3, FS_CardinalityType
      <3>5. failures'[o] = failures[o] + 1 /\ failures[o] \in Nat
        BY <1>4, <2>7
      <3>6. CASE Tripped(o)
        <4>1. failures'[o] + Cardinality(A) < Threshold + CallsAhead(o)
          BY <2>2, <2>3, <3>3, <3>4, <3>5, <3>6, BreakerBounds
        <4> QED BY <4>1 DEF A
      <3>7. CASE ~Tripped(o)
        <4>1. failures[o] < Threshold
          BY <3>5, <3>7, BreakerBounds DEF Tripped
        <4>2. failures'[o] + Cardinality(A) < Threshold + CallsAhead(o)
          BY <2>2, <3>3, <3>4, <3>5, <4>1, BreakerBounds
        <4> QED BY <4>2 DEF A
      <3> QED BY <3>6, <3>7
    <2> QED BY <2>6, <2>7
  <1>12. \A q \in Routes : rpc'[q] = "calling" =>
             rpc[q] = "calling" /\ \A o \in Ahead(q)' : o \in Ahead(q)
    <2>1. SUFFICES ASSUME NEW q \in Routes, rpc'[q] = "calling", NEW o \in Ahead(q)'
                   PROVE  rpc[q] = "calling" /\ o \in Ahead(q)
      BY <1>9
    <2>2. PICK k \in pos'[q] .. Len(chain'[q]) : o = ProviderOf[chain'[q][k]]
      BY <2>1 DEF Ahead
    <2>3. /\ rpc[q] = "calling" /\ chain'[q] = chain[q]
          /\ pos[q] \in Int /\ pos'[q] \in Int /\ pos'[q] >= pos[q]
      BY <1>9, <2>1
    <2>4. Len(chain[q]) \in Int
      BY <1>1 DEF RouterTypes
    <2>5. k \in pos[q] .. Len(chain[q]) /\ o = ProviderOf[chain[q][k]]
      BY <2>2, <2>3, <2>4
    <2> QED BY <2>3, <2>5 DEF Ahead
  <1>13. OpenedSince'
    <2>1. SUFFICES ASSUME NEW q \in Routes, rpc'[q] = "calling",
                          NEW o \in Ahead(q)', IsOpen(o)'
                   PROVE  o \in stamped'[q]
      BY DEF OpenedSince
    <2>2. rpc[q] = "calling" /\ o \in Ahead(q) /\ o \in Providers
      BY <1>1, <1>12, <2>1, AheadType
    <2>3. CASE o = p
      BY <1>5, <2>1, <2>3 DEF IsOpen
    <2>4. CASE o # p
      <3>1. IsOpen(o)
        BY <1>4, <2>1, <2>2, <2>4 DEF IsOpen, Tripped, Expired
      <3> QED BY <1>5, <2>1, <2>2, <3>1 DEF RouterInv, OpenedSince
    <2> QED BY <2>3, <2>4
  <1>14. ReliableAhead'
    <2>1. \A o \in reliable' : ~Tripped(o)'
      <3>1. TAKE o \in reliable'
      <3>2. o \in reliable /\ o # p /\ o \in Providers
        BY <1>1, <1>3 DEF RouterTypes
      <3>3. ~Tripped(o) /\ failures'[o] = failures[o]
        BY <1>4, <3>2 DEF RouterInv, ReliableAhead
      <3> QED BY <3>3 DEF Tripped
    <2>2. ASSUME \E e \in Enabled : ProviderOf[e] \in reliable', NEW q \in Routes
          PROVE  /\ rpc'[q] \notin {"exhausted", "unavailable"}
                 /\ rpc'[q] = "calling" => \E o \in Ahead(q)' : o \in reliable'
      <3>1. /\ rpc[q] \notin {"exhausted", "unavailable"}
            /\ rpc[q] = "calling" => \E o \in Ahead(q) : o \in reliable
        BY <1>3, <2>2 DEF RouterInv, ReliableAhead
      <3>2. CASE q # r
        <4>1. rpc'[q] = rpc[q] /\ Ahead(q)' = Ahead(q)
          BY <1>6, <3>2 DEF Ahead
        <4> QED BY <1>3, <3>1, <4>1
      <3>3. CASE q = r
        <4>1. PICK k \in i .. Len(chain[r]) : ProviderOf[chain[r][k]] \in reliable
          BY <1>1, <3>1, <3>3 DEF Ahead
        <4>2. k # i
          BY <1>0, <1>1, <4>1 DEF Current
        <4>3. k \in i + 1 .. Len(chain[r]) /\ i < Len(chain[r])
          BY <1>2, <4>1, <4>2
        <4>4. rpc' = rpc /\ chain' = chain /\ pos'[r] = i + 1
          <5>1. rpc' = rpc /\ chain' = chain /\ pos' = [pos EXCEPT ![r] = i + 1]
            <6>1. i # Len(chain[r])
              BY <1>2, <4>3
            <6> QED BY <1>6, <6>1
          <5>2. r \in DOMAIN pos
            BY <1>1 DEF RouterTypes
          <5> HIDE DEF i
          <5> QED BY <5>1, <5>2
        <4>5. ProviderOf[chain[r][k]] \in Ahead(r)'
          BY <4>3, <4>4 DEF Ahead
        <4> QED BY <1>1, <1>3, <3>3, <4>1, <4>4, <4>5
      <3> QED BY <3>2, <3>3
    <2> QED BY <2>1, <2>2 DEF ReliableAhead
  <1> QED BY <1>7, <1>8, <1>11, <1>13, <1>14 DEF RouterInv
LEMMA SuccessStep ==
    ASSUME RouterInv, NEW r \in Routes, CallSucceeds(r)
    PROVE  RouterInv'
  <1>0. PICK p : p = Current(r)
    OBVIOUS
  <1>1. RouterTypes /\ RoutesInRange /\ rpc[r] = "calling" /\ Finish(r, "idle")
    BY DEF RouterInv, CallSucceeds
  <1>2. p \in Providers
    BY <1>0, <1>1, CurrentIsPending
  <1>3. /\ failures' = [failures EXCEPT ![p] = 0]
        /\ age' = [age EXCEPT ![p] = Recovery + 1]
        /\ stamped' = [stamped EXCEPT ![r] = {}]
        /\ probes' = probes /\ reliable' = reliable
    BY <1>0 DEF CallSucceeds, RecordSuccess
  <1>4. /\ rpc'[r] = "idle" /\ chain'[r] = <<>>
        /\ \A q \in Routes : q # r => /\ rpc'[q] = rpc[q] /\ chain'[q] = chain[q]
                                      /\ pos'[q] = pos[q]
    BY <1>1, FinishTypes
  <1>5. RouterTypes'
    <2>1. Recovery + 1 \in 0 .. Recovery + 1
      BY BreakerBounds
    <2>2. /\ failures' \in [Providers -> Nat] /\ age' \in [Providers -> 0 .. Recovery + 1]
          /\ stamped' \in [Routes -> SUBSET Providers]
      BY <1>1, <1>3, <2>1 DEF RouterTypes
    <2>3. /\ rpc' \in [Routes -> {"idle", "streaming", "calling", "exhausted", "unavailable"}]
          /\ chain' \in [Routes -> Seq(Enabled)] /\ pos' \in [Routes -> Nat \ {0}]
          /\ attempt' \in [Routes -> 0 .. MaxRetries - 1]
      BY <1>1, FinishTypes
    <2> QED BY <1>1, <1>3, <2>2, <2>3 DEF RouterTypes
  <1>6. \A o \in Providers : /\ Tripped(o)' => Tripped(o) /\ failures'[o] = failures[o]
                             /\ IsOpen(o)' => IsOpen(o)
    <2>1. TAKE o \in Providers
    <2>2. CASE o = p
      <3>1. failures'[o] = 0
        BY <1>1, <1>2, <1>3, <2>2 DEF RouterTypes
      <3>2. ~Tripped(o)'
        BY <3>1, BreakerBounds DEF Tripped
      <3> QED BY <3>2 DEF IsOpen
    <2>3. CASE o # p
      <3>1. failures'[o] = failures[o] /\ age'[o] = age[o]
        BY <1>1, <1>3, <2>3 DEF RouterTypes
      <3> QED BY <3>1 DEF Tripped, IsOpen, Expired
    <2> QED BY <2>2, <2>3
  <1>7. \A q \in Routes : /\ CallsAheadKept(q)
                          /\ IsInjective(chain'[q])
                          /\ rpc'[q] = "calling" => stamped'[q] = stamped[q]
                          /\ rpc'[q] \in {"exhausted", "unavailable"} => rpc'[q] = rpc[q]
    <2>1. TAKE q \in Routes
    <2>2. CASE q = r
      BY <1>4, <2>2, EmptyIsInjective DEF CallsAheadKept
    <2>3. CASE q # r
      BY <1>1, <1>3, <1>4, <2>3 DEF CallsAheadKept, RoutesInRange, RouterTypes
    <2> QED BY <2>2, <2>3
  <1> QED BY <1>3, <1>5, <1>6, <1>7, QuietStep

\* Steps that change nothing of the breakers and of the routes that call models.
LEMMA AsideStep ==
    ASSUME RouterInv, RouterTypes', UNCHANGED <<failures, age, reliable, stamped>>,
           \A r \in Routes : /\ CallsAheadKept(r)
                             /\ IsInjective(chain'[r])
                             /\ rpc'[r] \in {"exhausted", "unavailable"} => rpc'[r] = rpc[r]
    PROVE  RouterInv'
  <1>1. \A p \in Providers : /\ Tripped(p)' => Tripped(p) /\ failures'[p] = failures[p]
                             /\ IsOpen(p)' => IsOpen(p)
    BY DEF Tripped, IsOpen, Expired
  <1> QED BY <1>1, QuietStep

\* Steps of the breakers alone.
LEMMA BreakerStep ==
    ASSUME RouterInv, RouterTypes', UNCHANGED <<rpc, routeVars, stamped, reliable>>,
           \A p \in Providers : /\ Tripped(p)' => Tripped(p) /\ failures'[p] = failures[p]
                                /\ IsOpen(p)' => IsOpen(p)
    PROVE  RouterInv'
  <1>1. \A r \in Routes : /\ CallsAheadKept(r)
                          /\ IsInjective(chain'[r])
                          /\ rpc'[r] = "calling" => stamped'[r] = stamped[r]
                          /\ rpc'[r] \in {"exhausted", "unavailable"} => rpc'[r] = rpc[r]
    BY DEF CallsAheadKept, routeVars, RouterInv, RoutesInRange
  <1> QED BY <1>1, QuietStep

LEMMA RouterInvStep ==
    ASSUME RouterInv, [NextRoute]_routerVars
    PROVE  RouterInv'
  <1>1. RouterTypes /\ RoutesInRange
    BY DEF RouterInv
  <1>2. ASSUME NEW r \in Routes, Route(r) PROVE RouterInv'
    BY <1>2, BeginStep DEF Route, Busy
  <1>3. ASSUME NEW r \in Routes, Stream(r) PROVE RouterInv'
    <2>1. /\ rpc' = [rpc EXCEPT ![r] = "streaming"] /\ rpc[r] # "calling"
          /\ UNCHANGED <<failures, age, probes, reliable, chain, pos, attempt, stamped>>
      BY <1>3 DEF Stream, Busy, breaker, routeVars
    <2>2. RouterTypes'
      BY <1>1, <2>1 DEF RouterTypes
    <2>3. \A q \in Routes : /\ CallsAheadKept(q)
                            /\ IsInjective(chain'[q])
                            /\ rpc'[q] \in {"exhausted", "unavailable"} => rpc'[q] = rpc[q]
      BY <1>1, <2>1 DEF CallsAheadKept, RouterTypes, RoutesInRange
    <2> QED BY <2>1, <2>2, <2>3, AsideStep
  <1>4. ASSUME NEW r \in Routes, StreamEnds(r) PROVE RouterInv'
    <2>1. /\ Finish(r, "idle") /\ UNCHANGED <<failures, age, probes, reliable, stamped>>
      BY <1>4 DEF StreamEnds, breaker
    <2>2. RouterTypes'
      BY <1>1, <2>1, FinishTypes DEF RouterTypes
    <2>3. /\ rpc'[r] = "idle" /\ chain'[r] = <<>>
          /\ \A q \in Routes : q # r => /\ rpc'[q] = rpc[q] /\ chain'[q] = chain[q]
                                        /\ pos'[q] = pos[q]
      BY <1>1, <2>1, FinishTypes
    <2>4. \A q \in Routes : /\ CallsAheadKept(q)
                            /\ IsInjective(chain'[q])
                            /\ rpc'[q] \in {"exhausted", "unavailable"} => rpc'[q] = rpc[q]
      <3>1. TAKE q \in Routes
      <3>2. CASE q = r
        BY <2>3, <3>2, EmptyIsInjective DEF CallsAheadKept
      <3>3. CASE q # r
        BY <1>1, <2>3, <3>3 DEF CallsAheadKept, RoutesInRange
      <3> QED BY <3>2, <3>3
    <2> QED BY <2>1, <2>2, <2>4, AsideStep
  <1>5. ASSUME NEW r \in Routes, StreamBreaks(r) PROVE RouterInv'
    BY <1>5, BeginStep DEF StreamBreaks
  <1>6. ASSUME NEW r \in Routes, CallSucceeds(r) PROVE RouterInv'
    BY <1>6, SuccessStep
  <1>7. ASSUME NEW r \in Routes, AttemptFails(r) PROVE RouterInv'
    <2>1. /\ attempt' = [attempt EXCEPT ![r] = @ + 1] /\ attempt[r] + 1 < MaxRetries
          /\ UNCHANGED <<failures, age, probes, reliable, rpc, chain, pos, stamped>>
      BY <1>7 DEF AttemptFails, Retryable, breaker
    <2>2. RouterTypes'
      <3>1. attempt[r] + 1 \in 0 .. MaxRetries - 1
        BY <1>1, <2>1, BreakerBounds DEF RouterTypes
      <3> QED BY <1>1, <2>1, <3>1 DEF RouterTypes
    <2>3. \A q \in Routes : /\ CallsAheadKept(q)
                            /\ IsInjective(chain'[q])
                            /\ rpc'[q] \in {"exhausted", "unavailable"} => rpc'[q] = rpc[q]
      BY <1>1, <2>1 DEF CallsAheadKept, RoutesInRange
    <2> QED BY <2>1, <2>2, <2>3, AsideStep
  <1>8. ASSUME NEW r \in Routes, CallFails(r) PROVE RouterInv'
    BY <1>8, FailStep
  <1>9. ASSUME NEW p \in Providers, ProbeReads(p) PROVE RouterInv'
    <2>1. probes' = probes \cup {p}
          /\ UNCHANGED <<failures, age, rpc, chain, pos, attempt, stamped, reliable>>
      BY <1>9 DEF ProbeReads, breaker, routeVars
    <2>2. RouterTypes'
      BY <1>1, <2>1 DEF RouterTypes
    <2>3. \A o \in Providers : /\ Tripped(o)' => Tripped(o) /\ failures'[o] = failures[o]
                               /\ IsOpen(o)' => IsOpen(o)
      BY <2>1 DEF Tripped, IsOpen, Expired
    <2> QED BY <2>1, <2>2, <2>3, BreakerStep DEF routeVars
  <1>10. ASSUME NEW p \in Providers, ProbeWrites(p) PROVE RouterInv'
    <2>1. /\ failures' = [failures EXCEPT ![p] = Threshold - 1] /\ probes' = probes \ {p}
          /\ UNCHANGED <<age, rpc, chain, pos, attempt, stamped, reliable>>
      BY <1>10 DEF ProbeWrites, routeVars
    <2>2. RouterTypes'
      <3>1. Threshold - 1 \in Nat
        BY BreakerBounds
      <3> QED BY <1>1, <2>1, <3>1 DEF RouterTypes
    <2>3. \A o \in Providers : /\ Tripped(o)' => Tripped(o) /\ failures'[o] = failures[o]
                               /\ IsOpen(o)' => IsOpen(o)
      <3>1. TAKE o \in Providers
      <3>2. CASE o = p
        <4>1. failures'[o] = Threshold - 1
          BY <1>1, <2>1, <3>2 DEF RouterTypes
        <4>2. ~Tripped(o)'
          BY <4>1, BreakerBounds DEF Tripped
        <4> QED BY <4>2 DEF IsOpen
      <3>3. CASE o # p
        <4>1. failures'[o] = failures[o] /\ age'[o] = age[o]
          BY <1>1, <2>1, <3>3 DEF RouterTypes
        <4> QED BY <4>1 DEF Tripped, IsOpen, Expired
      <3> QED BY <3>2, <3>3
    <2> QED BY <2>1, <2>2, <2>3, BreakerStep DEF routeVars
  <1>11. ASSUME BreakersAge PROVE RouterInv'
    <2>1. /\ age' = [p \in Providers |-> IF Expired(p) THEN age[p] ELSE age[p] + 1]
          /\ UNCHANGED <<failures, probes, reliable, rpc, chain, pos, attempt, stamped>>
      BY <1>11 DEF BreakersAge, routeVars
    <2>2. \A p \in Providers : age'[p] \in 0 .. Recovery + 1 /\ age'[p] >= age[p]
                               /\ age[p] \in Int
      <3>1. TAKE p \in Providers
      <3>2. age[p] \in 0 .. Recovery + 1
        BY <1>1 DEF RouterTypes
      <3> QED BY <2>1, <3>2, BreakerBounds DEF Expired
    <2>3. RouterTypes'
      <3>1. age' \in [Providers -> 0 .. Recovery + 1]
        BY <2>1, <2>2
      <3> QED BY <1>1, <2>1, <3>1 DEF RouterTypes
    <2>4. \A o \in Providers : /\ Tripped(o)' => Tripped(o) /\ failures'[o] = failures[o]
                               /\ IsOpen(o)' => IsOpen(o)
      <3>1. TAKE o \in Providers
      <3>2. failures'[o] = failures[o]
        BY <2>1
      <3>3. age'[o] \in Int /\ (age[o] > Recovery => age'[o] > Recovery)
        BY <2>2, BreakerBounds
      <3> QED BY <3>2, <3>3 DEF Tripped, IsOpen, Expired
    <2> QED BY <2>1, <2>3, <2>4, BreakerStep DEF routeVars
  <1>12. CASE UNCHANGED routerVars
    <2>1. UNCHANGED <<reliable, failures, age, probes, rpc, chain, pos, attempt, stamped>>
      BY <1>12 DEF routerVars
    <2>2. RouterTypes'
      BY <1>1, <2>1 DEF RouterTypes
    <2>3. \A o \in Providers : /\ Tripped(o)' => Tripped(o) /\ failures'[o] = failures[o]
                               /\ IsOpen(o)' => IsOpen(o)
      BY <2>1 DEF Tripped, IsOpen, Expired
    <2> QED BY <2>1, <2>2, <2>3, BreakerStep DEF routeVars
  <1> QED BY <1>2, <1>3, <1>4, <1>5, <1>6, <1>7, <1>8, <1>9, <1>10, <1>11, <1>12
          DEF NextRoute, Outcome, StreamOutcome

LEMMA RouterSpecInv == RouterSpec => []RouterInv
  <1>1. RouterInv /\ [NextRoute]_routerVars => RouterInv'
    BY RouterInvStep
  <1> QED BY RouterInvInit, <1>1, PTL DEF RouterSpec

\* Routes keep their types, and no failure count passes its threshold by more than the
\* calls that were under way: CircuitBreaker.record_failure is called at most once for
\* each model of each concurrent route after the breaker opened.
THEOREM RouterTypeCorrect == RouterSpec => []RouterTypeOK
  <1>1. RouterInv => RouterTypeOK
    <2>1. SUFFICES ASSUME RouterInv, NEW p \in Providers
                   PROVE  failures[p] < Threshold + CallsAhead(p)
      BY DEF RouterTypeOK, RouterInv
    <2>2. /\ CallsAhead(p) \in Nat /\ Cardinality(Pending(p)) \in Nat
      BY PendingFacts
    <2>3. failures[p] \in Nat
      BY <2>1 DEF RouterInv, RouterTypes
    <2>4. Tripped(p) => failures[p] + Cardinality(Pending(p)) < Threshold + CallsAhead(p)
      BY <2>1 DEF RouterInv, CountBounded
    <2> QED BY <2>2, <2>3, <2>4, BreakerBounds DEF Tripped
  <1> QED BY RouterSpecInv, <1>1, PTL

\* A provider whose breaker is open is called only by routes that filtered their models
\* before it opened: route() asks is_open of every model it takes up.
THEOREM OpenBreakersAreRespected == RouterSpec => []OpenOnlyForEarlierRoutes
  <1>1. RouterInv => OpenOnlyForEarlierRoutes
    BY CurrentIsPending DEF RouterInv, OpenedSince, OpenOnlyForEarlierRoutes
  <1> QED BY RouterSpecInv, <1>1, PTL

\* As long as one provider with a key does not fail, no route exhausts its models or
\* finds none available, whatever the others do.
THEOREM FallbackAnswers == RouterSpec => []ReliableAnswers
  <1>1. RouterInv => ReliableAnswers
    BY DEF RouterInv, ReliableAhead, ReliableAnswers
  <1> QED BY RouterSpecInv, <1>1, PTL
=============================================================================
