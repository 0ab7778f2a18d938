--------------------------- MODULE ChatTurnsProofs ---------------------------
(***************************************************************************)
(* Proofs about ChatTurns, for any users, conversations, turns, questions  *)
(* and limits.                                                             *)
(*                                                                         *)
(* The cache: only a turn that has committed its own reply comes to        *)
(* remember it (Remembers), so that what the cache holds, and what a turn  *)
(* was given out of it, has a source that is over and done (Sourced).      *)
(* What a model is sent is the page its turn has read, compressed (Sends): *)
(* rows are only added to a conversation, so that a page stays what it was *)
(* whichever turns commit after it was read.  Rows are added two at a time *)
(* (Alternating), and the messages that are sent are those behind one      *)
(* place of the page (RecentIsCut).  And what a writer of the usage log    *)
(* has read never exceeds what was logged by the time it commits (Reads).  *)
(***************************************************************************)
EXTENDS ChatTurns, SequenceTheorems, FiniteSetTheorems, WellFoundedInduction, TLAPS

USE DEF usage, log, counters, turns

\* The turns that r may become go one way; what was asked stays, and rows are only added.
Steps ==
    /\ \A r \in Turns : pc[r] # "idle" => pc'[r] # "idle" /\ request'[r] = request[r]
    /\ \A r \in Turns : pc[r] = "done" => pc'[r] = "done"
    /\ \A t \in Threads :
           /\ Len(messages[t]) <= Len(messages'[t])
           /\ \A i \in 1 .. Len(messages[t]) : messages'[t][i] = messages[t][i]

\* A turn that commits has a reply.
HasReply == \A r \in Turns : pc[r] \in {"commit", "commitPart"} => reply[r] \in Turns

Places == {"idle", "lookup", "load", "generate", "commit", "commitPart", "cache", "done",
           "stopped", "failed"}

IsContext(c) ==
    /\ c.note \in Notes \cup {"none"} /\ c.folded \in Nat
    /\ DOMAIN c.verbatim \subseteq Nat \ {0}

\* f gives every turn what its model is sent.
AreContexts(f) == f = [r \in Turns |-> f[r]] /\ \A r \in Turns : IsContext(f[r])

LEMMA NoRequestIsNone == NoRequest \notin Asked
<1>1. NoRequest.kind = "none" /\ \A a \in Asked : a.kind \in Kinds
  BY DEF NoRequest, Asked
<1> QED BY <1>1 DEF Kinds

\* What was asked.
LEMMA AskedType ==
    ASSUME NEW a \in Asked
    PROVE  a.kind \in Kinds /\ a.thread \in Threads /\ a.question \in Questions
  BY DEF Asked

LEMMA TypedContexts == TypeOK => AreContexts(context)
  BY DEF TypeOK, AreContexts, IsContext

LEMMA ContextSet ==
    ASSUME AreContexts(context), NEW r \in Turns, NEW c, IsContext(c),
           context' = [context EXCEPT ![r] = c]
    PROVE  AreContexts(context') /\ context'[r] = c
                                /\ \A x \in Turns : x # r => context'[x] = context[x]
  BY DEF AreContexts

----------------------------------------------------------------------------
(* What compression makes of any page.                                      *)

LEMMA SmallestNat ==
    ASSUME NEW S \in SUBSET Nat, S # {}
    PROVE  \E x \in S : \A y \in S : x <= y
<1>1. PICK less : IsWellFoundedOn(less, Nat) /\ \A x, y \in Nat : x < y => <<x, y>> \in less
  <2>1. \A x, y \in Nat : x < y => <<x, y>> \in OpToRel(<, Nat)
    BY DEF OpToRel
  <2> QED BY <2>1, NatLessThanWellFounded
<1>2. S \subseteq Nat
  OBVIOUS
<1>3. PICK x \in S : \A y \in S : ~(<<y, x>> \in less)
  <2>1. IsWellFoundedOn(less, Nat)
    BY <1>1
  <2> QED BY <1>2, <2>1, WFMin
<1>4. ASSUME NEW y \in S PROVE x <= y
  <2>1. x \in Nat /\ y \in Nat
    BY <1>2
  <2>2. ~(y < x)
    BY <1>1, <1>3, <2>1
  <2> QED BY <2>1, <2>2
<1> QED BY <1>4

\* The places of S behind c.
After(S, c) == {j \in S : j > c}

LEMMA AfterSize ==
    ASSUME NEW n \in Nat, NEW S \in SUBSET (1 .. n), NEW c \in Nat
    PROVE  /\ IsFiniteSet(S) /\ Cardinality(S) \in Nat
           /\ IsFiniteSet(After(S, c)) /\ Cardinality(After(S, c)) \in Nat
<1>1. IsFiniteSet(1 .. n)
  BY FS_Interval
<1>2. IsFiniteSet(S)
  BY <1>1, FS_Subset
<1>3. After(S, c) \in SUBSET S
  BY DEF After
<1>4. IsFiniteSet(After(S, c))
  BY <1>2, <1>3, FS_Subset
<1> QED BY <1>2, <1>4, FS_CardinalityType

\* Of two sets of places the one within the other is no larger.
LEMMA AfterLess ==
    ASSUME NEW n \in Nat, NEW S \in SUBSET (1 .. n), NEW c \in Nat, NEW d \in Nat, c <= d
    PROVE  Cardinality(After(S, d)) <= Cardinality(After(S, c))
<1>1. IsFiniteSet(After(S, c))
  BY AfterSize
<1>2. After(S, d) \in SUBSET After(S, c)
  <2>1. \A j \in S : j \in Nat
    OBVIOUS
  <2>2. \A j \in S : j > d => j > c
    BY <2>1
  <2> QED BY <2>2 DEF After
<1> QED BY <1>1, <1>2, FS_Subset

\* The recent messages are those behind one place, and as many as they should be.
LEMMA RecentIsCut ==
    ASSUME NEW n \in Nat, NEW S \in SUBSET (1 .. n),
           RecentVerbatimCount <= Cardinality(S)
    PROVE  \E c \in Nat : /\ Recent(S) = After(S, c)
                          /\ Cardinality(After(S, c)) = RecentVerbatimCount
<1> DEFINE R == RecentVerbatimCount
           size(c) == Cardinality(After(S, c))
           Enough == {c \in Nat : size(c) <= R}
<1>1. R \in Nat \ {0} /\ Cardinality(S) \in Nat
  BY CompressionAssumption, AfterSize
<1>2. /\ \A c \in Nat : size(c) \in Nat
      /\ \A j \in S : j \in Nat /\ 0 < j /\ j <= n
  BY AfterSize
<1>3. n \in Enough
  <2>1. After(S, n) = {}
    <3>1. \A j \in S : ~(j > n)
      BY <1>2
    <3> QED BY <3>1 DEF After
  <2>2. size(n) = 0
    BY <2>1, FS_EmptySet
  <2> QED BY <1>1, <2>2
<1>4. PICK c \in Enough : \A d \in Enough : c <= d
  BY <1>3, SmallestNat
<1>5. c \in Nat /\ size(c) <= R
  OBVIOUS
<1>6. size(c) = R
  <2> SUFFICES ASSUME size(c) < R PROVE FALSE
    BY <1>1, <1>2, <1>5
  <2>1. CASE c = 0
    <3>1. After(S, c) = S
      <4>1. \A j \in S : j > c
        BY <1>2, <2>1
      <4> QED BY <4>1 DEF After
    <3> QED BY <1>1, <3>1
  <2>2. CASE c # 0
    <3>1. c - 1 \in Nat /\ ~(c <= c - 1)
      BY <1>5, <2>2
    <3>2. ~(size(c - 1) <= R)
      BY <1>4, <3>1
    <3>3. After(S, c - 1) \in SUBSET (After(S, c) \cup {c})
      <4>1. \A j \in S : j > c - 1 => j > c \/ j = c
        BY <1>2, <1>5, <2>2
      <4> QED BY <4>1 DEF After
    <3>4. IsFiniteSet(After(S, c))
      BY <1>5, AfterSize
    <3>5. /\ IsFiniteSet(After(S, c) \cup {c})
          /\ Cardinality(After(S, c) \cup {c}) <= size(c) + 1
      <4>1. c \notin After(S, c)
        BY <1>5 DEF After
      <4>2. Cardinality(After(S, c) \cup {c}) = size(c) + 1
        BY <3>4, <4>1, FS_AddElement
      <4>3. IsFiniteSet(After(S, c) \cup {c})
        BY <3>4, FS_AddElement
      <4>4. size(c) \in Nat
        BY <1>2, <1>5
      <4> QED BY <4>2, <4>3, <4>4
    <3>6. size(c - 1) <= Cardinality(After(S, c) \cup {c})
      BY <3>3, <3>5, FS_Subset
    <3>7. size(c - 1) \in Nat /\ size(c) \in Nat
      BY <1>2, <1>5, <3>1
    <3>8. Cardinality(After(S, c) \cup {c}) \in Nat
      BY <3>5, FS_CardinalityType
    <3> HIDE DEF size, Enough
    <3> QED BY <1>1, <3>2, <3>5, <3>6, <3>7, <3>8
  <2> QED BY <2>1, <2>2
<1>7. ASSUME NEW i \in S, i > c PROVE size(i) < R
  <2>1. i \in Nat /\ i \in After(S, c) /\ i \notin After(S, i)
    BY <1>7 DEF After
  <2>2. After(S, i) \in SUBSET After(S, c)
    <3>1. \A j \in S : j > i => j > c
      BY <1>2, <1>5, <1>7
    <3> QED BY <3>1 DEF After
  <2>3. IsFiniteSet(After(S, c))
    BY <1>5, AfterSize
  <2>4. /\ Cardinality(After(S, i)) <= Cardinality(After(S, c))
        /\ Cardinality(After(S, c)) = Cardinality(After(S, i)) => After(S, c) = After(S, i)
    BY <2>2, <2>3, FS_Subset
  <2>5. After(S, c) # After(S, i)
    BY <2>1
  <2>6. size(i) \in Nat
    BY <1>2, <2>1
  <2> QED BY <1>1, <1>6, <2>4, <2>5, <2>6
<1>8. ASSUME NEW i \in S, ~(i > c) PROVE ~(size(i) < R)
  <2>1. i \in Nat /\ i <= c
    BY <1>5, <1>8
  <2>2. size(c) <= size(i) /\ size(i) \in Nat
    BY <1>2, <1>5, <2>1, AfterLess
  <2> HIDE DEF size, Enough
  <2> QED BY <1>1, <1>6, <2>2
<1>9. Recent(S) = After(S, c)
  <2>1. \A i : i \in Recent(S) <=> i \in S /\ size(i) < R
    BY DEF Recent, After
  <2>2. \A i : i \in After(S, c) <=> i \in S /\ i > c
    BY DEF After
  <2> HIDE DEF size, R
  <2> QED BY <1>7, <1>8, <2>1, <2>2
<1> QED BY <1>5, <1>6, <1>9

LEMMA SaidType ==
    ASSUME NEW past \in Seq(Rows)
    PROVE  /\ Len(past) \in Nat /\ Said(past) \in SUBSET (1 .. Len(past))
           /\ IsFiniteSet(Said(past)) /\ Cardinality(Said(past)) \in Nat
<1>1. Len(past) \in Nat /\ Said(past) \in SUBSET (1 .. Len(past))
  BY DEF Said
<1> QED BY <1>1, AfterSize

\* It is bounded, has the recent messages as they are, and its note stands for exactly
\* the others that say anything.
LEMMA CompressKeeps ==
    ASSUME NEW past \in Seq(Rows), NEW note \in Notes
    PROVE  LET c == Compress(past, note)
               sent == Cardinality(DOMAIN c.verbatim)
           IN  /\ IsContext(c)
               /\ sent <= CompressionThreshold
               /\ RecentSent(past, c.verbatim)
               /\ c.folded + sent = Cardinality(Said(past))
               /\ c.folded > 0 <=> c.note # "none"
<1> DEFINE said == Said(past)
           R == RecentVerbatimCount
           c == Compress(past, note)
           sent == IF IsLong(said) THEN Recent(said) ELSE said
<1>1. /\ Len(past) \in Nat /\ said \in SUBSET (1 .. Len(past))
      /\ IsFiniteSet(said) /\ Cardinality(said) \in Nat
  BY SaidType
<1>2. /\ R \in Nat \ {0} /\ CompressionThreshold \in Nat /\ R < CompressionThreshold
      /\ note \in Notes /\ note # "none"
  BY CompressionAssumption DEF Notes
<1>3. /\ c.note = IF IsLong(said) THEN note ELSE "none"
      /\ c.folded = IF IsLong(said) THEN Cardinality(said) - R ELSE 0
      /\ c.verbatim = [i \in sent |-> past[i]]
  BY DEF Compress
<1>4. DOMAIN c.verbatim = sent /\ \A i \in sent : c.verbatim[i] = past[i]
  BY <1>3
<1>5. CASE IsLong(said)
  <2>1. Cardinality(said) > CompressionThreshold /\ R <= Cardinality(said)
    BY <1>1, <1>2, <1>5 DEF IsLong
  <2>2. PICK k \in Nat : Recent(said) = After(said, k) /\ Cardinality(After(said, k)) = R
    BY <1>1, <2>1, RecentIsCut
  <2>3. sent = After(said, k) /\ Cardinality(sent) = R
    BY <1>5, <2>2
  <2>4. sent \subseteq said /\ \A i \in said \ sent, j \in sent : i < j
    BY <1>1, <2>2, <2>3 DEF After
  <2>5. RecentSent(past, c.verbatim)
    <3> HIDE DEF c, sent
    <3>1. Cardinality(DOMAIN c.verbatim) >= R
      BY <1>2, <1>4, <2>3
    <3> QED BY <1>4, <2>4, <3>1 DEF RecentSent
  <2>6. IsContext(c)
    <3>1. DOMAIN c.verbatim \subseteq Nat \ {0}
      BY <1>1, <1>4, <2>4
    <3>2. Cardinality(said) - R \in Nat
      BY <1>1, <1>2, <2>1
    <3> HIDE DEF c, sent, said, R
    <3> QED BY <1>2, <1>3, <1>5, <3>1, <3>2 DEF IsContext
  <2>7. c.folded = Cardinality(said) - R /\ c.note = note
    BY <1>3, <1>5
  <2> HIDE DEF c, sent, said, R
  <2>8. Cardinality(DOMAIN c.verbatim) = R
    BY <1>4, <2>3
  <2> QED BY <1>1, <1>2, <2>1, <2>5, <2>6, <2>7, <2>8 DEF c, said
<1>6. CASE ~IsLong(said)
  <2>1. Cardinality(said) <= CompressionThreshold
    BY <1>1, <1>2, <1>6 DEF IsLong
  <2>2. sent = said
    BY <1>6
  <2>3. RecentSent(past, c.verbatim)
    <3> HIDE DEF c, sent
    <3> QED BY <1>4, <2>2 DEF RecentSent
  <2>4. c.folded = 0 /\ c.note = "none"
    BY <1>3, <1>6
  <2>5. DOMAIN c.verbatim = said
    BY <1>4, <2>2
  <2> HIDE DEF c, sent, said, R
  <2>6. IsContext(c)
    BY <1>1, <2>4, <2>5 DEF IsContext
  <2> QED BY <1>1, <1>2, <2>1, <2>3, <2>4, <2>5, <2>6 DEF c, said
<1> QED BY <1>5, <1>6

----------------------------------------------------------------------------
(* The type of the state.                                                   *)

\* What is read of a conversation: its oldest messages, as they are.
LEMMA FirstPageType ==
    ASSUME NEW past \in Seq(Rows)
    PROVE  /\ FirstPage(past) \in Seq(Rows)
           /\ Len(FirstPage(past)) = IF Len(past) < PageLimit THEN Len(past) ELSE PageLimit
           /\ Len(FirstPage(past)) \in 0 .. Len(past)
           /\ \A i \in 1 .. Len(FirstPage(past)) : FirstPage(past)[i] = past[i]
<1> DEFINE n == IF Len(past) < PageLimit THEN Len(past) ELSE PageLimit
<1>1. Len(past) \in Nat /\ n \in 0 .. Len(past)
  BY TurnsAssumption
<1>2. \A i \in 1 .. n : past[i] \in Rows
  BY <1>1
<1>3. FirstPage(past) = SubSeq(past, 1, n)
  BY DEF FirstPage
<1> HIDE DEF n
<1>4. /\ SubSeq(past, 1, n) \in Seq(Rows) /\ Len(SubSeq(past, 1, n)) = n
      /\ \A i \in 1 .. n : SubSeq(past, 1, n)[i] = past[i]
  BY <1>1, <1>2
<1> QED BY <1>1, <1>3, <1>4 DEF n

LEMMA PageType ==
    ASSUME TypeOK, NEW t \in Threads
    PROVE  Page(t) \in Seq(Rows)
<1>1. messages[t] \in Seq(Rows)
  BY DEF TypeOK
<1> QED BY <1>1, FirstPageType DEF Page

LEMMA EmptyType == IsContext(Empty)
  BY DEF Empty, IsContext

LEMMA ExchangeType ==
    ASSUME NEW r \in Turns, NEW answer \in Turns
    PROVE  /\ Exchange(r, answer) \in Seq(Rows)
           /\ Len(Exchange(r, answer)) = 2
           /\ Exchange(r, answer)[1].role = "user"
           /\ Exchange(r, answer)[2].role = "assistant"
           /\ Exchange(r, answer)[2].of = answer
  BY DEF Exchange, Rows

\* A conversation and the two rows of another turn.
LEMMA TwoMore ==
    ASSUME NEW past \in Seq(Rows), NEW two \in Seq(Rows), Len(two) = 2
    PROVE  /\ past \o two \in Seq(Rows) /\ Len(past \o two) = Len(past) + 2
           /\ \A i \in 1 .. Len(past) : (past \o two)[i] = past[i]
           /\ (past \o two)[Len(past) + 1] = two[1]
           /\ (past \o two)[Len(past) + 2] = two[2]
<1> DEFINE whole == past \o two
           n == Len(past)
<1>1. n \in Nat
  OBVIOUS
<1>2. /\ whole \in Seq(Rows) /\ Len(whole) = n + Len(two)
      /\ \A i \in 1 .. n + Len(two) :
             whole[i] = IF i <= n THEN past[i] ELSE two[i - n]
  BY ConcatProperties, Zenon
<1> HIDE DEF whole, n
<1>3. /\ Len(whole) = n + 2
      /\ \A i \in 1 .. n : whole[i] = past[i]
  BY <1>1, <1>2
<1>4. whole[n + 1] = two[(n + 1) - n] /\ whole[n + 2] = two[(n + 2) - n]
  BY <1>1, <1>2
<1>5. (n + 1) - n = 1 /\ (n + 2) - n = 2
  BY <1>1
<1> QED BY <1>2, <1>3, <1>4, <1>5 DEF whole, n

LEMMA InitType == Init => TypeOK
<1> SUFFICES ASSUME Init PROVE TypeOK
  OBVIOUS
<1>1. messages \in [Threads -> Seq(Rows)]
  <2>1. ASSUME NEW t \in Threads
        PROVE  [i \in 1 .. 2 * Earlier[t] |->
                   [role |-> IF i % 2 = 1 THEN "user" ELSE "assistant",
                    of |-> NoReply, blank |-> i \in Silent[t]]] \in Seq(Rows)
    <3>1. 2 * Earlier[t] \in Nat
      BY TurnsAssumption
    <3>2. \A i \in 1 .. 2 * Earlier[t] :
              [role |-> IF i % 2 = 1 THEN "user" ELSE "assistant",
               of |-> NoReply, blank |-> i \in Silent[t]] \in Rows
      BY DEF Rows
    <3> QED BY <3>1, <3>2
  <2> QED BY <2>1 DEF Init
<1>2. /\ request \in [Turns -> Asked \cup {NoRequest}] /\ pc \in [Turns -> Places]
      /\ \A r \in Turns : pc[r] = "idle" <=> request[r] = NoRequest
  BY DEF Init, Places
<1>3. AreContexts(context)
  BY EmptyType DEF Init, AreContexts
<1>4. /\ reply \in [Turns -> Turns \cup {NoReply}]
      /\ blank \subseteq Turns /\ stopped \subseteq Turns
      /\ loadedAt \in [Turns -> Nat]
      /\ points \in [Users -> [Questions -> Turns \cup {NoReply}]]
  BY DEF Init, NoPoints
<1> QED BY <1>1, <1>2, <1>3, <1>4 DEF TypeOK, Places, AreContexts, IsContext

LEMMA InitReply == Init => HasReply
  BY DEF Init, HasReply

\* What the lookup may find is a reply to a question like this, of this user.
LEMMA FoundType ==
    ASSUME TypeOK, NEW r \in Turns, request[r] # NoRequest, NEW vector \in Vectors,
           NEW found \in Found(User(r), request[r].question, vector)
    PROVE  /\ found \in Turns /\ User(r) \in Users
           /\ \E p \in Questions : /\ <<request[r].question, p>> \in Alike
                                   /\ found = points[User(r)][p]
<1>1. request[r] \in Asked
  BY DEF TypeOK
<1>2. request[r].question \in Questions /\ User(r) \in Users
  BY <1>1, TurnsAssumption DEF Asked, User
<1>3. PICK p \in Near(request[r].question, vector) : found = points[User(r)][p]
  BY DEF Found
<1>4. p \in Questions /\ <<request[r].question, p>> \in Alike
  BY <1>2, <1>3, AlikeAssumption DEF Near
<1>5. found # NoReply
  BY DEF Found
<1>6. points[User(r)][p] \in Turns \cup {NoReply}
  BY <1>2, <1>4 DEF TypeOK
<1>7. found \in Turns
  BY <1>3, <1>5, <1>6
<1> QED BY <1>2, <1>3, <1>4, <1>7

\* The requests begin.
LEMMA BeginStep ==
    ASSUME TypeOK, HasReply, NEW r \in Turns, NEW kind \in Kinds,
           NEW place \in {"lookup", "load", "generate"}, Begin(r, kind, place)
    PROVE  TypeOK' /\ HasReply' /\ Steps
<1>1. PICK a \in Asked : request' = [request EXCEPT ![r] = a]
  BY DEF Begin
<1>2. /\ pc[r] = "idle" /\ pc' = [pc EXCEPT ![r] = place]
      /\ UNCHANGED <<messages, context, reply, loadedAt, blank, stopped, points>>
  BY DEF Begin, Goto
<1>3. request' \in [Turns -> Asked \cup {NoRequest}] /\ pc' \in [Turns -> Places]
  BY <1>1, <1>2 DEF TypeOK, Places
<1>4. \A x \in Turns : pc'[x] = "idle" <=> request'[x] = NoRequest
  BY <1>1, <1>2, NoRequestIsNone DEF TypeOK
<1>5. TypeOK'
  BY <1>2, <1>3, <1>4 DEF TypeOK, Places
<1>6. HasReply'
  BY <1>2 DEF HasReply, TypeOK
<1>7. Steps
  BY <1>1, <1>2 DEF Steps, TypeOK
<1> QED BY <1>5, <1>6, <1>7

\* An error answer.
LEMMA FailStep ==
    ASSUME TypeOK, HasReply, NEW r \in Turns, pc[r] \notin {"idle", "done"}, Fail(r)
    PROVE  TypeOK' /\ HasReply' /\ Steps
<1>1. AreContexts(context')
  BY TypedContexts, EmptyType, ContextSet DEF Fail
<1>4. TypeOK'
  BY <1>1 DEF Fail, Goto, TypeOK, AreContexts, IsContext
<1>2. HasReply'
  BY DEF Fail, Goto, HasReply, TypeOK
<1>3. Steps
  BY DEF Fail, Goto, Steps, TypeOK
<1> QED BY <1>2, <1>3, <1>4

LEMMA TypeStep == TypeOK /\ HasReply /\ [Next]_vars => TypeOK' /\ HasReply' /\ Steps
<1> SUFFICES ASSUME TypeOK, HasReply, [Next]_vars PROVE TypeOK' /\ HasReply' /\ Steps
  OBVIOUS
<1> DEFINE Claim == TypeOK' /\ HasReply' /\ Steps
<1>1. ASSUME NEW r \in Turns, \/ Chat(r) \/ ChatWithFile(r) \/ ChatStream(r)
                              \/ ChatAgent(r) \/ ChatRag(r)
      PROVE  Claim
  BY <1>1, BeginStep DEF Chat, ChatWithFile, ChatStream, ChatAgent, ChatRag, Kinds
<1>2. ASSUME NEW r \in Turns, Hit(r) PROVE Claim
  <2>1. PICK vector \in Vectors :
            \E found \in Found(User(r), request[r].question, vector) :
                reply' = [reply EXCEPT ![r] = found]
    BY <1>2 DEF Hit
  <2>0. PICK found \in Found(User(r), request[r].question, vector) :
            reply' = [reply EXCEPT ![r] = found]
    BY <2>1
  <2>2. pc[r] = "lookup" /\ request[r] # NoRequest
    BY <1>2 DEF Hit, TypeOK
  <2>3. found \in Turns
    BY <2>2, FoundType
  <2>4. TypeOK'
    BY <1>2, <2>0, <2>3 DEF Hit, Goto, TypeOK
  <2>5. HasReply'
    BY <1>2, <2>0, <2>3 DEF Hit, Goto, HasReply, TypeOK
  <2>6. Steps
    BY <1>2, <2>2 DEF Hit, Goto, Steps, TypeOK
  <2> QED BY <2>4, <2>5, <2>6
<1>3. ASSUME NEW r \in Turns, Miss(r) PROVE Claim
  <2>1. TypeOK'
    BY <1>3 DEF Miss, Goto, TypeOK
  <2>2. HasReply' /\ Steps
    BY <1>3 DEF Miss, Goto, HasReply, Steps, TypeOK
  <2> QED BY <2>1, <2>2
<1>4. ASSUME NEW r \in Turns, Load(r) PROVE Claim
  <2>1. pc[r] = "load" /\ request[r].thread \in Threads
    BY <1>4 DEF Load, TypeOK, Asked
  <2>2. PICK note \in Notes :
            context' = [context EXCEPT ![r] = Compress(Page(request[r].thread), note)]
    BY <1>4 DEF Load
  <2>3. IsContext(Compress(Page(request[r].thread), note))
    BY <2>1, PageType, CompressKeeps
  <2>7. AreContexts(context')
    BY <2>2, <2>3, TypedContexts, ContextSet
  <2>4. Len(messages[request[r].thread]) \in Nat
    BY <2>1 DEF TypeOK
  <2>5. TypeOK'
    BY <1>4, <2>4, <2>7 DEF Load, Goto, TypeOK, AreContexts, IsContext
  <2>6. HasReply' /\ Steps
    BY <1>4, <2>1 DEF Load, Goto, HasReply, Steps, TypeOK
  <2> QED BY <2>5, <2>6
<1>5. ASSUME NEW r \in Turns, CompressionTimesOut(r) \/ GenerationFails(r) \/ CommitFails(r)
      PROVE  Claim
  BY <1>5, FailStep DEF CompressionTimesOut, GenerationFails, CommitFails
<1>6. ASSUME NEW r \in Turns, Generate(r) \/ Answer(r) \/ StopStream(r) PROVE Claim
  <2>1. PICK place \in {"commit", "commitPart"} :
            /\ pc' = [pc EXCEPT ![r] = place]
            /\ reply' = [reply EXCEPT ![r] = r]
    BY <1>6 DEF Generate, Answer, StopStream, Goto
  <2>2. UNCHANGED <<messages, request, points>>
    BY <1>6 DEF Generate, Answer, StopStream
  <2>3. pc[r] = "generate"
    BY <1>6 DEF Generate, Answer, StopStream
  <2>4. context' = context \/ context' = [context EXCEPT ![r] = Empty]
    BY <1>6 DEF Generate, Answer, StopStream
  <2>5. loadedAt' = loadedAt \/ loadedAt' = [loadedAt EXCEPT ![r] = 0]
    BY <1>6 DEF Generate, Answer, StopStream
  <2>6. stopped' = stopped \/ stopped' = stopped \cup {r}
    BY <1>6 DEF Generate, Answer, StopStream
  <2>7. AreContexts(context')
    BY <2>4, TypedContexts, EmptyType, ContextSet
  <2>11. blank' = blank \/ blank' = blank \cup {r}
    BY <1>6 DEF Generate, Answer, StopStream, MayBeBlank
  <2>8. loadedAt' \in [Turns -> Nat] /\ stopped' \subseteq Turns /\ blank' \subseteq Turns
    <3>1. loadedAt' \in [Turns -> Nat]
      BY <2>5 DEF TypeOK
    <3>2. stopped' \subseteq Turns
      BY <2>6 DEF TypeOK
    <3>3. blank' \subseteq Turns
      BY <2>11 DEF TypeOK
    <3> QED BY <3>1, <3>2, <3>3
  <2>9. TypeOK'
    BY <2>1, <2>2, <2>3, <2>7, <2>8 DEF TypeOK, AreContexts, IsContext
  <2>10. HasReply' /\ Steps
    BY <2>1, <2>2, <2>3 DEF HasReply, Steps, TypeOK
  <2> QED BY <2>9, <2>10
<1>7. ASSUME NEW r \in Turns, Commit(r) PROVE Claim
  <2> DEFINE t == request[r].thread
             e == Exchange(r, reply[r])
  <2>1. pc[r] \in {"commit", "commitPart"} /\ t \in Threads /\ reply[r] \in Turns
    BY <1>7 DEF Commit, TypeOK, Asked, HasReply
  <2>2. messages[t] \in Seq(Rows) /\ e \in Seq(Rows)
    BY <2>1, ExchangeType DEF TypeOK
  <2>3. messages' = [messages EXCEPT ![t] = messages[t] \o e]
    BY <1>7 DEF Commit
  <2>4. messages[t] \o e \in Seq(Rows)
    BY <2>2
  <2>5. messages' \in [Threads -> Seq(Rows)]
    BY <2>1, <2>3, <2>4 DEF TypeOK
  <2>6. /\ pc' = [pc EXCEPT ![r] = AfterCommit(r)]
        /\ AfterCommit(r) \in {"stopped", "cache", "done"}
        /\ UNCHANGED <<request, context, reply, loadedAt, blank, stopped, points>>
    BY <1>7 DEF Commit, Goto, AfterCommit
  <2>7. TypeOK'
    BY <2>1, <2>5, <2>6 DEF TypeOK
  <2>8. HasReply'
    BY <2>1, <2>6 DEF HasReply, TypeOK
  <2>9. ASSUME NEW u \in Threads
        PROVE  /\ Len(messages[u]) <= Len(messages'[u])
               /\ \A i \in 1 .. Len(messages[u]) : messages'[u][i] = messages[u][i]
    <3>1. CASE u = t
      BY <2>1, <2>2, <2>3, <3>1 DEF TypeOK
    <3>2. CASE u # t
      BY <2>1, <2>3, <3>2 DEF TypeOK
    <3> QED BY <3>1, <3>2
  <2>10. Steps
    BY <2>1, <2>6, <2>9 DEF Steps, TypeOK
  <2> QED BY <2>7, <2>8, <2>10
<1>8. ASSUME NEW r \in Turns, Remember(r) PROVE Claim
  <2>1. pc[r] = "cache" /\ request[r] \in Asked
    BY <1>8 DEF Remember, TypeOK
  <2>2. User(r) \in Users /\ request[r].question \in Questions
    BY <2>1, TurnsAssumption DEF User, Asked
  <2>3. points' \in [Users -> [Questions -> Turns \cup {NoReply}]]
    <3>1. points' = points
          \/ points' = [points EXCEPT ![User(r)][request[r].question] = reply[r]]
      BY <1>8 DEF Remember, Put
    <3>2. reply[r] \in Turns \cup {NoReply}
      BY DEF TypeOK
    <3>3. points[User(r)] \in [Questions -> Turns \cup {NoReply}]
      BY <2>2 DEF TypeOK
    <3>4. [points[User(r)] EXCEPT ![request[r].question] = reply[r]]
              \in [Questions -> Turns \cup {NoReply}]
      BY <2>2, <3>2, <3>3
    <3> QED BY <2>2, <3>1, <3>4 DEF TypeOK
  <2>4. /\ pc' = [pc EXCEPT ![r] = "done"]
        /\ UNCHANGED <<messages, request, context, reply, blank, stopped, loadedAt>>
    BY <1>8 DEF Remember, Goto
  <2>5. TypeOK'
    BY <2>1, <2>3, <2>4 DEF TypeOK
  <2>6. HasReply' /\ Steps
    BY <2>1, <2>4 DEF HasReply, Steps, TypeOK
  <2> QED BY <2>5, <2>6
<1>9. CASE (\E w \in Writers : WriteLog(w)) \/ EndOfMonth \/ CleanUp \/ UNCHANGED vars
  <2>1. UNCHANGED <<messages, request, pc, context, reply, blank, stopped, loadedAt, points>>
    BY <1>9 DEF WriteLog, EndOfMonth, CleanUp, vars
  <2> QED BY <2>1 DEF TypeOK, HasReply, Steps
<1> QED BY <1>1, <1>2, <1>3, <1>4, <1>5, <1>6, <1>7, <1>8, <1>9 DEF Next

\* The type invariant is an invariant.
THEOREM TypeCorrect == Spec => []TypeOK
<1>1. Init => TypeOK /\ HasReply
  BY InitType, InitReply
<1>2. TypeOK /\ HasReply /\ [Next]_vars => (TypeOK /\ HasReply)'
  BY TypeStep
<1> QED BY <1>1, <1>2, PTL DEF Spec

----------------------------------------------------------------------------
(* The cache.                                                               *)

\* The conversation of r has the reply that r generated.
IsStored(r) ==
    \E i \in 1 .. Len(messages[request[r].thread]) :
        LET row == messages[request[r].thread][i]
        IN  row.role = "assistant" /\ row.of = r

\* A turn that is about to remember its reply has stored it, a stream that was stopped
\* never comes to it, and nobody is answered before asking.
Remembers ==
    \A r \in Turns :
        /\ pc[r] = "idle" => reply[r] = NoReply
        /\ pc[r] = "cache" =>
               reply[r] = r /\ request[r].kind \in WithHistory /\ IsStored(r)
        /\ r \in stopped => pc[r] \in {"commitPart", "stopped", "failed"}

\* The turn s is over, and its reply is one the cache may give to user u.
Source(s, u) == pc[s] = "done" /\ User(s) = u /\ request[s].kind \in WithHistory

\* What the cache holds, and what a turn was given out of it.
Held(u, q) ==
    points[u][q] # NoReply =>
        /\ Source(points[u][q], u) /\ IsStored(points[u][q])
        /\ request[points[u][q]].question = q

Given(r) ==
    reply[r] \notin {NoReply, r} =>
        /\ Source(reply[r], User(r))
        /\ <<request[r].question, request[reply[r]].question>> \in Alike

Sourced == (\A u \in Users, q \in Questions : Held(u, q)) /\ \A r \in Turns : Given(r)

\* Before any turn nothing is remembered, and earlier turns answered for themselves.
LEMMA InitCache == Init => Remembers /\ Sourced
  BY DEF Init, Remembers, Sourced, Held, Given, NoPoints

\* What was true of a turn that has begun, or is over, stays true.
LEMMA StoredStays ==
    ASSUME TypeOK, Steps, NEW r \in Turns, pc[r] # "idle", IsStored(r)
    PROVE  IsStored(r)'
<1>1. request'[r] = request[r] /\ request[r].thread \in Threads
  BY DEF Steps, TypeOK, Asked
<1>2. Len(messages[request[r].thread]) \in Nat
  BY <1>1 DEF TypeOK
<1>3. PICK i \in 1 .. Len(messages[request[r].thread]) :
          /\ messages[request[r].thread][i].role = "assistant"
          /\ messages[request[r].thread][i].of = r
  BY DEF IsStored
<1>4. /\ messages'[request[r].thread][i] = messages[request[r].thread][i]
      /\ Len(messages[request[r].thread]) <= Len(messages'[request[r].thread])
  BY <1>1, <1>3 DEF Steps
<1> QED BY <1>1, <1>3, <1>4, <1>2 DEF IsStored

LEMMA SourceStays ==
    ASSUME Steps, NEW s \in Turns, NEW u, Source(s, u)
    PROVE  Source(s, u)' /\ request'[s] = request[s]
  BY DEF Steps, Source, User

\* Only a commit leads to the cache, and it stores the reply first.
LEMMA RemembersStep ==
    ASSUME TypeOK, HasReply, Remembers, Steps, [Next]_vars
    PROVE  Remembers'
<1> SUFFICES ASSUME NEW x \in Turns
             PROVE  /\ pc'[x] = "idle" => reply'[x] = NoReply
                    /\ pc'[x] = "cache" => /\ reply'[x] = x
                                           /\ request'[x].kind \in WithHistory
                                           /\ IsStored(x)'
                    /\ x \in stopped' => pc'[x] \in {"commitPart", "stopped", "failed"}
  BY DEF Remembers
<1> DEFINE Claim == /\ pc'[x] = "idle" => reply'[x] = NoReply
                    /\ pc'[x] = "cache" => /\ reply'[x] = x
                                           /\ request'[x].kind \in WithHistory
                                           /\ IsStored(x)'
                    /\ x \in stopped' => pc'[x] \in {"commitPart", "stopped", "failed"}
<1>a. pc[x] = "idle" => reply[x] = NoReply
  BY DEF Remembers
<1>b. pc[x] = "cache" => reply[x] = x /\ request[x].kind \in WithHistory /\ IsStored(x)
  BY DEF Remembers
<1>c. x \in stopped => pc[x] \in {"commitPart", "stopped", "failed"}
  BY DEF Remembers
<1>d. pc[x] # "idle" => request'[x] = request[x] /\ (IsStored(x) => IsStored(x)')
  BY StoredStays DEF Steps
<1>e. CASE pc'[x] = pc[x] /\ reply'[x] = reply[x] /\ (x \in stopped' => x \in stopped)
  BY <1>a, <1>b, <1>c, <1>d, <1>e
<1>f. CASE /\ pc'[x] \in {"lookup", "load", "generate", "commit", "done", "failed"}
           /\ x \in stopped' => pc'[x] = "failed"
  BY <1>f
<1>1. ASSUME NEW r \in Turns, \/ Chat(r) \/ ChatWithFile(r) \/ ChatStream(r)
                              \/ ChatAgent(r) \/ ChatRag(r)
      PROVE  Claim
  <2>1. PICK place \in {"lookup", "load", "generate"} :
            pc[r] = "idle" /\ pc' = [pc EXCEPT ![r] = place] /\ UNCHANGED <<reply, stopped>>
    BY <1>1 DEF Chat, ChatWithFile, ChatStream, ChatAgent, ChatRag, Begin, Goto
  <2> QED BY <2>1, <1>c, <1>e, <1>f DEF TypeOK
<1>2. ASSUME NEW r \in Turns, Hit(r) \/ Miss(r) \/ Load(r) PROVE Claim
  <2>1. /\ pc[r] \in {"lookup", "load"}
        /\ \E place \in {"commit", "load", "generate"} : pc' = [pc EXCEPT ![r] = place]
        /\ \A y \in Turns : y # r => reply'[y] = reply[y]
        /\ UNCHANGED stopped
    BY <1>2 DEF Hit, Miss, Load, Goto, TypeOK
  <2> QED BY <2>1, <1>c, <1>e, <1>f DEF TypeOK
<1>3. ASSUME NEW r \in Turns, CompressionTimesOut(r) \/ GenerationFails(r) \/ CommitFails(r)
      PROVE  Claim
  <2>1. /\ pc' = [pc EXCEPT ![r] = "failed"]
        /\ \A y \in Turns : y # r => reply'[y] = reply[y]
        /\ UNCHANGED stopped
    BY <1>3 DEF CompressionTimesOut, GenerationFails, CommitFails, Fail, Goto, TypeOK
  <2> QED BY <2>1, <1>e, <1>f DEF TypeOK
<1>4. ASSUME NEW r \in Turns, Generate(r) \/ Answer(r) PROVE Claim
  <2>1. /\ pc[r] = "generate" /\ pc' = [pc EXCEPT ![r] = "commit"]
        /\ \A y \in Turns : y # r => reply'[y] = reply[y]
        /\ UNCHANGED stopped
    BY <1>4 DEF Generate, Answer, Goto, TypeOK
  <2> QED BY <2>1, <1>c, <1>e, <1>f DEF TypeOK
<1>5. ASSUME NEW r \in Turns, StopStream(r) PROVE Claim
  <2>1. /\ pc' = [pc EXCEPT ![r] = "commitPart"]
        /\ \A y \in Turns : y # r => reply'[y] = reply[y]
        /\ stopped' = stopped \cup {r}
    BY <1>5 DEF StopStream, Goto, TypeOK
  <2>2. CASE x = r
    BY <2>1, <2>2 DEF TypeOK
  <2>3. CASE x # r
    BY <2>1, <2>3, <1>e DEF TypeOK
  <2> QED BY <2>2, <2>3
<1>6. ASSUME NEW r \in Turns, Commit(r) PROVE Claim
  <2> DEFINE t == request[r].thread
             e == Exchange(r, reply[r])
  <2>1. /\ pc[r] \in {"commit", "commitPart"} /\ t \in Threads /\ reply[r] \in Turns
        /\ pc' = [pc EXCEPT ![r] = AfterCommit(r)]
        /\ messages' = [messages EXCEPT ![t] = messages[t] \o e]
        /\ UNCHANGED <<request, reply, stopped>>
    BY <1>6 DEF Commit, Goto, HasReply, TypeOK, Asked
  <2>2. CASE x # r
    BY <2>1, <2>2, <1>e DEF TypeOK
  <2>3. CASE x = r
    <3>1. pc'[r] = AfterCommit(r) /\ (r \in stopped => pc[r] = "commitPart")
      BY <2>1, <2>3, <1>c DEF TypeOK
    <3>2. ASSUME AfterCommit(r) = "cache" PROVE Caches(r) /\ IsStored(r)'
      <4>1. reply[r] = r /\ request[r].kind \in WithHistory
        BY <3>2 DEF AfterCommit, Caches
      <4>2. messages[t] \in Seq(Rows) /\ Len(messages[t]) \in Nat
        BY <2>1 DEF TypeOK
      <4>3. e \in Seq(Rows) /\ Len(e) = 2 /\ e[2].role = "assistant" /\ e[2].of = r
        <5>1. e = Exchange(r, r)
          BY <4>1
        <5> HIDE DEF e
        <5> QED BY <5>1, ExchangeType
      <4>4. /\ Len(messages[t] \o e) = Len(messages[t]) + 2
            /\ (messages[t] \o e)[Len(messages[t]) + 2] = e[2]
        <5> HIDE DEF t, e
        <5> QED BY <4>2, <4>3, TwoMore, Zenon
      <4>5. messages'[t] = messages[t] \o e /\ request'[r].thread = t
        BY <2>1 DEF TypeOK
      <4>6. /\ Len(messages[t]) + 2 \in 1 .. Len(messages'[t])
            /\ messages'[t][Len(messages[t]) + 2].role = "assistant"
            /\ messages'[t][Len(messages[t]) + 2].of = r
        <5>1. Len(messages'[t]) = Len(messages[t]) + 2
          BY <4>4, <4>5
        <5>2. messages'[t][Len(messages[t]) + 2] = e[2]
          BY <4>4, <4>5
        <5> HIDE DEF e
        <5> QED BY <4>2, <4>3, <5>1, <5>2
      <4> QED BY <4>1, <4>5, <4>6 DEF IsStored, Caches
    <3> QED BY <2>1, <2>3, <3>1, <3>2 DEF AfterCommit, Caches
  <2> QED BY <2>2, <2>3
<1>7. ASSUME NEW r \in Turns, Remember(r) PROVE Claim
  <2>1. pc[r] = "cache" /\ pc' = [pc EXCEPT ![r] = "done"] /\ UNCHANGED <<reply, stopped>>
    BY <1>7 DEF Remember, Goto
  <2> QED BY <2>1, <1>c, <1>e, <1>f DEF TypeOK
<1>8. CASE (\E w \in Writers : WriteLog(w)) \/ EndOfMonth \/ CleanUp \/ UNCHANGED vars
  BY <1>8, <1>e DEF WriteLog, EndOfMonth, CleanUp, vars
<1> QED BY <1>1, <1>2, <1>3, <1>4, <1>5, <1>6, <1>7, <1>8 DEF Next

\* Only Remember writes the cache, and but for a hit a turn answers for itself.
LEMMA Effects ==
    ASSUME TypeOK, [Next]_vars
    PROVE  /\ \/ UNCHANGED points
              \/ \E r \in Turns :
                     Remember(r) /\ Put(User(r), request[r].question, reply[r])
           /\ \A x \in Turns : reply'[x] \in {reply[x], NoReply, x} \/ Hit(x)
<1> DEFINE Claim ==
        /\ \/ UNCHANGED points
           \/ \E r \in Turns : Remember(r) /\ Put(User(r), request[r].question, reply[r])
        /\ \A x \in Turns : reply'[x] \in {reply[x], NoReply, x} \/ Hit(x)
<1>1. ASSUME NEW r \in Turns, \/ Chat(r) \/ ChatWithFile(r) \/ ChatStream(r)
                              \/ ChatAgent(r) \/ ChatRag(r)
      PROVE  Claim
  BY <1>1 DEF Chat, ChatWithFile, ChatStream, ChatAgent, ChatRag, Begin
<1>2. ASSUME NEW r \in Turns, Hit(r) PROVE Claim
  <2>1. UNCHANGED points /\ \A x \in Turns : x # r => reply'[x] = reply[x]
    BY <1>2 DEF Hit, TypeOK
  <2> QED BY <1>2, <2>1
<1>3. ASSUME NEW r \in Turns, Miss(r) \/ Load(r) \/ Commit(r) PROVE Claim
  BY <1>3 DEF Miss, Load, Commit
<1>4. ASSUME NEW r \in Turns, CompressionTimesOut(r) \/ GenerationFails(r) \/ CommitFails(r)
      PROVE  Claim
  BY <1>4 DEF CompressionTimesOut, GenerationFails, CommitFails, Fail, TypeOK
<1>5. ASSUME NEW r \in Turns, Generate(r) \/ Answer(r) \/ StopStream(r) PROVE Claim
  BY <1>5 DEF Generate, Answer, StopStream, TypeOK
<1>6. ASSUME NEW r \in Turns, Remember(r) PROVE Claim
  BY <1>6 DEF Remember
<1>7. CASE (\E w \in Writers : WriteLog(w)) \/ EndOfMonth \/ CleanUp \/ UNCHANGED vars
  BY <1>7 DEF WriteLog, EndOfMonth, CleanUp, vars
<1> QED BY <1>1, <1>2, <1>3, <1>4, <1>5, <1>6, <1>7 DEF Next

\* A reply is remembered as it is whole and stored, and given to its user only.
LEMMA SourcedStep ==
    ASSUME TypeOK, HasReply, Remembers, Sourced, Steps, [Next]_vars
    PROVE  Sourced'
<1>1. ASSUME NEW u \in Users, NEW q \in Questions PROVE Held(u, q)'
  <2>1. CASE points'[u][q] = points[u][q]
    <3> SUFFICES ASSUME points[u][q] # NoReply PROVE Held(u, q)'
      BY <2>1 DEF Held
    <3>1. PICK s \in Turns : s = points[u][q]
      BY DEF TypeOK
    <3>2. Source(s, u) /\ IsStored(s) /\ request[s].question = q
      BY <3>1 DEF Sourced, Held
    <3>3. Source(s, u)' /\ request'[s] = request[s]
      BY <3>2, SourceStays
    <3>4. IsStored(s)'
      BY <3>2, StoredStays DEF Source
    <3> QED BY <2>1, <3>1, <3>3, <3>4, <3>2 DEF Held
  <2>2. CASE points'[u][q] # points[u][q]
    <3>1. PICK r \in Turns : Remember(r) /\ Put(User(r), request[r].question, reply[r])
      BY <2>2, Effects DEF Remember
    <3>2. /\ pc[r] = "cache" /\ pc' = [pc EXCEPT ![r] = "done"] /\ UNCHANGED request
      BY <3>1 DEF Remember, Goto
    <3>3. reply[r] = r /\ request[r].kind \in WithHistory /\ IsStored(r)
      BY <3>2 DEF Remembers
    <3>4. u = User(r) /\ q = request[r].question /\ points'[u][q] = r
      BY <2>2, <3>1, <3>3 DEF Put, TypeOK
    <3>5. IsStored(r)'
      BY <3>2, <3>3, StoredStays
    <3> QED BY <3>2, <3>3, <3>4, <3>5 DEF Held, Source, User, IsStored, TypeOK
  <2> QED BY <2>1, <2>2
<1>2. ASSUME NEW x \in Turns PROVE Given(x)'
  <2>1. CASE reply'[x] \in {NoReply, x}
    BY <2>1 DEF Given
  <2>2. CASE reply'[x] \notin {NoReply, x} /\ reply'[x] = reply[x]
    <3>1. PICK s \in Turns : s = reply[x]
      BY <2>2 DEF TypeOK
    <3>2. /\ Source(s, User(x)) /\ pc[x] # "idle"
          /\ <<request[x].question, request[s].question>> \in Alike
      BY <2>2, <3>1 DEF Sourced, Given, Remembers
    <3>3. /\ pc'[s] = "done"
          /\ request'[s] = request[s] /\ request'[x] = request[x]
      BY <3>2 DEF Steps, Source
    <3> QED BY <2>2, <3>1, <3>2, <3>3 DEF Given, Source, User
  <2>3. CASE reply'[x] \notin {NoReply, x} /\ reply'[x] # reply[x]
    <3>1. Hit(x)
      BY <2>3, Effects
    <3>2. PICK vector \in Vectors :
              \E found \in Found(User(x), request[x].question, vector) :
                  reply' = [reply EXCEPT ![x] = found]
      BY <3>1 DEF Hit
    <3>3. PICK s \in Found(User(x), request[x].question, vector) :
              reply' = [reply EXCEPT ![x] = s]
      BY <3>2
    <3>4. pc[x] = "lookup" /\ request[x] # NoRequest /\ UNCHANGED request
      BY <3>1 DEF Hit, TypeOK
    <3>5. /\ s \in Turns /\ User(x) \in Users /\ s # NoReply
          /\ \E p \in Questions : /\ <<request[x].question, p>> \in Alike
                                  /\ s = points[User(x)][p]
      BY <3>4, FoundType DEF Found
    <3>6. Source(s, User(x)) /\ <<request[x].question, request[s].question>> \in Alike
      BY <3>5 DEF Sourced, Held
    <3>7. pc'[s] = "done"
      BY <3>5, <3>6 DEF Steps, Source
    <3> QED BY <3>3, <3>4, <3>6, <3>7 DEF Given, Source, User, TypeOK
  <2> QED BY <2>1, <2>2, <2>3
<1> QED BY <1>1, <1>2 DEF Sourced

\* No matter how turns overlap, whose they are and which of them fail: a reply out of the
\* cache is the user's own, to a question like this one, and whole.
THEOREM CacheGivesOwn == Spec => []CachedAnswersOwn
<1>1. Init => TypeOK /\ HasReply /\ Remembers /\ Sourced
  BY InitType, InitReply, InitCache
<1>2. TypeOK /\ HasReply /\ Remembers /\ Sourced /\ [Next]_vars
          => (TypeOK /\ HasReply /\ Remembers /\ Sourced)'
  BY TypeStep, RemembersStep, SourcedStep
<1>3. TypeOK /\ Remembers /\ Sourced => CachedAnswersOwn
  <2> SUFFICES ASSUME TypeOK, Remembers, Sourced,
                      NEW r \in Turns, reply[r] \notin {NoReply, r}
               PROVE  /\ User(reply[r]) = User(r)
                      /\ <<request[r].question, request[reply[r]].question>> \in Alike
                      /\ reply[r] \notin stopped /\ request[reply[r]].kind \in WithHistory
    BY DEF CachedAnswersOwn
  <2>1. reply[r] \in Turns
    BY DEF TypeOK
  <2>2. /\ Source(reply[r], User(r))
        /\ <<request[r].question, request[reply[r]].question>> \in Alike
    BY DEF Sourced, Given
  <2>3. pc[reply[r]] = "done"
    BY <2>2 DEF Source
  <2>4. reply[r] \notin stopped
    BY <2>1, <2>3 DEF Remembers
  <2> QED BY <2>2, <2>4 DEF Source
<1> QED BY <1>1, <1>2, <1>3, PTL DEF Spec

\* The cache holds no part of a reply, and none whose transaction was rolled back.
THEOREM CacheHoldsStored == Spec => []CachedIsStored
<1>1. Init => TypeOK /\ HasReply /\ Remembers /\ Sourced
  BY InitType, InitReply, InitCache
<1>2. TypeOK /\ HasReply /\ Remembers /\ Sourced /\ [Next]_vars
          => (TypeOK /\ HasReply /\ Remembers /\ Sourced)'
  BY TypeStep, RemembersStep, SourcedStep
<1>3. TypeOK /\ Remembers /\ Sourced => CachedIsStored
  <2> SUFFICES ASSUME TypeOK, Remembers, Sourced,
                      NEW u \in Users, NEW q \in Questions, points[u][q] # NoReply
               PROVE  LET s == points[u][q]
                      IN  /\ s \notin stopped
                          /\ \E i \in DOMAIN messages[request[s].thread] :
                                 LET row == messages[request[s].thread][i]
                                 IN  row.role = "assistant" /\ row.of = s
    BY DEF CachedIsStored
  <2>1. PICK s \in Turns : s = points[u][q]
    BY DEF TypeOK
  <2>2. pc[s] = "done" /\ IsStored(s)
    BY <2>1 DEF Sourced, Held, Source
  <2>3. request[s].thread \in Threads
    BY <2>2 DEF TypeOK, Asked
  <2>4. DOMAIN messages[request[s].thread] = 1 .. Len(messages[request[s].thread])
    BY <2>3 DEF TypeOK
  <2>5. s \notin stopped
    BY <2>2 DEF Remembers
  <2> QED BY <2>1, <2>2, <2>4, <2>5 DEF IsStored
<1> QED BY <1>1, <1>2, <1>3, PTL DEF Spec

----------------------------------------------------------------------------
(* What a model is sent.                                                    *)

\* The page r has read: of what the conversation was then, the oldest messages.
Read(r) == FirstPage(History(r))

\* What r sends is that page compressed, whatever was written since.
Sends ==
    \A r \in Turns : Prompting(r) =>
        /\ loadedAt[r] <= Len(messages[request[r].thread])
        /\ \E note \in Notes : context[r] = Compress(Read(r), note)

LEMMA InitSends == Init => Sends
  BY DEF Init, Sends, Prompting

\* Rows that are added leave the rows before them alone.
LEMMA PrefixKept ==
    ASSUME NEW s \in Seq(Rows), NEW t \in Seq(Rows), Len(s) <= Len(t),
           \A i \in 1 .. Len(s) : t[i] = s[i], NEW n \in 0 .. Len(s)
    PROVE  SubSeq(t, 1, n) = SubSeq(s, 1, n)
<1>1. Len(s) \in Nat /\ Len(t) \in Nat
  OBVIOUS
<1>2. \A i \in 1 .. n : s[i] \in Rows /\ t[i] \in Rows /\ t[i] = s[i]
  BY <1>1
<1>3. /\ SubSeq(s, 1, n) \in Seq(Rows) /\ Len(SubSeq(s, 1, n)) = n
      /\ \A i \in 1 .. n : SubSeq(s, 1, n)[i] = s[i]
  BY <1>1, <1>2
<1>4. /\ SubSeq(t, 1, n) \in Seq(Rows) /\ Len(SubSeq(t, 1, n)) = n
      /\ \A i \in 1 .. n : SubSeq(t, 1, n)[i] = t[i]
  BY <1>1, <1>2
<1> QED BY <1>2, <1>3, <1>4, SeqEqual

\* A turn whose model is asked has just loaded, or was asked before with the same context.
LEMMA PromptEffects ==
    ASSUME TypeOK, Steps, [Next]_vars, NEW x \in Turns, Prompting(x)'
    PROVE  \/ Load(x)
           \/ /\ Prompting(x) /\ request'[x] = request[x]
              /\ context'[x] = context[x] /\ loadedAt'[x] = loadedAt[x]
<1> DEFINE Claim == \/ Load(x)
                    \/ /\ Prompting(x) /\ request'[x] = request[x]
                       /\ context'[x] = context[x] /\ loadedAt'[x] = loadedAt[x]
<1>a. pc'[x] = "generate" /\ request'[x].kind \in WithHistory
  BY DEF Prompting
<1>b. pc[x] = "generate" /\ context'[x] = context[x] /\ loadedAt'[x] = loadedAt[x] => Claim
  BY <1>a DEF Prompting, Steps
<1>1. ASSUME NEW r \in Turns, Chat(r) \/ ChatWithFile(r) \/ ChatStream(r) PROVE Claim
  BY <1>1, <1>a, <1>b DEF Chat, ChatWithFile, ChatStream, Begin, Goto, TypeOK
<1>2. ASSUME NEW r \in Turns, ChatAgent(r) \/ ChatRag(r) PROVE Claim
  <2>1. CASE x = r
    BY <1>2, <1>a, <2>1 DEF ChatAgent, ChatRag, Begin, WithHistory, TypeOK
  <2>2. CASE x # r
    BY <1>2, <1>a, <1>b, <2>2 DEF ChatAgent, ChatRag, Begin, Goto, TypeOK
  <2> QED BY <2>1, <2>2
<1>3. ASSUME NEW r \in Turns, Hit(r) \/ Miss(r) PROVE Claim
  BY <1>3, <1>a, <1>b DEF Hit, Miss, Goto, TypeOK
<1>4. ASSUME NEW r \in Turns, Load(r) PROVE Claim
  <2>1. CASE x = r
    BY <1>4, <2>1
  <2>2. CASE x # r
    <3>1. pc'[x] = pc[x] /\ loadedAt'[x] = loadedAt[x]
      BY <1>4, <2>2 DEF Load, Goto, TypeOK
    <3>2. context'[x] = context[x]
      BY <1>4, <2>2 DEF Load, TypeOK
    <3> QED BY <1>a, <1>b, <3>1, <3>2
  <2> QED BY <2>1, <2>2
<1>5. ASSUME NEW r \in Turns, CompressionTimesOut(r) \/ GenerationFails(r) \/ CommitFails(r)
      PROVE  Claim
  BY <1>5, <1>a, <1>b
     DEF CompressionTimesOut, GenerationFails, CommitFails, Fail, Goto, TypeOK
<1>6. ASSUME NEW r \in Turns, Generate(r) \/ Answer(r) \/ StopStream(r) PROVE Claim
  BY <1>6, <1>a, <1>b DEF Generate, Answer, StopStream, Goto, TypeOK
<1>7. ASSUME NEW r \in Turns, Commit(r) \/ Remember(r) PROVE Claim
  BY <1>7, <1>a, <1>b DEF Commit, Remember, AfterCommit, Goto, TypeOK
<1>8. CASE (\E w \in Writers : WriteLog(w)) \/ EndOfMonth \/ CleanUp \/ UNCHANGED vars
  BY <1>8, <1>a, <1>b DEF WriteLog, EndOfMonth, CleanUp, vars
<1> QED BY <1>1, <1>2, <1>3, <1>4, <1>5, <1>6, <1>7, <1>8 DEF Next

LEMMA SendsStep ==
    ASSUME TypeOK, TypeOK', Steps, Sends, [Next]_vars
    PROVE  Sends'
<1> SUFFICES ASSUME NEW x \in Turns, Prompting(x)'
             PROVE  /\ loadedAt'[x] <= Len(messages'[request'[x].thread])
                    /\ \E note \in Notes : context'[x] = Compress(Read(x)', note)
  BY DEF Sends
<1>1. CASE Load(x)
  <2> DEFINE t == request[x].thread
  <2>1. t \in Threads /\ messages' = messages /\ request' = request
    BY <1>1 DEF Load, TypeOK, Asked
  <2>2. loadedAt'[x] = Len(messages[t])
    BY <1>1 DEF Load, TypeOK
  <2>3. \E note \in Notes : context'[x] = Compress(Page(t), note)
    BY <1>1 DEF Load, TypeOK
  <2>4. messages[t] \in Seq(Rows) /\ Len(messages[t]) \in Nat
    BY <2>1 DEF TypeOK
  <2>5. SubSeq(messages[t], 1, Len(messages[t])) = messages[t]
    BY <2>4, SubSeqFull
  <2>6. Read(x)' = Page(t)
    BY <2>1, <2>2, <2>5 DEF Read, History, Page
  <2> QED BY <2>1, <2>2, <2>3, <2>4, <2>6
<1>2. CASE /\ Prompting(x) /\ request'[x] = request[x]
           /\ context'[x] = context[x] /\ loadedAt'[x] = loadedAt[x]
  <2> DEFINE t == request[x].thread
  <2>1. t \in Threads
    BY <1>2 DEF Prompting, TypeOK, Asked
  <2>2. messages[t] \in Seq(Rows) /\ messages'[t] \in Seq(Rows)
    BY <2>1 DEF TypeOK
  <2>3. /\ Len(messages[t]) <= Len(messages'[t])
        /\ \A i \in 1 .. Len(messages[t]) : messages'[t][i] = messages[t][i]
    BY <2>1 DEF Steps
  <2>4. loadedAt[x] <= Len(messages[t]) /\ \E note \in Notes : context[x] = Compress(Read(x), note)
    BY <1>2 DEF Sends
  <2>5. Len(messages[t]) \in Nat /\ Len(messages'[t]) \in Nat /\ loadedAt[x] \in Nat
    BY <2>2 DEF TypeOK
  <2>6. SubSeq(messages'[t], 1, loadedAt[x]) = SubSeq(messages[t], 1, loadedAt[x])
    BY <2>2, <2>3, <2>4, <2>5, PrefixKept
  <2>7. Read(x)' = Read(x)
    BY <1>2, <2>6 DEF Read, History
  <2> QED BY <1>2, <2>3, <2>4, <2>5, <2>7
<1> QED BY <1>1, <1>2, PromptEffects

\* The page that r has read, as a sequence.
LEMMA ReadType ==
    ASSUME TypeOK, Sends, NEW r \in Turns, Prompting(r)
    PROVE  LET past == messages[request[r].thread]
           IN  /\ past \in Seq(Rows) /\ request[r].thread \in Threads
               /\ loadedAt[r] \in 0 .. Len(past)
               /\ History(r) \in Seq(Rows) /\ Len(History(r)) = loadedAt[r]
               /\ \A i \in 1 .. loadedAt[r] : History(r)[i] = past[i]
               /\ Read(r) \in Seq(Rows) /\ Len(Read(r)) \in 0 .. loadedAt[r]
               /\ Len(Read(r)) = IF loadedAt[r] < PageLimit THEN loadedAt[r] ELSE PageLimit
               /\ \A i \in 1 .. Len(Read(r)) : Read(r)[i] = past[i]
<1> DEFINE past == messages[request[r].thread]
           n == loadedAt[r]
<1>1. request[r].thread \in Threads
  BY DEF Prompting, TypeOK, Asked
<1>2. past \in Seq(Rows) /\ Len(past) \in Nat /\ n \in Nat
  BY <1>1 DEF TypeOK
<1>3. n \in 0 .. Len(past)
  BY <1>2 DEF Sends
<1>4. \A i \in 1 .. n : past[i] \in Rows
  BY <1>2, <1>3
<1>5. History(r) = SubSeq(past, 1, n)
  BY DEF History
<1>6. /\ SubSeq(past, 1, n) \in Seq(Rows) /\ Len(SubSeq(past, 1, n)) = n
      /\ \A i \in 1 .. n : SubSeq(past, 1, n)[i] = past[i]
  <2> HIDE DEF past, n
  <2> QED BY <1>2, <1>3, <1>4
<1>7. /\ History(r) \in Seq(Rows) /\ Len(History(r)) = n
      /\ \A i \in 1 .. n : History(r)[i] = past[i]
  BY <1>5, <1>6
<1>8. /\ Read(r) \in Seq(Rows) /\ Len(Read(r)) \in 0 .. n
      /\ Len(Read(r)) = IF n < PageLimit THEN n ELSE PageLimit
      /\ \A i \in 1 .. Len(Read(r)) : Read(r)[i] = History(r)[i]
  BY <1>7, FirstPageType DEF Read
<1>9. \A i \in 1 .. Len(Read(r)) : i \in 1 .. n
  BY <1>2, <1>8
<1> HIDE DEF past, n
<1>10. \A i \in 1 .. Len(Read(r)) : Read(r)[i] = past[i]
  BY <1>7, <1>8, <1>9
<1> QED BY <1>1, <1>2, <1>3, <1>7, <1>8, <1>10 DEF past, n

\* Whatever overlaps with a turn, as long as its conversation fits a page its model is sent
\* the recent messages that say anything as they are, a note that stands for all others,
\* and no more than the threshold.
THEOREM ContextsAreSound == Spec => []ContextSound
<1>1. Init => TypeOK /\ HasReply /\ Sends
  BY InitType, InitReply, InitSends
<1>2. TypeOK /\ HasReply /\ Sends /\ [Next]_vars => (TypeOK /\ HasReply /\ Sends)'
  BY TypeStep, SendsStep
<1>3. TypeOK /\ Sends => ContextSound
  <2> SUFFICES ASSUME TypeOK, Sends, NEW r \in Turns, Prompting(r)
               PROVE  LET c == context[r]
                          sent == Cardinality(DOMAIN c.verbatim)
                      IN  /\ sent <= CompressionThreshold
                          /\ loadedAt[r] <= PageLimit =>
                                 /\ RecentSent(History(r), c.verbatim)
                                 /\ c.folded + sent = Cardinality(Said(History(r)))
                                 /\ c.folded > 0 <=> c.note # "none"
    BY DEF ContextSound
  <2>1. PICK note \in Notes : context[r] = Compress(Read(r), note)
    BY DEF Sends
  <2>2. Read(r) \in Seq(Rows)
    BY ReadType
  <2>3. ASSUME loadedAt[r] <= PageLimit PROVE Read(r) = History(r)
    <3>1. loadedAt[r] \in Nat /\ PageLimit \in Nat
      BY TurnsAssumption DEF TypeOK
    <3>2. /\ History(r) \in Seq(Rows) /\ Len(Read(r)) = Len(History(r))
          /\ Len(History(r)) = loadedAt[r]
      BY <2>3, <3>1, ReadType
    <3>3. \A i \in 1 .. Len(Read(r)) : Read(r)[i] = History(r)[i]
      BY <3>2, FirstPageType DEF Read
    <3> QED BY <2>2, <3>2, <3>3, SeqEqual
  <2> QED BY <2>1, <2>2, <2>3, CompressKeeps
<1> QED BY <1>1, <1>2, <1>3, PTL DEF Spec

\* Conversations are made of turns: a question, its reply, and so on; turns read whole ones.
Role(i) == IF i % 2 = 1 THEN "user" ELSE "assistant"

Even(k) == k % 2 = 0

WholeTurns(past) == Even(Len(past)) /\ \A i \in 1 .. Len(past) : past[i].role = Role(i)

Alternating ==
    /\ \A t \in Threads : WholeTurns(messages[t])
    /\ \A r \in Turns : Prompting(r) => Even(loadedAt[r])

LEMMA InitAlternates == Init => Alternating
<1> SUFFICES ASSUME Init, NEW t \in Threads PROVE WholeTurns(messages[t])
  BY DEF Init, Alternating, Prompting
<1> DEFINE n == 2 * Earlier[t]
           row(i) == [role |-> IF i % 2 = 1 THEN "user" ELSE "assistant",
                      of |-> NoReply, blank |-> i \in Silent[t]]
<1>1. messages[t] = [i \in 1 .. n |-> row(i)]
  BY DEF Init
<1>2. n \in Nat /\ n % 2 = 0
  BY TurnsAssumption
<1>3. \A i \in 1 .. n : row(i).role = Role(i)
  BY DEF Role
<1>4. messages[t] \in Seq(Rows)
  BY InitType DEF TypeOK
<1>5. Len(messages[t]) = n
  <2> HIDE DEF n, row
  <2> QED BY <1>1, <1>2, <1>4
<1> HIDE DEF n, row
<1> QED BY <1>1, <1>2, <1>3, <1>5 DEF WholeTurns, Even

\* Two more rows keep the turns whole.
LEMMA TurnAdded ==
    ASSUME NEW past \in Seq(Rows), WholeTurns(past), NEW r \in Turns, NEW answer \in Turns
    PROVE  WholeTurns(past \o Exchange(r, answer))
<1> DEFINE e == Exchange(r, answer)
           whole == past \o e
           n == Len(past)
<1>1. n \in Nat /\ n % 2 = 0 /\ \A i \in 1 .. n : past[i].role = Role(i)
  BY DEF WholeTurns, Even
<1>2. /\ e \in Seq(Rows) /\ Len(e) = 2 /\ e[1].role = "user" /\ e[2].role = "assistant"
  <2>1. e \in Seq(Rows) /\ Len(e) = 2
    BY ExchangeType
  <2>2. e[1].role = "user" /\ e[2].role = "assistant"
    BY ExchangeType
  <2> QED BY <2>1, <2>2
<1> HIDE DEF e
<1>3. /\ Len(whole) = n + 2 /\ \A i \in 1 .. n : whole[i] = past[i]
      /\ whole[n + 1] = e[1] /\ whole[n + 2] = e[2]
  BY <1>2, TwoMore
<1> HIDE DEF whole, n
<1>4. (n + 2) % 2 = 0 /\ Role(n + 1) = "user" /\ Role(n + 2) = "assistant"
  BY <1>1 DEF Role
<1>5. \A i \in 1 .. n + 2 : i \in 1 .. n \/ i = n + 1 \/ i = n + 2
  BY <1>1
<1>6. \A i \in 1 .. n + 2 : whole[i].role = Role(i)
  BY <1>1, <1>2, <1>3, <1>4, <1>5
<1> QED BY <1>3, <1>4, <1>6 DEF WholeTurns, whole, e, Even

LEMMA OnlyCommitAdds ==
    ASSUME TypeOK, HasReply, [Next]_vars, NEW t \in Threads, messages'[t] # messages[t]
    PROVE  \E r, answer \in Turns : messages'[t] = messages[t] \o Exchange(r, answer)
<1>1. ASSUME NEW r \in Turns, Commit(r)
      PROVE  \E x, answer \in Turns : messages'[t] = messages[t] \o Exchange(x, answer)
  <2>1. reply[r] \in Turns /\ request[r].thread \in Threads
    BY <1>1 DEF Commit, HasReply, TypeOK, Asked
  <2>2. messages'[t] = messages[t] \o Exchange(r, reply[r])
    BY <1>1, <2>1 DEF Commit, TypeOK
  <2> QED BY <2>1, <2>2
<1>2. ASSUME NEW r \in Turns,
             \/ Chat(r) \/ ChatWithFile(r) \/ ChatStream(r) \/ ChatAgent(r) \/ ChatRag(r)
             \/ Hit(r) \/ Miss(r) \/ Load(r) \/ CompressionTimesOut(r) \/ Generate(r)
             \/ GenerationFails(r) \/ Answer(r) \/ StopStream(r) \/ CommitFails(r)
             \/ Remember(r)
      PROVE  FALSE
  BY <1>2 DEF Chat, ChatWithFile, ChatStream, ChatAgent, ChatRag, Begin, Hit, Miss, Load,
     CompressionTimesOut, Generate, GenerationFails, Answer, StopStream, CommitFails,
     Fail, Remember
<1>3. CASE (\E w \in Writers : WriteLog(w)) \/ EndOfMonth \/ CleanUp \/ UNCHANGED vars
  BY <1>3 DEF WriteLog, EndOfMonth, CleanUp, vars
<1> QED BY <1>1, <1>2, <1>3 DEF Next

LEMMA AlternatesStep ==
    ASSUME TypeOK, HasReply, Steps, Alternating, [Next]_vars
    PROVE  Alternating'
<1>1. ASSUME NEW t \in Threads PROVE WholeTurns(messages[t])'
  <2>1. messages[t] \in Seq(Rows) /\ WholeTurns(messages[t])
    BY DEF TypeOK, Alternating
  <2>2. CASE messages'[t] = messages[t]
    BY <2>1, <2>2 DEF WholeTurns
  <2>3. CASE messages'[t] # messages[t]
    <3>1. PICK r \in Turns, answer \in Turns :
              messages'[t] = messages[t] \o Exchange(r, answer)
      BY <2>3, OnlyCommitAdds
    <3>2. WholeTurns(messages[t] \o Exchange(r, answer))
      BY <2>1, TurnAdded
    <3> QED BY <3>1, <3>2 DEF WholeTurns
  <2> QED BY <2>2, <2>3
<1>2. ASSUME NEW x \in Turns, Prompting(x)' PROVE Even(loadedAt'[x])
  <2>1. CASE Load(x)
    <3>1. request[x].thread \in Threads
      BY <2>1 DEF Load, TypeOK, Asked
    <3>2. loadedAt'[x] = Len(messages[request[x].thread])
      BY <2>1 DEF Load, TypeOK
    <3> QED BY <3>1, <3>2 DEF Alternating, WholeTurns
  <2>2. CASE Prompting(x) /\ loadedAt'[x] = loadedAt[x]
    BY <2>2 DEF Alternating
  <2> QED BY <1>2, <2>1, <2>2, PromptEffects
<1> QED BY <1>1, <1>2 DEF Alternating

\* Of a page of whole turns a turn is cut only next to a message that says nothing.
LEMMA CompressAlternates ==
    ASSUME Even(RecentVerbatimCount),
           NEW past \in Seq(Rows), WholeTurns(past), NEW note \in Notes,
           NEW i \in DOMAIN Compress(past, note).verbatim
    PROVE  LET sent == DOMAIN Compress(past, note).verbatim
           IN  IF past[i].role = "user"
               THEN /\ past[i + 1].role = "assistant"
                    /\ i + 1 \in sent \/ past[i + 1].blank
               ELSE /\ past[i - 1].role = "user"
                    /\ i - 1 \in sent \/ \E k \in i - 1 .. Len(past) : past[k].blank
<1> DEFINE said == Said(past)
           n == Len(past)
           sent == DOMAIN Compress(past, note).verbatim
<1>1. n \in Nat /\ Even(n) /\ \A j \in 1 .. n : past[j].role = Role(j)
  BY DEF WholeTurns
<1>2. \A j : j \in said <=> j \in 1 .. n /\ ~past[j].blank
  BY DEF Said
<1>3. sent = IF IsLong(said) THEN Recent(said) ELSE said
  BY DEF Compress
<1>4. i \in said
  BY <1>3 DEF Recent
<1>5. i \in 1 .. n /\ i \in sent
  BY <1>2, <1>4
<1>6. past[i].role = Role(i)
  BY <1>1, <1>5
<1>7. ASSUME i % 2 = 1
      PROVE  /\ past[i].role = "user" /\ i + 1 \in 1 .. n
             /\ past[i + 1].role = "assistant"
  <2>1. i + 1 \in 1 .. n /\ (i + 1) % 2 = 0
    <3>1. i # n
      BY <1>1, <1>7 DEF Even
    <3>2. i \in Nat /\ i + 1 \in 1 .. n
      <4> HIDE DEF n
      <4> QED BY <1>1, <1>5, <3>1
    <3> QED BY <1>7, <3>2
  <2>2. past[i + 1].role = Role(i + 1)
    BY <1>1, <2>1
  <2> QED BY <1>6, <1>7, <2>1, <2>2 DEF Role
<1>8. ASSUME i % 2 # 1
      PROVE  /\ past[i].role = "assistant" /\ i - 1 \in 1 .. n
             /\ past[i - 1].role = "user"
  <2>1. i - 1 \in 1 .. n /\ (i - 1) % 2 = 1
    BY <1>1, <1>5, <1>8
  <2>2. past[i - 1].role = Role(i - 1)
    BY <1>1, <2>1
  <2> QED BY <1>6, <1>8, <2>1, <2>2 DEF Role
<1>9. CASE ~IsLong(said)
  <2>1. sent = said
    BY <1>3, <1>9
  <2>2. CASE i % 2 = 1
    BY <1>2, <1>7, <2>1, <2>2
  <2>3. CASE i % 2 # 1
    <3>1. i - 1 \in sent \/ past[i - 1].blank
      BY <1>2, <1>8, <2>1, <2>3
    <3>2. i - 1 \in i - 1 .. n
      BY <1>1, <1>5
    <3> QED BY <1>8, <2>3, <3>1, <3>2
  <2> QED BY <2>2, <2>3
<1>10. CASE IsLong(said)
  <2>1. said \in SUBSET (1 .. n) /\ Cardinality(said) \in Nat
    BY SaidType
  <2>2. RecentVerbatimCount \in Nat /\ RecentVerbatimCount <= Cardinality(said)
    BY <1>10, <2>1, CompressionAssumption DEF IsLong
  <2>3. PICK c \in Nat : /\ Recent(said) = After(said, c)
                         /\ Cardinality(After(said, c)) = RecentVerbatimCount
    BY <1>1, <2>1, <2>2, RecentIsCut
  <2>4. \A j : j \in sent <=> j \in said /\ j > c
    BY <1>3, <1>10, <2>3 DEF After
  <2> HIDE DEF sent
  <2>5. CASE i % 2 = 1
    <3>1. i + 1 > c
      BY <1>5, <2>4
    <3>2. i + 1 \in said \/ past[i + 1].blank
      BY <1>2, <1>7, <2>5
    <3> QED BY <1>7, <2>4, <2>5, <3>1, <3>2 DEF sent
  <2>6. CASE i % 2 # 1
    <3>1. CASE i - 1 > c
      <4>1. i - 1 \in sent \/ past[i - 1].blank
        BY <1>2, <1>8, <2>4, <2>6, <3>1
      <4>2. i - 1 \in i - 1 .. n
        BY <1>1, <1>5
      <4> QED BY <1>8, <2>6, <4>1, <4>2 DEF sent
    <3>2. CASE ~(i - 1 > c)
      <4> SUFFICES ASSUME \A k \in i - 1 .. n : ~past[k].blank PROVE FALSE
        BY <1>8, <2>6 DEF sent
      <4>1. i > c /\ c = i - 1
        BY <1>5, <2>4, <3>2
      <4>2. ASSUME NEW j PROVE j \in After(said, c) <=> j \in i .. n
        <5>1. ASSUME j \in i .. n PROVE j \in said /\ j > c
          <6>1. j \in i - 1 .. n /\ j \in 1 .. n /\ j > c
            BY <1>1, <1>5, <4>1, <5>1
          <6> QED BY <1>2, <6>1
        <5>2. ASSUME j \in said, j > c PROVE j \in i .. n
          BY <1>1, <1>2, <1>5, <4>1, <5>2
        <5> QED BY <5>1, <5>2 DEF After
      <4>3. After(said, c) = i .. n
        BY <4>2
      <4>4. Cardinality(i .. n) = n - i + 1
        <5>1. i \in Int /\ n \in Int /\ ~(i > n)
          BY <1>1, <1>5
        <5> QED BY <5>1, FS_Interval
      <4>5. n % 2 = 0 /\ (n - i + 1) % 2 = 0
        BY <1>1, <2>3, <4>3, <4>4 DEF Even
      <4> HIDE DEF n
      <4>6. i % 2 = 1
        BY <1>1, <1>5, <4>5
      <4> QED BY <2>6, <4>6
    <3> QED BY <3>1, <3>2
  <2> QED BY <2>5, <2>6
<1> QED BY <1>9, <1>10

\* With limits that are even, as 20 and 200 are, compression cuts a turn in two only where
\* some message says nothing.
THEOREM ContextsAlternate ==
    ASSUME Even(RecentVerbatimCount), Even(PageLimit)
    PROVE  Spec => []ContextAlternates
<1>1. Init => TypeOK /\ HasReply /\ Sends /\ Alternating
  BY InitType, InitReply, InitSends, InitAlternates
<1>2. TypeOK /\ HasReply /\ Sends /\ Alternating /\ [Next]_vars
          => (TypeOK /\ HasReply /\ Sends /\ Alternating)'
  BY TypeStep, SendsStep, AlternatesStep
<1>3. TypeOK /\ Sends /\ Alternating => ContextAlternates
  <2> SUFFICES ASSUME TypeOK, Sends, Alternating, NEW r \in Turns, Prompting(r),
                      NEW i \in DOMAIN context[r].verbatim
               PROVE  LET sent == DOMAIN context[r].verbatim
                          past == Read(r)
                      IN  IF past[i].role = "user"
                          THEN /\ past[i + 1].role = "assistant"
                               /\ i + 1 \in sent \/ past[i + 1].blank
                          ELSE /\ past[i - 1].role = "user"
                               /\ \/ i - 1 \in sent
                                  \/ \E k \in i - 1 .. Len(past) : past[k].blank
    BY DEF ContextAlternates, Read
  <2>1. PICK note \in Notes : context[r] = Compress(Read(r), note)
    BY DEF Sends
  <2>2. /\ Read(r) \in Seq(Rows) /\ request[r].thread \in Threads
        /\ Len(Read(r)) = IF loadedAt[r] < PageLimit THEN loadedAt[r] ELSE PageLimit
        /\ loadedAt[r] \in 0 .. Len(messages[request[r].thread])
        /\ Len(Read(r)) \in 0 .. loadedAt[r]
        /\ \A j \in 1 .. Len(Read(r)) : Read(r)[j] = messages[request[r].thread][j]
    BY ReadType
  <2>3. Even(Len(Read(r)))
    BY <2>2 DEF Alternating
  <2>4. \A j \in 1 .. Len(messages[request[r].thread]) :
            messages[request[r].thread][j].role = Role(j)
    BY <2>2 DEF Alternating, WholeTurns
  <2>5. Len(messages[request[r].thread]) \in Nat
    BY <2>2 DEF TypeOK
  <2>6. \A j \in 1 .. Len(Read(r)) : j \in 1 .. Len(messages[request[r].thread])
    BY <2>2, <2>5
  <2>7. WholeTurns(Read(r))
    BY <2>2, <2>3, <2>4, <2>6 DEF WholeTurns
  <2> QED BY <2>1, <2>2, <2>7, CompressAlternates
<1> QED BY <1>1, <1>2, <1>3, PTL DEF Spec

----------------------------------------------------------------------------
(* The usage log.                                                           *)

UsageType ==
    /\ logged \in [Accounts -> Nat] /\ tracked \in [Accounts -> Nat]
    /\ total \in [Accounts -> Nat]
    /\ monthly \in [Accounts -> Nat] /\ before \in [Accounts -> Nat]
    /\ writer \in [Writers -> {"idle", "due", "read"}]
    /\ held \in [Writers -> Nat \X Nat]
    /\ tasks \in Nat /\ stale \subseteq Accounts

\* What a writer has read of its user is no more than was logged by now.
Reads(w) ==
    writer[w] = "read" =>
        /\ request[w[1]] # NoRequest
        /\ held[w][2] <= held[w][1] /\ held[w][1] <= tracked[User(w[1])]

Counted ==
    /\ CountersFollowLog
    /\ \A u \in Accounts : before[u] <= tracked[u]
    /\ \A w \in Writers : Reads(w)

LEMMA InitCounts == Init => UsageType /\ Counted
<1> SUFFICES ASSUME Init PROVE UsageType /\ Counted
  OBVIOUS
<1>1. InitUsage
  BY DEF Init
<1>2. UsageType
  BY <1>1 DEF InitUsage, UsageType
<1>3. Counted
  BY <1>1 DEF InitUsage, Counted, CountersFollowLog, Reads
<1> QED BY <1>2, <1>3

\* A turn starts writers, and no more.
LEMMA TurnsTrack ==
    ASSUME NEW r \in Turns,
           \/ Chat(r) \/ ChatWithFile(r) \/ ChatStream(r) \/ ChatAgent(r) \/ ChatRag(r)
           \/ Hit(r) \/ Miss(r) \/ Load(r) \/ CompressionTimesOut(r) \/ Generate(r)
           \/ GenerationFails(r) \/ Answer(r) \/ StopStream(r) \/ Commit(r) \/ CommitFails(r)
           \/ Remember(r)
    PROVE  \/ UNCHANGED usage
           \/ \E ws \in SUBSET Writers : Track(ws)
<1>1. /\ {<<r, "router">>} \in SUBSET Writers /\ {<<r, "handler">>} \in SUBSET Writers
      /\ {<<r, "run">>} \in SUBSET Writers
  BY TurnsAssumption DEF Writers
<1>2. CASE ChatAgent(r) \/ Generate(r) \/ Answer(r) \/ GenerationFails(r) \/ Commit(r) \/ Remember(r)
  BY <1>1, <1>2 DEF ChatAgent, Generate, Answer, GenerationFails, Routed, Commit, Remember
<1>3. CASE \/ Chat(r) \/ ChatWithFile(r) \/ ChatStream(r) \/ ChatRag(r)
           \/ Hit(r) \/ Miss(r) \/ Load(r) \/ CompressionTimesOut(r)
           \/ StopStream(r) \/ CommitFails(r)
  BY <1>3 DEF Chat, ChatWithFile, ChatStream, ChatRag, Hit, Miss, Load,
     CompressionTimesOut, StopStream, CommitFails
<1> QED BY <1>2, <1>3

\* The user a writer writes for stays the same.
LEMMA UserStays ==
    ASSUME TypeOK, Steps, NEW w \in Writers, request[w[1]] # NoRequest
    PROVE  /\ request'[w[1]] = request[w[1]] /\ User(w[1])' = User(w[1])
           /\ User(w[1]) \in Accounts /\ w[1] \in Turns
<1>1. w[1] \in Turns
  BY TurnsAssumption DEF Writers
<1>2. request[w[1]].thread \in Threads /\ pc[w[1]] # "idle"
  BY <1>1 DEF TypeOK, Asked
<1>3. request'[w[1]] = request[w[1]]
  BY <1>1, <1>2 DEF Steps
<1> QED BY <1>1, <1>2, <1>3, TurnsAssumption DEF User

\* Where the log is left alone, and writers are only started, nothing is lost.
LEMMA TrackCounts ==
    ASSUME TypeOK, Steps, UsageType, Counted, UsageType',
           UNCHANGED <<tracked, total, monthly, held, before, stale>>,
           \A w \in Writers : writer'[w] = "read" => writer[w] = "read"
    PROVE  Counted'
<1>1. CountersFollowLog' /\ \A u \in Accounts : before'[u] <= tracked'[u]
  BY DEF Counted, CountersFollowLog
<1>2. ASSUME NEW w \in Writers PROVE Reads(w)'
  BY UserStays DEF Counted, Reads
<1> QED BY <1>1, <1>2 DEF Counted

LEMMA WriterReads ==
    ASSUME TypeOK, Steps, UsageType, Counted, NEW w \in Writers, request[w[1]] # NoRequest,
           ReadCounters(w, User(w[1]))
    PROVE  UsageType' /\ Counted'
<1> DEFINE u == User(w[1])
<1>1. u \in Accounts /\ User(w[1])' = u /\ request'[w[1]] = request[w[1]]
  BY UserStays
<1>2. total[u] \in Nat /\ monthly[u] \in Nat /\ monthly[u] <= total[u] /\ total[u] <= tracked[u]
  BY <1>1 DEF UsageType, Counted, CountersFollowLog
<1> HIDE DEF u
<1>3. /\ writer' = [writer EXCEPT ![w] = "read"]
      /\ held' = [held EXCEPT ![w] = <<total[u], monthly[u]>>]
      /\ UNCHANGED <<log, counters, tasks>>
  BY DEF ReadCounters, u
<1>4. UsageType'
  BY <1>2, <1>3 DEF UsageType
<1>5. CountersFollowLog' /\ \A a \in Accounts : before'[a] <= tracked'[a]
  BY <1>3 DEF Counted, CountersFollowLog
<1>6. ASSUME NEW x \in Writers PROVE Reads(x)'
  <2>1. CASE x = w
    <3>1. held'[w] = <<total[u], monthly[u]>>
      BY <1>3 DEF UsageType
    <3> QED BY <1>1, <1>2, <1>3, <2>1, <3>1 DEF Reads
  <2>2. CASE x # w
    <3>1. writer'[x] = writer[x] /\ held'[x] = held[x]
      BY <1>3, <2>2 DEF UsageType
    <3> QED BY <1>3, <3>1, UserStays DEF Counted, Reads
  <2> QED BY <2>1, <2>2
<1> QED BY <1>4, <1>5, <1>6 DEF Counted

\* A write on stale counters loses tokens and marks the user; no write invents any.
LEMMA WriterCommits ==
    ASSUME TypeOK, Steps, UsageType, Counted, NEW w \in Writers, request[w[1]] # NoRequest,
           CommitUsage(w, User(w[1]))
    PROVE  UsageType' /\ Counted'
<1> DEFINE u == User(w[1])
<1>1. u \in Accounts
  BY UserStays
<1>2. /\ held[w] \in Nat \X Nat /\ held[w][2] <= held[w][1] /\ held[w][1] <= tracked[u]
      /\ tracked[u] \in Nat
  BY <1>1 DEF CommitUsage, UsageType, Counted, Reads
<1>3. /\ held[w][1] \in Nat /\ held[w][2] \in Nat /\ held[w] = <<held[w][1], held[w][2]>>
  BY <1>2
<1> HIDE DEF u
<1>4. /\ writer' = [writer EXCEPT ![w] = "idle"]
      /\ held' = [held EXCEPT ![w] = <<0, 0>>]
      /\ UNCHANGED <<tasks, before>>
  BY DEF CommitUsage
<1>5. CASE UNCHANGED <<log, counters>>
  <2>1. UsageType'
    BY <1>4, <1>5 DEF UsageType
  <2>2. CountersFollowLog' /\ \A a \in Accounts : before'[a] <= tracked'[a]
    BY <1>4, <1>5 DEF Counted, CountersFollowLog
  <2>3. ASSUME NEW x \in Writers PROVE Reads(x)'
    <3>1. CASE x = w
      BY <1>4, <3>1 DEF UsageType, Reads
    <3>2. CASE x # w
      <4>1. writer'[x] = writer[x] /\ held'[x] = held[x]
        BY <1>4, <3>2 DEF UsageType
      <4> QED BY <1>5, <4>1, UserStays DEF Counted, Reads
    <3> QED BY <3>1, <3>2
  <2> QED BY <2>1, <2>2, <2>3 DEF Counted
<1>6. CASE /\ logged' = [logged EXCEPT ![u] = @ + 1]
           /\ tracked' = [tracked EXCEPT ![u] = @ + 1]
           /\ total' = [total EXCEPT ![u] = held[w][1] + 1]
           /\ monthly' = [monthly EXCEPT ![u] = held[w][2] + 1]
           /\ stale' = IF held[w] = <<total[u], monthly[u]>> THEN stale ELSE stale \cup {u}
  <2>1. UsageType'
    BY <1>1, <1>3, <1>4, <1>6 DEF UsageType
  <2>2. /\ tracked'[u] = tracked[u] + 1 /\ total'[u] = held[w][1] + 1
        /\ monthly'[u] = held[w][2] + 1
        /\ \A a \in Accounts \ {u} : /\ tracked'[a] = tracked[a] /\ total'[a] = total[a]
                                     /\ monthly'[a] = monthly[a]
    BY <1>1, <1>6 DEF UsageType
  <2>3. \A a \in Accounts : tracked[a] \in Nat /\ before[a] \in Nat
    BY DEF UsageType
  <2>4. ASSUME NEW a \in Accounts PROVE tracked[a] <= tracked'[a]
    BY <2>2, <2>3
  <2>5. \A a \in Accounts : before'[a] <= tracked'[a]
    BY <1>4, <2>2, <2>3 DEF Counted
  <2>6. ASSUME NEW a \in Accounts
        PROVE  /\ monthly'[a] <= total'[a] /\ total'[a] <= tracked'[a]
               /\ a \notin stale' => /\ total'[a] = tracked'[a]
                                     /\ monthly'[a] = tracked'[a] - before'[a]
    <3>1. CASE a # u
      BY <1>4, <1>6, <2>2, <3>1 DEF Counted, CountersFollowLog
    <3>2. CASE a = u
      <4>1. monthly'[u] <= total'[u] /\ total'[u] <= tracked'[u]
        BY <1>2, <1>3, <2>2
      <4>2. ASSUME u \notin stale'
            PROVE  total'[u] = tracked'[u] /\ monthly'[u] = tracked'[u] - before'[u]
        <5>1. held[w] = <<total[u], monthly[u]>> /\ u \notin stale
          BY <1>6, <4>2
        <5>2. held[w][1] = total[u] /\ held[w][2] = monthly[u]
          BY <5>1
        <5>3. total[u] = tracked[u] /\ monthly[u] = tracked[u] - before[u]
          BY <1>1, <5>1 DEF Counted, CountersFollowLog
        <5> QED BY <1>1, <1>2, <1>3, <1>4, <2>2, <2>3, <5>2, <5>3
      <4> QED BY <3>2, <4>1, <4>2
    <3> QED BY <3>1, <3>2
  <2>7. ASSUME NEW x \in Writers PROVE Reads(x)'
    <3>1. CASE x = w
      BY <1>4, <3>1 DEF UsageType, Reads
    <3>2. CASE x # w
      <4> SUFFICES ASSUME writer'[x] = "read" PROVE Reads(x)'
        BY DEF Reads
      <4>1. writer[x] = "read" /\ held'[x] = held[x]
        BY <1>4, <3>2 DEF UsageType
      <4>2. /\ request[x[1]] # NoRequest
            /\ held[x][2] <= held[x][1] /\ held[x][1] <= tracked[User(x[1])]
        BY <4>1 DEF Counted, Reads
      <4>3. /\ request'[x[1]] = request[x[1]] /\ User(x[1])' = User(x[1])
            /\ User(x[1]) \in Accounts
        BY <4>2, UserStays
      <4>4. tracked[User(x[1])] <= tracked'[User(x[1])]
        BY <2>4, <4>3
      <4>5. held[x][1] \in Nat /\ tracked[User(x[1])] \in Nat /\ tracked'[User(x[1])] \in Nat
        BY <2>1, <4>3 DEF UsageType
      <4>6. held[x][1] <= tracked'[User(x[1])]
        BY <4>2, <4>4, <4>5
      <4> QED BY <4>1, <4>2, <4>3, <4>6 DEF Reads
    <3> QED BY <3>1, <3>2
  <2>8. CountersFollowLog'
    BY <2>6 DEF CountersFollowLog
  <2> QED BY <2>1, <2>5, <2>7, <2>8 DEF Counted
<1> QED BY <1>5, <1>6 DEF CommitUsage, Logs, u

\* The row of a run leaves the counters alone, and what they follow.
LEMMA RunCommits ==
    ASSUME TypeOK, Steps, UsageType, Counted, NEW w \in Writers, request[w[1]] # NoRequest,
           CommitRun(w, User(w[1]))
    PROVE  UsageType' /\ Counted'
<1>1. User(w[1]) \in Accounts
  BY UserStays
<1>2. /\ logged' \in {logged, [logged EXCEPT ![User(w[1])] = @ + 1]}
      /\ writer' = [writer EXCEPT ![w] = "idle"]
      /\ UNCHANGED <<tracked, counters, held, tasks>>
  BY DEF CommitRun
<1>3. logged' \in [Accounts -> Nat]
  BY <1>1, <1>2 DEF UsageType
<1>4. UsageType'
  BY <1>2, <1>3 DEF UsageType
<1>5. \A x \in Writers : writer'[x] = "read" => writer[x] = "read"
  BY <1>2 DEF UsageType
<1> QED BY <1>2, <1>4, <1>5, TrackCounts

LEMMA CountsStep ==
    ASSUME TypeOK, Steps, UsageType, Counted, [Next]_vars
    PROVE  UsageType' /\ Counted'
<1>1. ASSUME NEW r \in Turns,
             \/ Chat(r) \/ ChatWithFile(r) \/ ChatStream(r) \/ ChatAgent(r) \/ ChatRag(r)
             \/ Hit(r) \/ Miss(r) \/ Load(r) \/ CompressionTimesOut(r) \/ Generate(r)
             \/ GenerationFails(r) \/ Answer(r) \/ StopStream(r) \/ Commit(r)
             \/ CommitFails(r) \/ Remember(r)
      PROVE  UsageType' /\ Counted'
  <2>1. UNCHANGED usage \/ \E ws \in SUBSET Writers : Track(ws)
    BY <1>1, TurnsTrack
  <2>2. UsageType'
    BY <2>1 DEF Track, UsageType
  <2>3. /\ UNCHANGED <<tracked, total, monthly, held, before, stale>>
        /\ \A w \in Writers : writer'[w] = "read" => writer[w] = "read"
    BY <2>1 DEF Track
  <2> QED BY <2>2, <2>3, TrackCounts
<1>2. ASSUME NEW w \in Writers, WriteLog(w) PROVE UsageType' /\ Counted'
  BY <1>2, WriterReads, WriterCommits, RunCommits DEF WriteLog
<1>3. ASSUME EndOfMonth PROVE UsageType' /\ Counted'
  <2>1. /\ monthly' = [u \in Accounts |-> 0] /\ before' = tracked /\ tasks' = tasks + 1
        /\ UNCHANGED <<log, total, writer, held, stale>>
    BY <1>3 DEF EndOfMonth, ResetMonth
  <2>2. UsageType'
    BY <2>1 DEF UsageType
  <2>3. \A u \in Accounts : tracked[u] \in Nat /\ total[u] \in Nat
    BY DEF UsageType
  <2>4. CountersFollowLog' /\ \A u \in Accounts : before'[u] <= tracked'[u]
    BY <2>1, <2>3 DEF Counted, CountersFollowLog
  <2>5. ASSUME NEW w \in Writers PROVE Reads(w)'
    BY <2>1, UserStays DEF Counted, Reads
  <2> QED BY <2>2, <2>4, <2>5 DEF Counted
<1>4. ASSUME UNCHANGED vars PROVE UsageType' /\ Counted'
  <2>1. UNCHANGED usage
    BY <1>4 DEF vars
  <2>2. UsageType'
    BY <2>1 DEF UsageType
  <2> QED BY <2>1, <2>2, TrackCounts
<1>5. ASSUME CleanUp PROVE UsageType' /\ Counted'
  <2>1. /\ tasks' = tasks + 1 /\ UNCHANGED <<tracked, counters, writer, held>>
        /\ logged' \in [Accounts -> UNION {0 .. logged[u] : u \in Accounts}]
    BY <1>5 DEF CleanUp, DeleteOldRows
  <2>2. UNION {0 .. logged[u] : u \in Accounts} \subseteq Nat
    BY DEF UsageType
  <2>3. logged' \in [Accounts -> Nat]
    BY <2>1, <2>2
  <2>4. UsageType'
    BY <2>1, <2>3 DEF UsageType
  <2> QED BY <2>1, <2>4, TrackCounts
<1> QED BY <1>1, <1>2, <1>3, <1>4, <1>5 DEF Next

\* However the writers of one user overlap, fail, are late or meet the end of the month,
\* the counters never say more than the replies that were ever logged, nor the month more
\* than the lifetime; deleted rows and those of agents make no difference to them.
THEOREM CountersAreBounded == Spec => []CountersFollowLog
<1>1. Init => TypeOK /\ HasReply /\ UsageType /\ Counted
  BY InitType, InitReply, InitCounts
<1>2. TypeOK /\ HasReply /\ UsageType /\ Counted /\ [Next]_vars
          => (TypeOK /\ HasReply /\ UsageType /\ Counted)'
  BY TypeStep, CountsStep
<1>3. Counted => CountersFollowLog
  BY DEF Counted
<1> QED BY <1>1, <1>2, <1>3, PTL DEF Spec
=============================================================================
