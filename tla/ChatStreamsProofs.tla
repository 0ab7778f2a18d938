------------------------- MODULE ChatStreamsProofs -------------------------
(***************************************************************************)
(* Proofs about ChatStreams, for any requests, conversations and number of *)
(* chunks.                                                                 *)
(*                                                                         *)
(* The counts are exact because a stream holds the event loop from its     *)
(* SELECT to its commit, so that what it read is still there (FreshReads); *)
(* what a client is told is right because a request is stored only in the  *)
(* states that say so (StoredOnce) and the page and the coroutine count the*)
(* same tokens (ShownIsSent).                                              *)
(***************************************************************************)
EXTENDS ChatStreams, TLAPS

Over(r) == pc[r] \in {"idle", "failed", "done", "stopped", "error"}

\* A request that is under way has a conversation, which exists unless it is new.
Underway ==
    \A r \in Requests : ~Over(r) =>
        /\ thread[r] \in Threads
        /\ ~isNew[r] => thread[r] \in rows

\* A conversation exists when it has messages.
RowsHaveMessages ==
    \A t \in Threads :
        /\ t \in rows => stored[t] # <<>>
        /\ t \notin rows => stored[t] = <<>> /\ count[t] = 0

\* What a stream read is still there when it commits.
FreshReads ==
    \A s \in Streams, t \in Threads :
        pc[s] = "selected" /\ ~isNew[s] /\ thread[s] = t /\ LaterStreamed(t)
            => read[s] = count[t]

StopsStand == \A s \in asked : s \in flagged /\ Dispatched(s) /\ ~Ended(s)

\* The page received the tokens that were appended, or missed one.
ShownIsSent ==
    \A s \in Streams :
        shown[s] \in {IF pc[s] = "emitting" THEN parts[s] - 1 ELSE parts[s], Gap}

\* The states in which a stream has, or does not have, a text.
TextIsThere ==
    \A s \in Streams :
        /\ pc[s] \in {"stopping", "empty"} => parts[s] = 0
        /\ pc[s] \in {"emitting", "storing", "selected", "remembering"} => parts[s] > 0

StoredOnce ==
    \A r \in Requests :
        /\ \A t \in Threads :
               Has(stored[t], r) => pc[r] \in {"remembering", "done", "stopped"}
        /\ pc[r] = "remembering" => Has(stored[thread[r]], r)

IInv ==
    /\ TypeOK
    /\ Underway
    /\ RowsHaveMessages
    /\ FreshReads
    /\ StreamsCountExactly
    /\ StopsStand
    /\ ShownIsSent
    /\ TextIsThere
    /\ StoredOnce

USE DEF conversations, locals, coroutine, client

----------------------------------------------------------------------------
(* What Store does to a conversation.                                       *)

LEMMA AppendHas ==
    ASSUME NEW q \in Seq(Requests), NEW r \in Requests, NEW x
    PROVE  Has(Append(q, r), x) <=> Has(q, x) \/ x = r
<1>1. /\ Len(Append(q, r)) = Len(q) + 1 /\ Len(q) \in Nat
      /\ \A i \in 1 .. Len(q) : Append(q, r)[i] = q[i]
      /\ Append(q, r)[Len(q) + 1] = r
  OBVIOUS
<1> HIDE DEF Requests
<1>2. ASSUME Has(Append(q, r), x) PROVE Has(q, x) \/ x = r
  BY <1>1, <1>2 DEF Has
<1>3. ASSUME Has(q, x) \/ x = r PROVE Has(Append(q, r), x)
  BY <1>1, <1>3 DEF Has
<1> QED BY <1>2, <1>3

LEMMA StoreAppends ==
    ASSUME TypeOK, NEW r \in Requests, NEW t \in Threads, t = thread[r], Store(r)
    PROVE  /\ stored' \in [Threads -> Seq(Requests)]
           /\ count' \in [Threads -> Nat]
           /\ rows' \subseteq Threads
           /\ Len(stored'[t]) = Len(stored[t]) + 1
           /\ \A x : Has(stored'[t], x) <=> Has(stored[t], x) \/ x = r
           /\ LaterStreamed(t)' <=> /\ LaterStreamed(t)
                                    /\ stored[t] # <<>> => r \in Streams
           /\ count'[t] = CountAfter(r)
           /\ \A u \in Threads \ {t} : stored'[u] = stored[u] /\ count'[u] = count[u]
<1>1. /\ stored \in [Threads -> Seq(Requests)] /\ count \in [Threads -> Nat]
      /\ read \in [Requests -> Nat] /\ rows \subseteq Threads
  BY DEF TypeOK
<1>2. stored' = [stored EXCEPT ![t] = Append(stored[t], r)]
  BY DEF Store
<1>3. count' = [count EXCEPT ![t] = CountAfter(r)]
  BY DEF Store
<1>4. CountAfter(r) \in Nat
  BY <1>1 DEF CountAfter
<1>5. rows' \subseteq Threads
  BY <1>1 DEF Store
<1>6. stored[t] \in Seq(Requests) /\ stored'[t] = Append(stored[t], r)
  BY <1>1, <1>2
<1>7. \A x : Has(stored'[t], x) <=> Has(stored[t], x) \/ x = r
  BY <1>6, AppendHas
<1>8. /\ Len(stored'[t]) = Len(stored[t]) + 1 /\ Len(stored[t]) \in Nat
      /\ \A i \in 1 .. Len(stored[t]) : stored'[t][i] = stored[t][i]
      /\ stored'[t][Len(stored[t]) + 1] = r
      /\ stored[t] # <<>> <=> Len(stored[t]) >= 1
  BY <1>6
<1>9. LaterStreamed(t)' <=> LaterStreamed(t) /\ (stored[t] # <<>> => r \in Streams)
  <2>1. ASSUME LaterStreamed(t)' PROVE LaterStreamed(t)
    <3>1. \A i \in 2 .. Len(stored[t]) : /\ i \in 1 .. Len(stored[t])
                                         /\ i \in 2 .. Len(stored'[t])
      BY <1>8
    <3> QED BY <1>8, <2>1, <3>1 DEF LaterStreamed
  <2>2. ASSUME LaterStreamed(t)', stored[t] # <<>> PROVE r \in Streams
    BY <1>8, <2>2 DEF LaterStreamed
  <2>3. ASSUME LaterStreamed(t), stored[t] # <<>> => r \in Streams PROVE LaterStreamed(t)'
    BY <1>8, <2>3, SMTT(30) DEF LaterStreamed
  <2> QED BY <2>1, <2>2, <2>3
<1>10. stored' \in [Threads -> Seq(Requests)] /\ count' \in [Threads -> Nat]
  BY <1>1, <1>2, <1>3, <1>4, <1>6
<1>11. \A u \in Threads \ {t} : stored'[u] = stored[u] /\ count'[u] = count[u]
  BY <1>1, <1>2, <1>3
<1>12. count'[t] = CountAfter(r)
  BY <1>1, <1>3
<1> QED BY <1>5, <1>7, <1>8, <1>9, <1>10, <1>11, <1>12

\* Every transaction that commits keeps the conversations in order.
LEMMA StoreKeeps ==
    ASSUME IInv, NEW r \in Requests, pc[r] = "selected", ~Collides(r), Store(r),
           NEW t \in Threads, t = thread[r]
    PROVE  /\ RowsHaveMessages'
           /\ StreamsCountExactly'
           /\ rows \subseteq rows'
<1>1. ~isNew[r] => t \in rows
  BY DEF IInv, Underway, Over
<1>2. TypeOK /\ RowsHaveMessages /\ StreamsCountExactly
  BY DEF IInv
<1>3. rows' = IF isNew[r] THEN rows \cup {t} ELSE rows
  BY DEF Store
<1>4. /\ stored' \in [Threads -> Seq(Requests)]
      /\ count' \in [Threads -> Nat]
      /\ Len(stored'[t]) = Len(stored[t]) + 1
      /\ LaterStreamed(t)' <=> LaterStreamed(t) /\ (stored[t] # <<>> => r \in Streams)
      /\ count'[t] = CountAfter(r)
      /\ \A u \in Threads \ {t} : stored'[u] = stored[u] /\ count'[u] = count[u]
  BY <1>1, <1>2, StoreAppends
<1>5. t \in rows'
  BY <1>1, <1>3
<1>6. rows \subseteq rows' /\ rows' \subseteq rows \cup {t}
  BY <1>3
<1>7. stored[t] \in Seq(Requests) /\ stored'[t] \in Seq(Requests)
  BY <1>1, <1>2, <1>4 DEF TypeOK
<1>8. RowsHaveMessages'
  <2>1. stored'[t] # <<>>
    BY <1>4, <1>7
  <2> QED BY <2>1, <1>2, <1>4, <1>5, <1>6 DEF RowsHaveMessages
<1>9. LaterStreamed(t)' => count'[t] = 2 * (Len(stored'[t]) - 1)
  <2> HAVE LaterStreamed(t)'
  <2>1. CASE isNew[r]
    <3>1. t \notin rows
      BY <2>1 DEF Collides
    <3>2. stored[t] = <<>> /\ count[t] = 0
      BY <1>1, <1>2, <3>1 DEF RowsHaveMessages
    <3>3. count'[t] = 0
      BY <2>1, <3>2, <1>4 DEF CountAfter
    <3> QED BY <3>2, <3>3, <1>4
  <2>2. CASE ~isNew[r]
    <3>1. t \in rows /\ stored[t] # <<>>
      BY <2>2, <1>1, <1>2 DEF RowsHaveMessages
    <3>2. r \in Streams /\ LaterStreamed(t)
      BY <3>1, <1>4
    <3>3. read[r] = count[t] /\ count[t] = 2 * (Len(stored[t]) - 1)
      BY <3>1, <3>2, <2>2, <1>1, <1>2 DEF IInv, FreshReads, StreamsCountExactly
    <3>4. r \notin uncounted
      BY <3>2, <1>2, RequestsAssumption DEF TypeOK
    <3>5. count'[t] = read[r] + 2
      BY <3>4, <2>2, <1>4 DEF CountAfter
    <3> QED BY <3>3, <3>5, <1>4, <1>7
  <2> QED BY <2>1, <2>2
<1>10. ASSUME NEW u \in rows', LaterStreamed(u)'
       PROVE  count'[u] = 2 * (Len(stored'[u]) - 1)
  <2>1. CASE u = t
    BY <2>1, <1>9, <1>10
  <2>2. CASE u # t
    <3>1. u \in rows /\ stored'[u] = stored[u] /\ count'[u] = count[u]
      BY <2>2, <1>2, <1>4, <1>6 DEF TypeOK
    <3>2. LaterStreamed(u)
      BY <3>1, <1>10 DEF LaterStreamed
    <3> QED BY <3>1, <3>2, <1>2 DEF StreamsCountExactly
  <2> QED BY <2>1, <2>2
<1> QED BY <1>6, <1>8, <1>10 DEF StreamsCountExactly

----------------------------------------------------------------------------
(* Types.                                                                   *)

LEMMA InitInv == Init => IInv
<1> SUFFICES ASSUME Init PROVE IInv
  OBVIOUS
<1>1. TypeOK
  <2>1. isNew \in [Requests -> BOOLEAN]
    BY Zenon DEF Init
  <2>2. stored \in [Threads -> Seq(Requests)]
    BY DEF Init
  <2>3. \A s \in Streams : Runs(s) <=> loop = s
    BY RequestsAssumption DEF Init, Runs, Requests
  <2> QED BY <2>1, <2>2, <2>3, TokensAssumption DEF Init, TypeOK, Requests
<1>2. Underway /\ RowsHaveMessages /\ FreshReads /\ StopsStand
  BY DEF Init, Underway, Over, RowsHaveMessages, FreshReads, StopsStand, Requests
<1>3. StreamsCountExactly
  BY DEF Init, StreamsCountExactly
<1>4. ShownIsSent /\ TextIsThere
  BY DEF Init, ShownIsSent, TextIsThere, Requests
<1>5. StoredOnce
  BY DEF Init, StoredOnce, Has
<1> QED BY <1>1, <1>2, <1>3, <1>4, <1>5 DEF IInv

LEMMA TypeStep == IInv /\ [Next]_vars => TypeOK'
<1> SUFFICES ASSUME IInv, [Next]_vars PROVE TypeOK'
  OBVIOUS
<1> USE RequestsAssumption, TokensAssumption DEF TypeOK, Requests, Goto, Runs
<1>0. TypeOK /\ ShownIsSent
  BY DEF IInv
<1>1. ASSUME NEW r \in Requests, NEW t \in Threads, Resolve(r, t) PROVE TypeOK'
  <2>1. isNew' \in [Requests -> BOOLEAN]
    BY <1>0, <1>1, Zenon DEF Resolve, Unknown
  <2> QED BY <1>0, <1>1, <2>1 DEF Resolve
<1>2. ASSUME NEW r \in Requests, RequestFails(r) PROVE TypeOK'
  <2>1. isNew' \in [Requests -> BOOLEAN]
    BY <1>0, <1>2, Zenon DEF RequestFails, Return
  <2> QED BY <1>0, <1>2, <2>1 DEF RequestFails, Return
<1>3. ASSUME NEW r \in Requests, Select(r) PROVE TypeOK'
  BY <1>0, <1>3 DEF Select, IInv, Underway, Over
<1>4. ASSUME NEW c \in Chats, ChatReplies(c) PROVE TypeOK'
  BY <1>0, <1>4 DEF ChatReplies
<1>5. ASSUME NEW s \in Streams, Dispatch(s) PROVE TypeOK'
  BY <1>0, <1>5 DEF Dispatch
<1>6. ASSUME NEW s \in Streams, Stop(s) PROVE TypeOK'
  BY <1>0, <1>6 DEF Stop
<1>7. ASSUME NEW s \in Streams, Start(s) PROVE TypeOK'
  BY <1>0, <1>7 DEF Start, StartKeepsFlag
<1>8. ASSUME NEW s \in Streams, Chunk(s) PROVE TypeOK'
  <2>1. parts' \in [Streams -> Nat]
    BY <1>0, <1>8 DEF Chunk, PartsAfter
  <2>2. CASE s \in flagged
    <3>1. \/ pc' = [pc EXCEPT ![s] = "stopping"]
          \/ pc' = [pc EXCEPT ![s] = "storing"]
      BY <1>8, <2>2 DEF Chunk
    <3>2. wasStopped' = wasStopped \cup {s} /\ pc[s] = "waiting"
      BY <1>8, <2>2 DEF Chunk
    <3>3. UNCHANGED <<conversations, locals, rerouted, flagged, loop, client>>
      BY <1>8 DEF Chunk
    <3>4. \A q \in Streams : Runs(q)' <=> loop' = q
      BY <1>0, <3>1, <3>2, <3>3
    <3>5. pc' \in [Requests -> {"idle", "resolved", "failed", "scheduled", "waiting",
                               "emitting", "routing", "empty", "stopping", "storing",
                               "selected", "remembering", "done", "stopped", "error"}]
      BY <1>0, <3>1
    <3>6. wasStopped' \subseteq Streams
      BY <1>0, <3>2
    <3> HIDE DEF Runs
    <3> QED BY <1>0, <2>1, <3>3, <3>4, <3>5, <3>6
  <2>3. CASE s \notin flagged
    <3>1. pc' = [pc EXCEPT ![s] = "emitting"] /\ pc[s] = "waiting"
      BY <1>8, <2>3 DEF Chunk
    <3>2. UNCHANGED <<conversations, locals, rerouted, wasStopped, flagged, loop, client>>
      BY <1>8, <2>3 DEF Chunk
    <3> QED BY <1>0, <2>1, <3>1, <3>2
  <2> QED BY <2>2, <2>3
<1>9. ASSUME NEW s \in Streams, EmitToken(s) PROVE TypeOK'
  <2>1. shown' \in [Streams -> Nat \cup {Gap}]
    BY <1>0, <1>9 DEF EmitToken, ShownIsSent, Gap
  <2> QED BY <1>0, <1>9, <2>1 DEF EmitToken, AfterChunks
<1>10. ASSUME NEW s \in Streams, ChunksEnd(s) PROVE TypeOK'
  BY <1>0, <1>10 DEF ChunksEnd, LoopKept, AfterChunks
<1>11. ASSUME NEW s \in Streams, ProviderFails(s) PROVE TypeOK'
  BY <1>0, <1>11 DEF ProviderFails
<1>12. ASSUME NEW s \in Streams, RouteAnswers(s) PROVE TypeOK'
  BY <1>0, <1>12 DEF RouteAnswers
<1>13. ASSUME NEW s \in Streams, NEW event \in {"done", "stopped", "error"},
              pc[s] \in {"empty", "stopping", "selected", "remembering"},
              loop \in {s, NoStream}, End(s, event),
              stored' \in [Threads -> Seq(Requests)], count' \in [Threads -> Nat],
              rows' \subseteq Threads
       PROVE  TypeOK'
  <2>1. isNew' \in [Requests -> BOOLEAN]
    BY <1>0, <1>13, Zenon DEF End, Return
  <2>2. \A q \in Streams : Runs(q)' <=> loop' = q
    BY <1>0, <1>13 DEF End, Return
  <2> QED BY <1>0, <1>13, <2>1, <2>2 DEF End, Return, Forget
<1>14. ASSUME NEW s \in Streams, EmptyReply(s) \/ StoppedEmpty(s) \/ Done(s) PROVE TypeOK'
  BY <1>0, <1>13, <1>14 DEF EmptyReply, EndEmpty, StoppedEmpty, Done
<1>15. ASSUME NEW r \in Requests, CommitFails(r) PROVE TypeOK'
  <2>1. CASE r \in Streams
    BY <1>0, <1>13, <1>15, <2>1 DEF CommitFails
  <2>2. CASE r \notin Streams
    <3>1. isNew' \in [Requests -> BOOLEAN]
      BY <1>0, <1>15, <2>2, Zenon DEF CommitFails, Return
    <3>2. Return(r, "failed") /\ UNCHANGED <<conversations, coroutine, flagged, loop, client>>
      BY <1>15, <2>2 DEF CommitFails
    <3> QED BY <1>0, <2>2, <3>1, <3>2 DEF Return
  <2> QED BY <2>1, <2>2
<1>16. ASSUME NEW r \in Requests, pc[r] = "selected", Store(r)
       PROVE  /\ stored' \in [Threads -> Seq(Requests)] /\ count' \in [Threads -> Nat]
              /\ rows' \subseteq Threads
  <2>1. thread[r] \in Threads
    BY <1>16 DEF IInv, Underway, Over
  <2> HIDE DEF TypeOK, Requests
  <2> QED BY <1>0, <1>16, <2>1, StoreAppends
<1>17. ASSUME NEW c \in Chats, CommitChat(c) PROVE TypeOK'
  <2>1. isNew' \in [Requests -> BOOLEAN]
    BY <1>0, <1>17, Zenon DEF CommitChat, Return
  <2> QED BY <1>0, <1>16, <1>17, <2>1 DEF CommitChat, Return
<1>18. ASSUME NEW s \in Streams, CommitStopped(s) PROVE TypeOK'
  BY <1>0, <1>13, <1>16, <1>18 DEF CommitStopped
<1>19. ASSUME NEW s \in Streams, CommitReply(s) PROVE TypeOK'
  BY <1>0, <1>16, <1>19 DEF CommitReply
<1>20. ASSUME NEW s \in Streams, Join(s) PROVE TypeOK'
  BY <1>0, <1>20 DEF Join
<1>21. ASSUME NEW s \in Streams, Disconnect(s) PROVE TypeOK'
  BY <1>0, <1>21 DEF Disconnect
<1>22. ASSUME NEW s \in Streams, JoinRefused(s) PROVE TypeOK'
  BY <1>0, <1>22 DEF JoinRefused
<1>23. ASSUME OthersTake \/ OthersLetGo PROVE TypeOK'
  BY <1>0, <1>23 DEF OthersTake, OthersLetGo
<1>24. CASE UNCHANGED vars
  BY <1>0, <1>24 DEF vars
<1> QED
  BY <1>1, <1>2, <1>3, <1>4, <1>5, <1>6, <1>7, <1>8, <1>9, <1>10, <1>11, <1>12, <1>14,
     <1>15, <1>17, <1>18, <1>19, <1>20, <1>21, <1>22, <1>23, <1>24
     DEF Next, Owed, Ready, Resumed

----------------------------------------------------------------------------
(* The rest of the invariant.                                               *)

Rest ==
    Underway /\ FreshReads /\ StopsStand /\ ShownIsSent /\ TextIsThere /\ StoredOnce

LEMMA SameConversations ==
    ASSUME IInv, UNCHANGED conversations
    PROVE  /\ RowsHaveMessages' /\ StreamsCountExactly'
           /\ \A t : LaterStreamed(t)' <=> LaterStreamed(t)
<1>1. \A t : LaterStreamed(t)' <=> LaterStreamed(t)
  BY DEF LaterStreamed
<1> QED BY <1>1 DEF IInv, RowsHaveMessages, StreamsCountExactly

Commits ==
    \/ \E c \in Chats : CommitChat(c)
    \/ \E s \in Streams : CommitStopped(s) \/ CommitReply(s)

\* Steps that commit nothing.
LEMMA QuietStep ==
    ASSUME IInv, [Next]_vars, ~Commits, UNCHANGED conversations
    PROVE  Rest'
<1> USE RequestsAssumption, TokensAssumption
    DEF Rest, Requests, Goto, Over, Underway, FreshReads, StopsStand, ShownIsSent,
        TextIsThere, StoredOnce, Dispatched, Ended, Gap
<1>0. Rest /\ TypeOK
  BY DEF IInv
<1>a. \A t : LaterStreamed(t)' <=> LaterStreamed(t)
  BY SameConversations
<1>1. ASSUME NEW r \in Requests, NEW t \in Threads, Resolve(r, t) PROVE Rest'
  <2>1. Underway'
    <3>1. /\ thread' = [thread EXCEPT ![r] = t] /\ pc' = [pc EXCEPT ![r] = "resolved"]
          /\ rows' = rows
          /\ isNew' = [isNew EXCEPT ![r] = (t \notin rows)]
      BY <1>1 DEF Resolve, Unknown
    <3>2. /\ thread \in [Requests -> Threads \cup {NoThread}]
          /\ isNew \in [Requests -> BOOLEAN]
      BY <1>0, Zenon DEF TypeOK
    <3>3. isNew'[r] = (t \notin rows) /\ \A q \in Requests \ {r} : isNew'[q] = isNew[q]
      BY <3>1, <3>2, Zenon
    <3>4. thread'[r] = t /\ \A q \in Requests \ {r} : thread'[q] = thread[q]
      BY <3>1, <3>2
    <3>5. ASSUME NEW q \in Requests, pc'[q] \notin {"idle", "failed", "done", "stopped", "error"}
          PROVE  thread'[q] \in Threads /\ (~isNew'[q] => thread'[q] \in rows')
      <4>1. CASE q = r
        BY <4>1, <3>1, <3>3, <3>4
      <4>2. CASE q # r
        <5>1. pc'[q] = pc[q] /\ isNew'[q] = isNew[q]
          BY <4>2, <1>0, <3>1, <3>3 DEF TypeOK
        <5> QED BY <4>2, <5>1, <1>0, <3>1, <3>4, <3>5
      <4> QED BY <4>1, <4>2
    <3> QED BY <3>5
  <2>2. FreshReads'
    BY <1>0, <1>a, <1>1 DEF Resolve, TypeOK
  <2>3. StopsStand' /\ ShownIsSent' /\ TextIsThere'
    BY <1>0, <1>1 DEF Resolve, TypeOK
  <2>4. StoredOnce'
    BY <1>0, <1>1 DEF Resolve, TypeOK
  <2> QED BY <2>1, <2>2, <2>3, <2>4
<1>2. ASSUME NEW r \in Requests, RequestFails(r) PROVE Rest'
  BY <1>0, <1>a, <1>2 DEF RequestFails, Return, TypeOK
<1>3. ASSUME NEW r \in Requests, Select(r) PROVE Rest'
  <2>1. Underway' /\ FreshReads'
    BY <1>0, <1>a, <1>3 DEF Select, TypeOK
  <2>2. StopsStand' /\ ShownIsSent' /\ TextIsThere'
    BY <1>0, <1>3 DEF Select, TypeOK
  <2>3. StoredOnce'
    BY <1>0, <1>3 DEF Select, TypeOK
  <2> QED BY <2>1, <2>2, <2>3
<1>4. ASSUME NEW c \in Chats, ChatReplies(c) PROVE Rest'
  <2>1. Underway' /\ FreshReads'
    BY <1>0, <1>a, <1>4 DEF ChatReplies, TypeOK
  <2>2. StopsStand' /\ ShownIsSent' /\ TextIsThere'
    BY <1>0, <1>4 DEF ChatReplies, TypeOK
  <2>3. StoredOnce'
    BY <1>0, <1>4 DEF ChatReplies, TypeOK
  <2> QED BY <2>1, <2>2, <2>3
<1>5. ASSUME NEW s \in Streams, Dispatch(s) PROVE Rest'
  <2>1. Underway' /\ FreshReads'
    BY <1>0, <1>a, <1>5 DEF Dispatch, TypeOK
  <2>2. StopsStand' /\ ShownIsSent' /\ TextIsThere'
    BY <1>0, <1>5 DEF Dispatch, TypeOK
  <2>3. StoredOnce'
    BY <1>0, <1>5 DEF Dispatch, TypeOK
  <2> QED BY <2>1, <2>2, <2>3
<1>6. ASSUME NEW s \in Streams, Stop(s) PROVE Rest'
  BY <1>0, <1>a, <1>6 DEF Stop, TypeOK
<1>7. ASSUME NEW s \in Streams, Start(s) PROVE Rest'
  BY <1>0, <1>a, <1>7 DEF Start, StartKeepsFlag, TypeOK
<1>8. ASSUME NEW s \in Streams, Chunk(s) PROVE Rest'
  <2>1. Underway' /\ FreshReads'
    <3>1. /\ pc' = [pc EXCEPT ![s] = pc'[s]] /\ pc[s] = "waiting"
          /\ pc'[s] \in {"stopping", "storing", "emitting"}
          /\ UNCHANGED <<conversations, locals>>
      BY <1>0, <1>8 DEF Chunk, TypeOK
    <3>2. \A q \in Requests : pc'[q] = pc[q] \/ q = s
      BY <1>0, <3>1 DEF TypeOK
    <3>3. Underway'
      BY <1>0, <3>1, <3>2
    <3>4. FreshReads'
      BY <1>0, <1>a, <3>1, <3>2
    <3> QED BY <3>3, <3>4
  <2>2. StopsStand' /\ ShownIsSent' /\ TextIsThere'
    <3>1. /\ pc' = [pc EXCEPT ![s] = pc'[s]] /\ pc[s] = "waiting"
          /\ pc'[s] = IF s \notin flagged THEN "emitting"
                      ELSE IF parts'[s] = 0 THEN "stopping" ELSE "storing"
          /\ UNCHANGED <<asked, flagged, shown>>
      BY <1>0, <1>8 DEF Chunk, TypeOK
    <3>2. /\ parts'[s] = IF s \in flagged THEN parts[s] ELSE parts[s] + 1
          /\ parts[s] \in Nat
          /\ \A q \in Streams : q # s => parts'[q] = parts[q] /\ pc'[q] = pc[q]
      <4>1. parts' = [parts EXCEPT ![s] = PartsAfter(s)]
        BY <1>8 DEF Chunk
      <4>2. /\ parts \in [Streams -> Nat] /\ Streams \subseteq DOMAIN pc
        BY <1>0 DEF TypeOK
      <4>3. parts[s] \in Nat
        BY <4>2
      <4>4. \A q \in Streams : q # s => parts'[q] = parts[q] /\ pc'[q] = pc[q]
        BY <3>1, <4>1, <4>2
      <4> QED BY <4>1, <4>2, <4>3, <4>4 DEF PartsAfter
    <3>3. StopsStand'
      <4>1. \A q \in Requests : q # s => pc'[q] = pc[q]
        BY <1>0, <3>1 DEF TypeOK
      <4>2. asked' = asked /\ flagged' = flagged /\ asked \subseteq Streams
        BY <1>0, <3>1 DEF TypeOK
      <4>3. \A q \in asked : q \in flagged /\ Dispatched(q) /\ ~Ended(q)
        BY <1>0
      <4> QED BY <3>1, <4>1, <4>2, <4>3
    <3>4. parts[s] - 0 = parts[s] /\ parts[s] + 1 - 1 = parts[s]
      BY <3>2
    <3>5. ShownIsSent'
      <4>1. \A q \in Streams :
                /\ shown'[q] \in {IF pc[q] = "emitting" THEN parts[q] - 1 ELSE parts[q], Gap}
                /\ shown'[q] = shown[q]
        BY <1>0, <3>1
      <4>2. shown'[s] \in {IF pc'[s] = "emitting" THEN parts'[s] - 1 ELSE parts'[s], Gap}
        BY <3>1, <3>2, <3>4, <4>1
      <4> QED BY <3>2, <4>1, <4>2
    <3>6. TextIsThere'
      BY <1>0, <3>1, <3>2
    <3> QED BY <3>3, <3>5, <3>6
  <2>3. StoredOnce'
    <3>1. /\ pc' = [pc EXCEPT ![s] = pc'[s]] /\ pc[s] = "waiting"
          /\ pc'[s] \in {"stopping", "storing", "emitting"}
          /\ stored' = stored /\ thread' = thread
      BY <1>0, <1>8 DEF Chunk, TypeOK
    <3>2. \A q \in Requests : pc'[q] = pc[q] \/ q = s
      BY <1>0, <3>1 DEF TypeOK
    <3> QED BY <1>0, <3>1, <3>2
  <2> QED BY <2>1, <2>2, <2>3
<1>9. ASSUME NEW s \in Streams, EmitToken(s) PROVE Rest'
  <2>1. Underway' /\ FreshReads'
    BY <1>0, <1>a, <1>9 DEF EmitToken, AfterChunks, TypeOK
  <2>2. StopsStand' /\ ShownIsSent' /\ TextIsThere'
    BY <1>0, <1>9 DEF EmitToken, AfterChunks, TypeOK
  <2>3. StoredOnce'
    BY <1>0, <1>9 DEF EmitToken, AfterChunks, TypeOK
  <2> QED BY <2>1, <2>2, <2>3
<1>10. ASSUME NEW s \in Streams, ChunksEnd(s) PROVE Rest'
  BY <1>0, <1>a, <1>10 DEF ChunksEnd, AfterChunks, TypeOK
<1>11. ASSUME NEW s \in Streams, ProviderFails(s) PROVE Rest'
  BY <1>0, <1>a, <1>11 DEF ProviderFails, TypeOK
<1>12. ASSUME NEW s \in Streams, RouteAnswers(s) PROVE Rest'
  BY <1>0, <1>a, <1>12 DEF RouteAnswers, TypeOK
<1>13. ASSUME NEW s \in Streams, NEW event \in {"done", "stopped", "error"}, End(s, event),
              pc[s] \in {"empty", "stopping", "selected"} \/ event = "done"
       PROVE  Rest'
  <2>1. Underway' /\ FreshReads'
    BY <1>0, <1>a, <1>13 DEF End, Return, Forget, TypeOK
  <2>2. StopsStand' /\ ShownIsSent' /\ TextIsThere'
    BY <1>0, <1>13 DEF End, Return, Forget, TypeOK
  <2>3. StoredOnce'
    BY <1>0, <1>13 DEF End, Return, Forget, TypeOK
  <2> QED BY <2>1, <2>2, <2>3
<1>14. ASSUME NEW s \in Streams, EmptyReply(s) \/ StoppedEmpty(s) \/ Done(s) PROVE Rest'
  BY <1>13, <1>14 DEF EmptyReply, EndEmpty, StoppedEmpty, Done
<1>15. ASSUME NEW r \in Requests, CommitFails(r) PROVE Rest'
  <2>1. CASE r \in Streams
    BY <1>13, <1>15, <2>1 DEF CommitFails
  <2>2. CASE r \notin Streams
    <3>1. Return(r, "failed") /\ UNCHANGED <<conversations, coroutine, flagged, loop, client>>
      BY <1>15, <2>2 DEF CommitFails
    <3>2. pc[r] = "selected"
      BY <1>15 DEF CommitFails
    <3> QED BY <1>0, <1>a, <2>2, <3>1, <3>2 DEF Return, TypeOK
  <2> QED BY <2>1, <2>2
<1>16. ASSUME NEW s \in Streams, Join(s) PROVE Rest'
  BY <1>0, <1>a, <1>16 DEF Join, TypeOK
<1>17. ASSUME NEW s \in Streams, Disconnect(s) PROVE Rest'
  BY <1>0, <1>a, <1>17 DEF Disconnect, TypeOK
<1>18. ASSUME NEW s \in Streams, JoinRefused(s) PROVE Rest'
  BY <1>0, <1>a, <1>18 DEF JoinRefused, TypeOK
<1>19. ASSUME OthersTake \/ OthersLetGo PROVE Rest'
  BY <1>0, <1>a, <1>19 DEF OthersTake, OthersLetGo, TypeOK
<1>20. CASE UNCHANGED vars
  BY <1>0, <1>a, <1>20 DEF vars
<1> QED
  BY <1>1, <1>2, <1>3, <1>4, <1>5, <1>6, <1>7, <1>8, <1>9, <1>10, <1>11, <1>12, <1>14,
     <1>15, <1>16, <1>17, <1>18, <1>19, <1>20 DEF Next, Owed, Ready, Resumed, Commits

\* Steps that commit.
LEMMA CommitStep ==
    ASSUME IInv, Commits
    PROVE  Rest' /\ RowsHaveMessages' /\ StreamsCountExactly'
<1>0. TypeOK /\ Rest /\ RowsHaveMessages
  BY DEF IInv, Rest
<1>1. PICK r \in Requests :
          /\ pc[r] = "selected" /\ ~Collides(r) /\ Store(r)
          /\ \/ CommitChat(r) /\ r \in Chats
             \/ CommitStopped(r) /\ r \in Streams
             \/ CommitReply(r) /\ r \in Streams
  <2>1. ASSUME NEW c \in Chats, CommitChat(c)
        PROVE  c \in Requests /\ pc[c] = "selected" /\ ~Collides(c) /\ Store(c)
    BY <2>1 DEF CommitChat, Requests
  <2>2. ASSUME NEW s \in Streams, CommitStopped(s) \/ CommitReply(s)
        PROVE  s \in Requests /\ pc[s] = "selected" /\ ~Collides(s) /\ Store(s)
    BY <2>2 DEF CommitStopped, CommitReply, Requests
  <2> QED BY <2>1, <2>2, Zenon DEF Commits
<1>2. PICK t \in Threads : t = thread[r]
  BY <1>0, <1>1 DEF Rest, Underway, Over
<1>3. RowsHaveMessages' /\ StreamsCountExactly' /\ rows \subseteq rows'
  BY <1>1, <1>2, StoreKeeps
<1>4. /\ \A x : Has(stored'[t], x) <=> Has(stored[t], x) \/ x = r
      /\ LaterStreamed(t)' => LaterStreamed(t) /\ (stored[t] # <<>> => r \in Streams)
      /\ \A u \in Threads \ {t} : stored'[u] = stored[u] /\ count'[u] = count[u]
  BY <1>0, <1>1, <1>2, StoreAppends
<1>5. /\ pc' = [pc EXCEPT ![r] = pc'[r]]
      /\ pc'[r] \in {"done", "stopped", "remembering"}
      /\ pc'[r] = "remembering" => UNCHANGED <<thread, isNew>>
      /\ pc'[r] # "remembering" =>
             /\ thread' = [thread EXCEPT ![r] = NoThread]
             /\ isNew' = [isNew EXCEPT ![r] = FALSE]
      /\ pc'[r] = "remembering" => UNCHANGED read
      /\ pc'[r] # "remembering" => read' = [read EXCEPT ![r] = 0]
  BY <1>0, <1>1 DEF CommitChat, CommitStopped, CommitReply, Return, End, Goto, TypeOK
<1>6. \A q \in Requests \ {r} :
          pc'[q] = pc[q] /\ thread'[q] = thread[q] /\ isNew'[q] = isNew[q] /\ read'[q] = read[q]
  <2>1. \A q \in Requests \ {r} : isNew'[q] = isNew[q]
    BY <1>0, <1>5, Zenon DEF TypeOK
  <2> QED BY <1>0, <1>5, <2>1 DEF TypeOK
<1>7. Underway'
  <2>1. ASSUME NEW q \in Requests, q # r, ~Over(q)'
        PROVE  thread'[q] \in Threads /\ (~isNew'[q] => thread'[q] \in rows')
    BY <2>1, <1>0, <1>3, <1>6 DEF Rest, Underway, Over
  <2>2. ASSUME ~Over(r)'
        PROVE  thread'[r] \in Threads /\ (~isNew'[r] => thread'[r] \in rows')
    BY <2>2, <1>0, <1>1, <1>2, <1>3, <1>5 DEF Rest, Underway, Over
  <2> QED BY <2>1, <2>2 DEF Underway
<1>8. FreshReads'
  <2>1. ASSUME NEW s \in Streams, NEW u \in Threads, pc'[s] = "selected", ~isNew'[s],
               thread'[s] = u, LaterStreamed(u)'
        PROVE  read'[s] = count'[u]
    <3>1. s # r /\ s \in Requests
      BY <2>1, <1>5 DEF Requests
    <3>2. pc[s] = "selected" /\ ~isNew[s] /\ thread[s] = u /\ read'[s] = read[s]
      BY <2>1, <3>1, <1>6
    <3>3. u \in rows /\ stored[u] # <<>>
      BY <3>1, <3>2, <1>0 DEF Rest, Underway, Over, RowsHaveMessages
    <3>4. r \notin Streams
      BY <3>1, <3>2, <1>0, <1>1, <2>1 DEF TypeOK, Runs
    <3>5. u # t
      BY <3>3, <3>4, <1>4, <2>1
    <3>6. stored'[u] = stored[u] /\ count'[u] = count[u]
      BY <3>5, <1>4
    <3>7. LaterStreamed(u)
      BY <3>6, <2>1 DEF LaterStreamed
    <3> QED BY <3>2, <3>6, <3>7, <1>0, <2>1 DEF Rest, FreshReads
  <2> QED BY <2>1 DEF FreshReads
<1>9. StopsStand' /\ ShownIsSent' /\ TextIsThere'
  <2> USE <1>0, RequestsAssumption
      DEF Rest, TypeOK, Requests, StopsStand, ShownIsSent, TextIsThere, Dispatched, Ended,
          Gap, Goto
  <2>1. CASE CommitChat(r) /\ r \in Chats
    BY <2>1 DEF CommitChat, Return
  <2>2. CASE CommitStopped(r) /\ r \in Streams
    BY <2>2, TokensAssumption DEF CommitStopped, End, Return, Forget
  <2>3. CASE CommitReply(r) /\ r \in Streams
    BY <2>3 DEF CommitReply
  <2> QED BY <1>1, <2>1, <2>2, <2>3
<1>10. StoredOnce'
  <2>1. ASSUME NEW q \in Requests, NEW u \in Threads, Has(stored'[u], q)
        PROVE  pc'[q] \in {"remembering", "done", "stopped"}
    <3>1. CASE q = r
      BY <3>1, <1>5
    <3>2. CASE q # r
      <4>1. Has(stored[u], q)
        BY <3>2, <2>1, <1>4
      <4> QED BY <3>2, <4>1, <1>0, <1>6 DEF Rest, StoredOnce
    <3> QED BY <3>1, <3>2
  <2>2. ASSUME NEW q \in Requests, pc'[q] = "remembering"
        PROVE  Has(stored'[thread'[q]], q)
    <3>1. CASE q = r
      BY <3>1, <2>2, <1>2, <1>4, <1>5
    <3>2. CASE q # r
      <4>1. pc[q] = "remembering" /\ thread'[q] = thread[q]
        BY <3>2, <2>2, <1>6
      <4>2. Has(stored[thread[q]], q) /\ thread[q] \in Threads
        BY <4>1, <1>0 DEF Rest, StoredOnce, Underway, Over
      <4> QED BY <4>1, <4>2, <1>4
    <3> QED BY <3>1, <3>2
  <2> QED BY <2>1, <2>2 DEF StoredOnce
<1> QED BY <1>3, <1>7, <1>8, <1>9, <1>10 DEF Rest

LEMMA NextConversations == Next /\ ~Commits => UNCHANGED conversations
<1> QED
  BY DEF Next, Owed, Ready, Resumed, Commits, Resolve, RequestFails, Select, ChatReplies, Dispatch,
         Stop, Start, Chunk, EmitToken, ChunksEnd, ProviderFails, RouteAnswers, EmptyReply,
         StoppedEmpty, Done, CommitFails, Join, JoinRefused, Disconnect, OthersTake,
         OthersLetGo

\* IInv holds in every reachable state.
THEOREM SpecInv == Spec => []IInv
<1>1. IInv /\ [Next]_vars => IInv'
  <2> SUFFICES ASSUME IInv, [Next]_vars PROVE IInv'
    OBVIOUS
  <2>1. TypeOK'
    BY TypeStep
  <2>2. CASE Commits
    BY <2>1, <2>2, CommitStep DEF IInv, Rest
  <2>3. CASE ~Commits
    <3>1. UNCHANGED conversations
      BY <2>3, NextConversations DEF vars
    <3> QED BY <2>1, <2>3, <3>1, QuietStep, SameConversations DEF IInv, Rest
  <2> QED BY <2>2, <2>3
<1> QED BY <1>1, InitInv, PTL DEF Spec

\* Every variable keeps its type, and exactly the stream that is between a chunk
\* and its commit holds the event loop.
THEOREM TypeCorrect == Spec => []TypeOK
<1>1. IInv => TypeOK
  BY DEF IInv
<1> QED BY <1>1, SpecInv, PTL

\* No message is without its conversation.
THEOREM MessagesHaveThreads == Spec => []NoOrphans
<1>1. IInv => NoOrphans
  BY DEF IInv, RowsHaveMessages, NoOrphans
<1> QED BY <1>1, SpecInv, PTL

\* Streams lose no update of message_count.
THEOREM CountsExact == Spec => []StreamsCountExactly
<1>1. IInv => StreamsCountExactly
  BY DEF IInv
<1> QED BY <1>1, SpecInv, PTL

----------------------------------------------------------------------------
(* What steps do not do.                                                    *)

\* A stop stands until its stream is over.
THEOREM StopsHold == Spec => StopHolds
<1>1. ASSUME IInv, [Next]_vars
      PROVE  [\A s \in Streams : pc[s] = "waiting" /\ pc'[s] = "emitting"
                                    => s \notin asked]_vars
  <2> SUFFICES ASSUME Next, NEW s \in Streams, pc[s] = "waiting", pc'[s] = "emitting"
               PROVE  s \notin asked
    BY <1>1
  <2> USE DEF Goto, Return, End, EndEmpty, AfterChunks, Requests
  <2>1. TypeOK /\ StopsStand
    BY <1>1 DEF IInv
  <2>2. ASSUME NEW q \in Streams, Chunk(q) PROVE s \notin flagged
    BY <2>1, <2>2 DEF Chunk, TypeOK
  <2>3. CASE \E q \in Streams : Chunk(q)
    BY <2>1, <2>2, <2>3 DEF StopsStand
  <2>4. ASSUME NEW r \in Requests,
               (\E t \in Threads : Resolve(r, t)) \/ RequestFails(r) \/ Select(r)
                   \/ CommitFails(r)
        PROVE  FALSE
    BY <2>1, <2>4 DEF Resolve, RequestFails, Select, CommitFails, TypeOK
  <2>5. ASSUME NEW c \in Chats, ChatReplies(c) \/ CommitChat(c) PROVE FALSE
    BY <2>1, <2>5 DEF ChatReplies, CommitChat, TypeOK
  <2>6. ASSUME NEW q \in Streams,
               \/ Dispatch(q) \/ Stop(q) \/ Start(q) \/ ChunksEnd(q) \/ ProviderFails(q)
               \/ EmitToken(q) \/ RouteAnswers(q)
        PROVE  FALSE
    BY <2>1, <2>6 DEF Dispatch, Stop, Start, ChunksEnd, ProviderFails, EmitToken,
                      RouteAnswers, TypeOK
  <2>7. ASSUME NEW q \in Streams,
               \/ EmptyReply(q) \/ StoppedEmpty(q) \/ CommitStopped(q) \/ CommitReply(q)
               \/ Done(q) \/ Join(q) \/ JoinRefused(q) \/ Disconnect(q)
        PROVE  FALSE
    BY <2>1, <2>7 DEF EmptyReply, StoppedEmpty, CommitStopped, CommitReply, Done, Join,
                      JoinRefused, Disconnect, TypeOK
  <2>8. ASSUME OthersTake \/ OthersLetGo PROVE FALSE
    BY <2>1, <2>8 DEF OthersTake, OthersLetGo
  <2> QED BY <2>3, <2>4, <2>5, <2>6, <2>7, <2>8 DEF Next, Owed, Ready, Resumed
<1> QED BY <1>1, SpecInv, PTL DEF Spec, StopHolds

\* What a client is told of request r, and what is stored of it.
Told(r) ==
    pc'[r] # pc[r] =>
        /\ pc'[r] = "done" => Has(stored'[thread[r]], r)
        /\ pc'[r] \in {"error", "failed"} => \A t \in Threads : ~Has(stored'[t], r)
        /\ pc'[r] = "stopped" => (Has(stored'[thread[r]], r) <=> parts[r] > 0)

\* An exchange is stored if and only if its client was told so, or is about to be.
THEOREM ClientsAreToldTheTruth == Spec => ToldWhatHappened
<1>1. ASSUME IInv, Next, NEW r \in Requests PROVE Told(r)
  <2> USE DEF Goto, Return, End, EndEmpty, AfterChunks, Requests, Told
  <2>1. TypeOK /\ Underway /\ TextIsThere /\ StoredOnce
    BY <1>1 DEF IInv
  <2>2. CASE Commits
    <3>1. PICK q \in Requests :
              /\ pc[q] = "selected" /\ Store(q)
              /\ \/ q \in Chats /\ pc' = [pc EXCEPT ![q] = "done"]
                 \/ q \in Streams /\ pc' = [pc EXCEPT ![q] = "stopped"]
                 \/ q \in Streams /\ pc' = [pc EXCEPT ![q] = "remembering"]
      <4>1. ASSUME NEW c \in Chats, CommitChat(c)
            PROVE  c \in Requests /\ pc[c] = "selected" /\ Store(c)
                   /\ pc' = [pc EXCEPT ![c] = "done"]
        BY <4>1 DEF CommitChat
      <4>2. ASSUME NEW s \in Streams, CommitStopped(s)
            PROVE  s \in Requests /\ pc[s] = "selected" /\ Store(s)
                   /\ pc' = [pc EXCEPT ![s] = "stopped"]
        BY <4>2 DEF CommitStopped
      <4>3. ASSUME NEW s \in Streams, CommitReply(s)
            PROVE  s \in Requests /\ pc[s] = "selected" /\ Store(s)
                   /\ pc' = [pc EXCEPT ![s] = "remembering"]
        BY <4>3 DEF CommitReply
      <4> HIDE DEF Requests
      <4> QED BY <2>2, <4>1, <4>2, <4>3, Zenon DEF Commits
    <3>2. PICK t \in Threads : t = thread[q]
      BY <2>1, <3>1 DEF Underway, Over
    <3>3. Has(stored'[t], q)
      BY <2>1, <3>1, <3>2, StoreAppends
    <3>4. q \in Streams => parts[q] > 0
      BY <2>1, <3>1 DEF TextIsThere
    <3> QED BY <2>1, <3>1, <3>2, <3>3, <3>4 DEF TypeOK
  <2>3. CASE ~Commits
    <3>1. stored' = stored
      BY <1>1, <2>3, NextConversations
    <3>2. ASSUME NEW q \in Requests,
                 (\E t \in Threads : Resolve(q, t)) \/ RequestFails(q) \/ Select(q)
          PROVE  Told(r)
      BY <2>1, <3>1, <3>2 DEF Resolve, RequestFails, Select, TypeOK, StoredOnce
    <3>3. ASSUME NEW q \in Requests, CommitFails(q) PROVE Told(r)
      BY <2>1, <3>1, <3>3, ZenonT(60) DEF CommitFails, TypeOK, StoredOnce
    <3>4. ASSUME NEW c \in Chats, ChatReplies(c) PROVE Told(r)
      BY <2>1, <3>4 DEF ChatReplies, TypeOK
    <3>5. ASSUME NEW s \in Streams,
                 \/ Dispatch(s) \/ Stop(s) \/ Start(s) \/ ChunksEnd(s) \/ ProviderFails(s)
                 \/ EmitToken(s) \/ RouteAnswers(s) \/ Join(s) \/ JoinRefused(s) \/ Disconnect(s)
          PROVE  Told(r)
      BY <2>1, <3>5 DEF Dispatch, Stop, Start, ChunksEnd, ProviderFails, EmitToken,
                        RouteAnswers, Join, JoinRefused, Disconnect, TypeOK
    <3>6. ASSUME NEW s \in Streams, Chunk(s) PROVE Told(r)
      BY <2>1, <3>6 DEF Chunk, TypeOK
    <3>7. ASSUME NEW s \in Streams, EmptyReply(s) PROVE Told(r)
      BY <2>1, <3>1, <3>7 DEF EmptyReply, TypeOK, StoredOnce
    <3>8. ASSUME NEW s \in Streams, StoppedEmpty(s) PROVE Told(r)
      <4>1. ~Has(stored[thread[s]], s) /\ parts[s] = 0
        BY <2>1, <3>8 DEF StoppedEmpty, StoredOnce, TextIsThere, Underway, Over
      <4> QED BY <2>1, <3>1, <3>8, <4>1 DEF StoppedEmpty, TypeOK
    <3>9. ASSUME NEW s \in Streams, Done(s) PROVE Told(r)
      BY <2>1, <3>1, <3>9 DEF Done, TypeOK, StoredOnce
    <3>10. ASSUME OthersTake \/ OthersLetGo PROVE Told(r)
      BY <3>10 DEF OthersTake, OthersLetGo
    <3> HIDE DEF Told
    <3> QED BY <1>1, <2>3, <3>2, <3>3, <3>4, <3>5, <3>6, <3>7, <3>8, <3>9, <3>10
            DEF Next, Owed, Ready, Resumed, Commits
  <2> QED BY <2>2, <2>3
<1>2. ASSUME IInv, Next, NEW s \in Streams, pc'[s] # pc[s], pc'[s] \in {"done", "stopped"}
      PROVE  shown[s] \in {parts[s], Gap}
  <2>1. pc[s] # "emitting"
    <3> SUFFICES ASSUME pc[s] = "emitting" PROVE FALSE
      OBVIOUS
    <3> USE DEF Goto, Return, End, EndEmpty, AfterChunks, Requests
    <3>0. TypeOK
      BY <1>2 DEF IInv
    <3>1. ASSUME NEW r \in Requests,
                 (\E t \in Threads : Resolve(r, t)) \/ RequestFails(r) \/ Select(r)
                     \/ CommitFails(r)
          PROVE  FALSE
      BY <1>2, <3>0, <3>1 DEF Resolve, RequestFails, Select, CommitFails, TypeOK
    <3>2. ASSUME NEW c \in Chats, ChatReplies(c) \/ CommitChat(c) PROVE FALSE
      BY <1>2, <3>0, <3>2 DEF ChatReplies, CommitChat, TypeOK
    <3>3. ASSUME NEW q \in Streams,
                 \/ Dispatch(q) \/ Stop(q) \/ Start(q) \/ Chunk(q) \/ ChunksEnd(q)
                 \/ ProviderFails(q) \/ EmitToken(q) \/ RouteAnswers(q)
          PROVE  FALSE
      BY <1>2, <3>0, <3>3 DEF Dispatch, Stop, Start, Chunk, ChunksEnd, ProviderFails,
                              EmitToken, RouteAnswers, TypeOK
    <3>4. ASSUME NEW q \in Streams,
                 \/ EmptyReply(q) \/ StoppedEmpty(q) \/ CommitStopped(q)
                 \/ CommitReply(q) \/ Done(q) \/ Join(q) \/ JoinRefused(q) \/ Disconnect(q)
          PROVE  FALSE
      BY <1>2, <3>0, <3>4 DEF EmptyReply, StoppedEmpty, CommitStopped, CommitReply, Done,
                              Join, JoinRefused, Disconnect, TypeOK
    <3>5. ASSUME OthersTake \/ OthersLetGo PROVE FALSE
      BY <1>2, <3>5 DEF OthersTake, OthersLetGo
    <3> QED BY <1>2, <3>1, <3>2, <3>3, <3>4, <3>5 DEF Next, Owed, Ready, Resumed
  <2> QED BY <1>2, <2>1 DEF IInv, ShownIsSent
<1>3. IInv /\ [Next]_vars =>
        [/\ \A r \in Requests :
               pc'[r] # pc[r] =>
                   /\ pc'[r] = "done" => Has(stored'[thread[r]], r)
                   /\ pc'[r] \in {"error", "failed"}
                          => \A t \in Threads : ~Has(stored'[t], r)
                   /\ pc'[r] = "stopped" => (Has(stored'[thread[r]], r) <=> parts[r] > 0)
         /\ \A s \in Streams : pc'[s] # pc[s] /\ pc'[s] \in {"done", "stopped"}
                               => shown[s] \in {parts[s], Gap}]_vars
  BY <1>1, <1>2 DEF Told
<1> QED BY <1>3, SpecInv, PTL DEF Spec, ToldWhatHappened
=============================================================================
