------------------------------ MODULE ChatTurns ------------------------------
(***************************************************************************)
(* The turns of conversations: what app.py does with a message between the *)
(* request and the reply, on every path.  chat() asks the semantic cache;  *)
(* a turn that generates reads the conversation's history and has it       *)
(* compressed; its reply is written to the conversation and then to the    *)
(* cache.  Turns run in threads of their own and overlap, also within one  *)
(* conversation.                                                           *)
(***************************************************************************)
EXTENDS ContextCompressor, SemanticCache, UsageLog

CONSTANTS
    Turns,
    Threads,
    Owner,           \* Owner[t]: the user of conversation t
    Earlier,         \* Earlier[t]: how many turns conversation t has had before
    Silent,          \* Silent[t]: the places of the messages of these without text
    Blank,           \* questions without text: what sanitize_prompt leaves may be empty
    PageLimit        \* messages of the history that are read: 200

ASSUME TurnsAssumption ==
    /\ Owner \in [Threads -> Users]
    /\ PageLimit \in Nat
    /\ Earlier \in [Threads -> Nat]
    /\ Replies = Turns /\ Accounts = Users
    /\ Blank \subseteq Questions

VARIABLES
    messages,        \* messages[t]: the rows of conversation t, by created_at
    request,         \* request[r]: what turn r was asked
    pc,              \* pc[r]: where turn r is
    context,         \* context[r]: what its model is sent
    reply,           \* reply[r]: the turn whose generation r answers with, or NoReply
    blank,           \* turns whose reply has no text: only some paths check it
    stopped,         \* history: streams that were stopped
    loadedAt         \* history: loadedAt[r]: messages of the conversation when r read it

vars == <<messages, request, pc, context, reply, blank, stopped, loadedAt, points, usage>>

\* The paths of a turn: chat() without and with a file, chat_stream(); the agent of
\* chat() and chat_rag(), which use neither history nor cache.
Kinds == {"chat", "file", "stream", "agent", "rag"}
WithHistory == {"chat", "file", "stream"}
NoRequest == [kind |-> "none"]
Asked == {a \in [kind : Kinds, thread : Threads, question : Questions] :
             a.kind = "file" => a.question \notin Blank}

User(r) == Owner[request[r].thread]

\* A row; a reply is named by the turn that generated it, of an earlier turn by no name.
Rows == [role : {"user", "assistant"}, of : Turns \cup {NoReply}, blank : BOOLEAN]

\* The two messages of a turn.
Exchange(r, answer) ==
    << [role |-> "user", of |-> r, blank |-> request[r].question \in Blank],
       [role |-> "assistant", of |-> answer, blank |-> answer \in blank] >>

\* Conversations in which some turns are over.
Init ==
    /\ messages = [t \in Threads |->
                      [i \in 1 .. 2 * Earlier[t] |->
                          [role |-> IF i % 2 = 1 THEN "user" ELSE "assistant",
                           of |-> NoReply, blank |-> i \in Silent[t]]]]
    /\ request = [r \in Turns |-> NoRequest]
    /\ pc = [r \in Turns |-> "idle"]
    /\ context = [r \in Turns |-> Empty]
    /\ reply = [r \in Turns |-> NoReply]
    /\ blank = {}
    /\ stopped = {}
    /\ loadedAt = [r \in Turns |-> 0]
    /\ points = NoPoints
    /\ InitUsage

Goto(r, place) == pc' = [pc EXCEPT ![r] = place]

\* An error answer: nothing is written.
Fail(r) ==
    /\ Goto(r, "failed")
    /\ context' = [context EXCEPT ![r] = Empty]
    /\ reply' = [reply EXCEPT ![r] = NoReply]
    /\ loadedAt' = [loadedAt EXCEPT ![r] = 0]
    /\ UNCHANGED <<messages, request, blank, stopped, points>>

----------------------------------------------------------------------------
(* A request begins: its message is valid and safe, and its conversation is *)
(* new or the user's own.                                                   *)

Begin(r, kind, place) ==
    /\ pc[r] = "idle"
    /\ \E a \in {b \in Asked : b.kind = kind} : request' = [request EXCEPT ![r] = a]
    /\ Goto(r, place)
    /\ UNCHANGED <<messages, context, reply, loadedAt, blank, stopped, points>>

Chat(r) == Begin(r, "chat", "lookup") /\ UNCHANGED usage
ChatWithFile(r) == Begin(r, "file", "load") /\ UNCHANGED usage
ChatStream(r) == Begin(r, "stream", "load") /\ UNCHANGED usage
ChatRag(r) == Begin(r, "rag", "generate") /\ UNCHANGED usage

\* The run logs itself as it ends, whether or not it is still waited for.
ChatAgent(r) == Begin(r, "agent", "generate") /\ Track({<<r, "run">>})

----------------------------------------------------------------------------
(* What replies.                                                            *)

\* cache.get(); a failure is a miss.
Hit(r) ==
    /\ pc[r] = "lookup" /\ request[r].question \notin Blank
    /\ \E vector \in Vectors : \E found \in Found(User(r), request[r].question, vector) :
           reply' = [reply EXCEPT ![r] = found]
    /\ Goto(r, "commit")
    /\ UNCHANGED <<messages, request, context, loadedAt, blank, stopped, points, usage>>

Miss(r) ==
    /\ pc[r] = "lookup"
    /\ Goto(r, "load")
    /\ UNCHANGED <<messages, request, context, reply, loadedAt, blank, stopped, points, usage>>

\* order_by(created_at.asc()).limit(200)
FirstPage(past) == SubSeq(past, 1, IF Len(past) < PageLimit THEN Len(past) ELSE PageLimit)

Page(t) == FirstPage(messages[t])

\* The history is read and compressed.
Load(r) ==
    /\ pc[r] = "load"
    /\ \E note \in Notes :
           context' = [context EXCEPT ![r] = Compress(Page(request[r].thread), note)]
    /\ loadedAt' = [loadedAt EXCEPT ![r] = Len(messages[request[r].thread])]
    /\ Goto(r, "generate")
    /\ UNCHANGED <<messages, request, reply, blank, stopped, points, usage>>

\* What the router tracks of a turn, whether or not its reply is still waited for; with
\* a file or grounded in a search the model is called at once, a stream comes to the
\* router when it falls back.
Routed(r) ==
    \/ request[r].kind \in {"chat", "stream", "agent"} /\ Track({<<r, "router">>})
    \/ UNCHANGED usage

\* A summary that takes longer than run_async waits ends the turn; so does a spent
\* budget, and a model that fails or takes too long.
CompressionTimesOut(r) ==
    pc[r] = "load" /\ IsLong(Said(Page(request[r].thread))) /\ Fail(r) /\ UNCHANGED usage
GenerationFails(r) == pc[r] = "generate" /\ Fail(r) /\ Routed(r)

\* chat() takes the router's reply as it is; a stream's, an agent's, that of RAG and of a
\* direct call have text.
MayBeBlank(r) == blank' \in {blank, blank \cup {r}}

\* The model answers.
Generate(r) ==
    /\ pc[r] = "generate" /\ request[r].kind \in WithHistory
    /\ reply' = [reply EXCEPT ![r] = r]
    /\ context' = [context EXCEPT ![r] = Empty]
    /\ loadedAt' = [loadedAt EXCEPT ![r] = 0]
    /\ Goto(r, "commit")
    /\ Routed(r)
    /\ IF request[r].kind = "chat" THEN MayBeBlank(r) ELSE UNCHANGED blank
    /\ UNCHANGED <<messages, request, stopped, points>>

\* An agent or the RAG system answers.
Answer(r) ==
    /\ pc[r] = "generate" /\ request[r].kind \in {"agent", "rag"}
    /\ reply' = [reply EXCEPT ![r] = r]
    /\ Goto(r, "commit")
    /\ Routed(r)
    /\ UNCHANGED <<messages, request, context, blank, stopped, loadedAt, points>>

\* A stream is stopped by its user after some of its tokens.
StopStream(r) ==
    /\ pc[r] = "generate" /\ request[r].kind = "stream"
    /\ reply' = [reply EXCEPT ![r] = r]
    /\ context' = [context EXCEPT ![r] = Empty]
    /\ loadedAt' = [loadedAt EXCEPT ![r] = 0]
    /\ Goto(r, "commitPart")
    /\ stopped' = stopped \cup {r}
    /\ UNCHANGED <<messages, request, blank, points, usage>>

\* A reply that was generated, unless by RAG or an agent.
Caches(r) == request[r].kind \in WithHistory /\ reply[r] = r

\* Mutation: a part of a reply is remembered as any reply is.
AfterCommitOfAny(r) == IF Caches(r) THEN "cache" ELSE "done"

AfterCommit(r) ==
    IF pc[r] = "commitPart" THEN "stopped"
    ELSE IF Caches(r) THEN "cache" ELSE "done"

\* The two messages in one transaction; chat_rag() then tracks the reply.
Commit(r) ==
    /\ pc[r] \in {"commit", "commitPart"}
    /\ messages' = [messages EXCEPT ![request[r].thread] =
                        @ \o Exchange(r, reply[r])]
    /\ Goto(r, AfterCommit(r))
    /\ UNCHANGED <<request, context, reply, loadedAt, blank, stopped, points>>
    /\ IF request[r].kind = "rag" THEN Track({<<r, "handler">>}) ELSE UNCHANGED usage

\* The transaction is rolled back: the reply is lost.
CommitFails(r) == pc[r] \in {"commit", "commitPart"} /\ Fail(r) /\ UNCHANGED usage

\* cache.set(); a failure is logged, and what is empty is not stored (a reply of blanks
\* is).  chat() then tracks the reply, chat_stream() does not.
Remember(r) ==
    /\ pc[r] = "cache"
    /\ \/ request[r].question \notin Blank /\ Put(User(r), request[r].question, reply[r])
       \/ UNCHANGED points
    /\ Goto(r, "done")
    /\ IF request[r].kind = "stream" THEN UNCHANGED usage ELSE Track({<<r, "handler">>})
    /\ UNCHANGED <<messages, request, context, reply, blank, stopped, loadedAt>>

turns == <<messages, request, pc, context, reply, blank, stopped, loadedAt, points>>

\* The threads that write the log, and the periodic tasks.
WriteLog(w) ==
    /\ request[w[1]] # NoRequest
    /\ LET u == User(w[1])
       IN  ReadCounters(w, u) \/ CommitUsage(w, u) \/ CommitRun(w, u)
    /\ UNCHANGED turns

EndOfMonth == ResetMonth /\ UNCHANGED turns
CleanUp == DeleteOldRows /\ UNCHANGED turns

Next ==
    \/ \E r \in Turns :
           \/ Chat(r) \/ ChatWithFile(r) \/ ChatStream(r) \/ ChatAgent(r) \/ ChatRag(r)
           \/ Hit(r) \/ Miss(r) \/ Load(r) \/ CompressionTimesOut(r)
           \/ Generate(r) \/ GenerationFails(r) \/ Answer(r) \/ StopStream(r)
           \/ Commit(r) \/ CommitFails(r) \/ Remember(r)
    \/ \E w \in Writers : WriteLog(w)
    \/ EndOfMonth \/ CleanUp

Spec == Init /\ [][Next]_vars
----------------------------------------------------------------------------
\* The type of the state.
TypeOK ==
    /\ messages \in [Threads -> Seq(Rows)]
    /\ request \in [Turns -> Asked \cup {NoRequest}]
    /\ pc \in [Turns -> {"idle", "lookup", "load", "generate", "commit",
                        "commitPart", "cache", "done", "stopped", "failed"}]
    /\ \A r \in Turns : pc[r] = "idle" <=> request[r] = NoRequest
    /\ context = [r \in Turns |-> context[r]]
    /\ \A r \in Turns : /\ context[r].note \in Notes \cup {"none"}
                       /\ context[r].folded \in Nat
                       /\ DOMAIN context[r].verbatim \subseteq Nat \ {0}
    /\ reply \in [Turns -> Turns \cup {NoReply}]
    /\ blank \subseteq Turns
    /\ stopped \subseteq Turns
    /\ loadedAt \in [Turns -> Nat]
    /\ points \in [Users -> [Questions -> Turns \cup {NoReply}]]

Prompting(r) == pc[r] = "generate" /\ request[r].kind \in WithHistory

\* The conversation as r's transaction read it: rows are only ever added to it.
History(r) == SubSeq(messages[request[r].thread], 1, loadedAt[r])

\* Of the messages of `past' that say anything, at least the last of them are sent as they
\* are: RecentVerbatimCount, or all.
RecentSent(past, verbatim) ==
    LET said == Said(past)
        sent == DOMAIN verbatim
    IN  /\ sent \subseteq said /\ \A i \in sent : verbatim[i] = past[i]
        /\ \A i \in said \ sent, j \in sent : i < j
        /\ Cardinality(sent) >= RecentVerbatimCount \/ sent = said

\* "Keep this many of the most recent messages verbatim, always."
MostRecentVerbatim ==
    \A r \in Turns : Prompting(r) => RecentSent(History(r), context[r].verbatim)

\* So it is while the conversation fits one page, whichever turns are written meanwhile;
\* nothing older that says anything is dropped unnoticed, and what is sent is bounded.
ContextSound ==
    \A r \in Turns : Prompting(r) =>
        LET c == context[r]
            sent == Cardinality(DOMAIN c.verbatim)
        IN  /\ sent <= CompressionThreshold
            /\ loadedAt[r] <= PageLimit =>
                   /\ RecentSent(History(r), c.verbatim)
                   /\ c.folded + sent = Cardinality(Said(History(r)))
                   /\ c.folded > 0 <=> c.note # "none"

\* Compression does not cut a turn in two, unless some message says nothing: a question
\* that is sent is followed by its reply, if that has text, and a reply that is sent
\* follows its question, if that has text or nothing after it lacks it.  So as long as
\* everybody says something, what is sent starts with a question and alternates.  (The
\* two rows of a turn are stamped one right after the other, in one flush.)
ContextAlternates ==
    \A r \in Turns : Prompting(r) =>
        LET sent == DOMAIN context[r].verbatim
            past == FirstPage(History(r))
        IN  \A i \in sent :
                IF past[i].role = "user"
                THEN /\ past[i + 1].role = "assistant"
                     /\ i + 1 \in sent \/ past[i + 1].blank
                ELSE /\ past[i - 1].role = "user"
                     /\ i - 1 \in sent \/ \E k \in i - 1 .. Len(past) : past[k].blank

\* A reply out of the cache was given to the same user, for a question like this one,
\* by a turn that read the history or a file and was not cut short.
CachedAnswersOwn ==
    \A r \in Turns : reply[r] \notin {NoReply, r} =>
        LET source == reply[r]
        IN  /\ User(source) = User(r)
            /\ <<request[r].question, request[source].question>> \in Alike
            /\ source \notin stopped /\ request[source].kind \in WithHistory

\* The cache holds whole replies only, and none that its conversation has not.
CachedIsStored ==
    \A n \in Users, q \in Questions : points[n][q] # NoReply =>
        LET source == points[n][q]
        IN  /\ source \notin stopped
            /\ \E i \in DOMAIN messages[request[source].thread] :
                   LET row == messages[request[source].thread][i]
                   IN  row.role = "assistant" /\ row.of = source
=============================================================================
