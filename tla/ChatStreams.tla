----------------------------- MODULE ChatStreams -----------------------------
(***************************************************************************)
(* One user's chat requests of app.py: chat_stream(), which answers at     *)
(* once and streams from a coroutine of the process's event loop, chat()   *)
(* and chat_rag(), which answer from their request thread, the registry of *)
(* stopped streams, the browser that joins a stream's room, and the rows   *)
(* of the conversations they write.                                        *)
(*                                                                         *)
(* One process serves all of it (gunicorn -w 1).  A coroutine that iterates*)
(* over the chunks of a provider's response does not await: it holds the   *)
(* event loop from its first chunk until its transaction is committed.     *)
(* Others hold it too, for as long as they like: agents' tools, and chats   *)
(* that call their provider without an await.  Request threads run beside. *)
(***************************************************************************)
EXTENDS Integers, Sequences

CONSTANTS
    Streams,         \* calls of chat_stream
    Chats,           \* calls of chat and chat_rag
    Threads,         \* ids of conversations, minted by the server or sent by a client
    MaxTokens,       \* MaxTokens[s]: bound on the chunks of the response to s
    NoStream,
    Others,          \* the loop's coroutines that are no streams
    NoThread

ASSUME RequestsAssumption ==
    /\ Streams \cap Chats = {}
    /\ NoStream \notin Streams /\ Others \notin Streams \cup {NoStream}
    /\ NoThread \notin Threads

ASSUME TokensAssumption == MaxTokens \in [Streams -> Nat]

VARIABLES
    rows,            \* the conversations whose Thread row exists
    stored,          \* stored[t]: requests whose two messages are in t, by created_at
    count,           \* count[t]: Thread.message_count
    pc,              \* pc[r]: where request r is
    thread, isNew,   \* thread[r], isNew[r]: its locals thread_id and is_new
    read,            \* read[r]: the message_count its transaction read
    uncounted,       \* the requests whose transaction leaves message_count alone
    parts,           \* parts[s]: length of full_text_parts
    rerouted,        \* streams whose provider failed: route()'s answer is their last chunk
    wasStopped,      \* streams that saw their flag
    flagged,         \* _stopped_streams
    loop,            \* the stream that holds the event loop, Others or NoStream
    room,            \* streams whose room their client is in, until they end
    ui,              \* ui[s]: the client's page is free, posting, busy with s in its room,
                     \* or lost to the events of s, which it waits for
    shown,           \* shown[s]: tokens the page received, or Gap if it missed one
    asked            \* history: running streams a stop was requested for

conversations == <<rows, stored, count>>
locals == <<thread, isNew, read, uncounted>>
coroutine == <<parts, rerouted, wasStopped>>
client == <<room, ui, shown, asked>>
vars == <<conversations, pc, locals, coroutine, flagged, loop, client>>

Requests == Streams \cup Chats

Gap == -1

\* chat_stream() has answered: the coroutine is scheduled and the id is known.
Dispatched(s) == pc[s] \notin {"idle", "resolved", "failed"}

\* The coroutine is over.
Ended(s) == pc[s] \in {"done", "stopped", "error"}

----------------------------------------------------------------------------
Init ==
    /\ rows = {}
    /\ stored = [t \in Threads |-> <<>>]
    /\ count = [t \in Threads |-> 0]
    /\ pc = [r \in Requests |-> "idle"]
    /\ thread = [r \in Requests |-> NoThread]
    /\ isNew = [r \in Requests |-> FALSE]
    /\ read = [r \in Requests |-> 0]
    /\ uncounted = {}
    /\ parts = [s \in Streams |-> 0]
    /\ rerouted = {} /\ wasStopped = {}
    /\ flagged = {}
    /\ loop = NoStream
    /\ room = {}
    /\ ui = [s \in Streams |-> "free"]
    /\ shown = [s \in Streams |-> 0]
    /\ asked = {}

Goto(r, p) == pc' = [pc EXCEPT ![r] = p]

\* r answers, or its coroutine ends: its locals die.
Return(r, how) ==
    /\ Goto(r, how)
    /\ thread' = [thread EXCEPT ![r] = NoThread]
    /\ isNew' = [isNew EXCEPT ![r] = FALSE]
    /\ read' = [read EXCEPT ![r] = 0]
    /\ uncounted' = uncounted \ {r}

----------------------------------------------------------------------------
(* Request threads.                                                         *)

\* Mutation: an id sent by the client is taken for an existing conversation.
KnownToExist(t) == FALSE

\* thread_id is missing, so a fresh one is minted, or no row has it.
Unknown(t) == t \notin rows

Resolve(r, t) ==
    /\ pc[r] = "idle"
    /\ Goto(r, "resolved")
    /\ thread' = [thread EXCEPT ![r] = t]
    /\ isNew' = [isNew EXCEPT ![r] = Unknown(t)]
    /\ ui' = IF r \in Streams THEN [ui EXCEPT ![r] = "posting"] ELSE ui
    /\ UNCHANGED <<conversations, read, uncounted, coroutine, flagged, loop, room, shown,
                   asked>>

\* Before a stream is dispatched or a reply is there: the budget is spent,
\* run_async timed out on a busy loop, or no provider answered.
RequestFails(r) ==
    /\ pc[r] = "resolved"
    /\ Return(r, "failed")
    /\ ui' = IF r \in Streams THEN [ui EXCEPT ![r] = "free"] ELSE ui
    /\ UNCHANGED <<conversations, coroutine, flagged, loop, room,
                   shown, asked>>

\* compress_history ran on the loop; register_stream, fire_and_forget, 200.
Dispatch(s) ==
    /\ pc[s] = "resolved"
    /\ loop = NoStream
    /\ flagged' = flagged \ {s}
    /\ Goto(s, "scheduled")
    /\ UNCHANGED <<conversations, locals, coroutine, loop, client>>

\* A reply of the router, of the RAG system, or of the semantic cache, whose branch
\* does not count its messages.
ChatReplies(c) ==
    /\ pc[c] = "resolved"
    /\ uncounted' \in {uncounted, uncounted \cup {c}}
    /\ Goto(c, "storing")
    /\ UNCHANGED <<conversations, thread, isNew, read, coroutine, flagged, loop, client>>

\* chat_stream_stop, at any time once the client knows the id.  The flag of a stream
\* that is over stays, and nobody reads it: left out.
Stop(s) ==
    /\ Dispatched(s) /\ ~Ended(s)
    /\ flagged' = flagged \cup {s}
    /\ asked' = asked \cup {s}
    /\ UNCHANGED <<conversations, pc, locals, coroutine, loop, room, ui, shown>>

----------------------------------------------------------------------------
(* The coroutine _do_stream, on the event loop.                             *)

\* Mutation: register_stream moves into the coroutine, after a stop may have come.
StartRegisters(s) == flagged' = flagged \ {s}

StartKeepsFlag(s) == UNCHANGED flagged

\* generate_content returned in its executor thread; the coroutine goes on.
Start(s) ==
    /\ pc[s] = "scheduled"
    /\ loop = NoStream
    /\ loop' = s
    /\ StartKeepsFlag(s)
    /\ Goto(s, "waiting")
    /\ UNCHANGED <<conversations, locals, coroutine, client>>

\* Mutation: the token is appended before the flag is looked at.
PartsAppendedFirst(s) == parts[s] + 1

PartsAfter(s) == IF s \in flagged THEN parts[s] ELSE parts[s] + 1

\* A chunk arrives: look at the flag, then append.
Chunk(s) ==
    /\ pc[s] = "waiting"
    /\ parts[s] < MaxTokens[s]
    /\ parts' = [parts EXCEPT ![s] = PartsAfter(s)]
    /\ IF s \in flagged
       THEN /\ wasStopped' = wasStopped \cup {s}
            /\ Goto(s, IF parts'[s] = 0 THEN "stopping" ELSE "storing")
       ELSE /\ Goto(s, "emitting")
            /\ UNCHANGED wasStopped
    /\ UNCHANGED <<conversations, locals, rerouted, flagged, loop, client>>

\* Where the chunk loop leads when there are no more chunks.
AfterChunks(s) == IF parts[s] = 0 THEN "empty" ELSE "storing"

\* emit("chat_token", room=stream_id).
EmitToken(s) ==
    /\ pc[s] = "emitting"
    /\ shown' = [shown EXCEPT ![s] = IF s \in room /\ @ # Gap THEN @ + 1 ELSE Gap]
    /\ Goto(s, IF s \in rerouted THEN AfterChunks(s) ELSE "waiting")
    /\ UNCHANGED <<conversations, locals, coroutine, flagged, loop, room, ui, asked>>

\* Mutation: an await between the last chunk and the transaction.
LoopAwaited(s) == NoStream

LoopKept(s) == s

ChunksEnd(s) ==
    /\ pc[s] = "waiting" /\ s \notin rerouted
    /\ Goto(s, AfterChunks(s))
    /\ loop' = LoopKept(s)
    /\ UNCHANGED <<conversations, locals, coroutine, flagged, client>>

\* The provider raises, before or after its first chunk: stream() awaits
\* route(), and the text it got so far stays in front of the new answer.
ProviderFails(s) ==
    /\ \/ pc[s] = "scheduled" /\ loop = NoStream
       \/ pc[s] = "waiting" /\ s \notin rerouted
    /\ parts[s] < MaxTokens[s]
    /\ rerouted' = rerouted \cup {s}
    /\ loop' = NoStream
    /\ Goto(s, "routing")
    /\ UNCHANGED <<conversations, locals, parts, wasStopped, flagged, client>>

\* route() answers, with an apology when every provider failed.
RouteAnswers(s) ==
    /\ pc[s] = "routing"
    /\ loop = NoStream
    /\ loop' = s
    /\ Goto(s, "waiting")
    /\ UNCHANGED <<conversations, locals, coroutine, flagged, client>>

\* What dies with the coroutine, and the history told by it.
Forget(s) ==
    /\ parts' = [parts EXCEPT ![s] = 0]
    /\ rerouted' = rerouted \ {s} /\ wasStopped' = wasStopped \ {s}
    /\ shown' = [shown EXCEPT ![s] = 0]
    /\ asked' = asked \ {s}
    /\ room' = room \ {s}

\* The last event to the room, and unregister_stream in the finally clause.
End(s, event) ==
    /\ Return(s, event)
    /\ ui' = IF s \in room THEN [ui EXCEPT ![s] = "free"] ELSE ui
    /\ flagged' = flagged \ {s}
    /\ loop' = NoStream
    /\ Forget(s)

\* Mutation: the branch returns without an event.
EndSilently(s) ==
    /\ Return(s, "error")
    /\ flagged' = flagged \ {s}
    /\ loop' = NoStream
    /\ Forget(s)
    /\ UNCHANGED ui

EndEmpty(s) == End(s, "error")

EmptyReply(s) ==
    /\ pc[s] = "empty"
    /\ EndEmpty(s)
    /\ UNCHANGED conversations

StoppedEmpty(s) ==
    /\ pc[s] = "stopping"
    /\ End(s, "stopped")
    /\ UNCHANGED conversations

----------------------------------------------------------------------------
(* The transaction that stores an exchange, in a coroutine or a request     *)
(* thread.  The session does not autoflush: nothing is written before the   *)
(* commit, and the SELECT does not see a Thread the session is to insert.   *)

Select(r) ==
    /\ pc[r] = "storing"
    /\ read' = [read EXCEPT ![r] = count[thread[r]]]
    /\ Goto(r, "selected")
    /\ UNCHANGED <<conversations, thread, isNew, uncounted, coroutine, flagged, loop, client>>

\* The id of a conversation that is new to r was inserted by another request.
Collides(r) == isNew[r] /\ thread[r] \in rows

\* message_count = what was read + 2, on a row that the SELECT found.
CountAfter(r) ==
    IF isNew[r] \/ r \in uncounted THEN count[thread[r]] ELSE read[r] + 2

\* INSERT the Thread, if it is new, and two Messages; UPDATE the Thread.
Store(r) ==
    LET t == thread[r]
    IN  /\ rows' = IF isNew[r] THEN rows \cup {t} ELSE rows
        /\ stored' = [stored EXCEPT ![t] = Append(@, r)]
        /\ count' = [count EXCEPT ![t] = CountAfter(r)]

CommitChat(c) ==
    /\ pc[c] = "selected" /\ c \in Chats
    /\ ~Collides(c)
    /\ Store(c)
    /\ Return(c, "done")
    /\ UNCHANGED <<coroutine, flagged, loop, client>>

\* A stream that was stopped says so at once.
CommitStopped(s) ==
    /\ pc[s] = "selected" /\ s \in wasStopped
    /\ ~Collides(s)
    /\ Store(s)
    /\ End(s, "stopped")

\* The others await the long term memory first.
CommitReply(s) ==
    /\ pc[s] = "selected" /\ s \in Streams \ wasStopped
    /\ ~Collides(s)
    /\ Store(s)
    /\ Goto(s, "remembering")
    /\ loop' = NoStream
    /\ UNCHANGED <<locals, coroutine, flagged, client>>

Done(s) ==
    /\ pc[s] = "remembering"
    /\ loop = NoStream
    /\ End(s, "done")
    /\ UNCHANGED conversations

\* The id collides, or the database fails: rolled back.
CommitFails(r) ==
    /\ pc[r] = "selected"
    /\ IF r \in Streams
       THEN End(r, "error")
       ELSE Return(r, "failed") /\ UNCHANGED <<coroutine, flagged, loop, client>>
    /\ UNCHANGED conversations

----------------------------------------------------------------------------
(* The browser.                                                             *)

\* It got the id, and its "join" reached the server and was let in, perhaps when the
\* last event was gone.
Join(s) ==
    /\ Dispatched(s)
    /\ ui[s] = "posting"
    /\ ui' = [ui EXCEPT ![s] = IF Ended(s) THEN "lost" ELSE "busy"]
    /\ room' = IF Ended(s) THEN room ELSE room \cup {s}
    /\ UNCHANGED <<conversations, pc, locals, coroutine, flagged, loop, shown,
                   asked>>

\* The page's "join" carries no token: without a session that knows the user the server
\* answers with an error, and the page, which does not listen to it, waits.
JoinRefused(s) ==
    /\ Dispatched(s)
    /\ ui[s] = "posting"
    /\ ui' = [ui EXCEPT ![s] = "lost"]
    /\ UNCHANGED <<conversations, pc, locals, coroutine, flagged, loop, room, shown, asked>>

\* The socket is lost, and with it the room; the page does not join it again.
Disconnect(s) ==
    /\ s \in room
    /\ room' = room \ {s}
    /\ ui' = [ui EXCEPT ![s] = "lost"]
    /\ UNCHANGED <<conversations, pc, locals, coroutine, flagged, loop, shown,
                   asked>>

----------------------------------------------------------------------------
\* A coroutine that is no stream holds the event loop.
OthersTake ==
    /\ loop = NoStream
    /\ loop' = Others
    /\ UNCHANGED <<conversations, pc, locals, coroutine, flagged, client>>

OthersLetGo ==
    /\ loop = Others
    /\ loop' = NoStream
    /\ UNCHANGED <<conversations, pc, locals, coroutine, flagged, client>>

\* What waits for the provider, which the code sets no time limit.
Owed(s) == Start(s) \/ (s \notin rerouted /\ Chunk(s)) \/ ChunksEnd(s) \/ ProviderFails(s)

\* What a stream goes on with when the loop turns to it: route() has time limits.
Resumed(s) == RouteAnswers(s) \/ Done(s)

\* What a stream that holds the loop does without its provider.
Ready(s) ==
    \/ s \in rerouted /\ Chunk(s)
    \/ EmitToken(s) \/ EmptyReply(s) \/ StoppedEmpty(s)
    \/ CommitStopped(s) \/ CommitReply(s)

Next ==
    \/ \E r \in Requests :
        \/ \E t \in Threads : Resolve(r, t)
        \/ RequestFails(r)
        \/ Select(r) \/ CommitFails(r)
    \/ \E c \in Chats : ChatReplies(c) \/ CommitChat(c)
    \/ \E s \in Streams :
        \/ Dispatch(s) \/ Stop(s) \/ Owed(s) \/ Ready(s) \/ Resumed(s)
        \/ Join(s) \/ JoinRefused(s) \/ Disconnect(s)
    \/ OthersTake \/ OthersLetGo

Spec == Init /\ [][Next]_vars

\* The event loop serves what is ready in turn, and transactions end.  Nothing obliges a
\* provider to answer, nor the others to let go of the loop.
FairSpec ==
    /\ Spec
    /\ \A s \in Streams :
           WF_vars(Ready(s) \/ Select(s) \/ CommitFails(s)) /\ SF_vars(Resumed(s))

----------------------------------------------------------------------------
(* Properties.                                                              *)

\* s is between a chunk and its commit.
Runs(s) == pc[s] \in {"waiting", "emitting", "empty", "stopping", "storing", "selected"}

TypeOK ==
    /\ rows \subseteq Threads
    /\ stored \in [Threads -> Seq(Requests)]
    /\ count \in [Threads -> Nat]
    /\ pc \in [Requests -> {"idle", "resolved", "failed", "scheduled", "waiting",
                            "emitting", "routing", "empty", "stopping", "storing",
                            "selected", "remembering", "done", "stopped", "error"}]
    /\ thread \in [Requests -> Threads \cup {NoThread}]
    /\ isNew \in [Requests -> BOOLEAN]
    /\ read \in [Requests -> Nat]
    /\ uncounted \subseteq Chats
    /\ parts \in [Streams -> Nat]
    /\ rerouted \subseteq Streams /\ wasStopped \subseteq Streams
    /\ flagged \subseteq Streams
    /\ loop \in Streams \cup {NoStream, Others}
    /\ room \subseteq Streams
    /\ ui \in [Streams -> {"free", "posting", "busy", "lost"}]
    /\ shown \in [Streams -> Nat \cup {Gap}]
    /\ asked \subseteq Streams
    /\ \A s \in Streams : Runs(s) <=> loop = s

\* No message is without its conversation, however first messages of one
\* conversation race (thread resolution in chat, chat_rag and chat_stream).
NoOrphans == \A t \in Threads : stored[t] # <<>> => t \in rows

\* Every exchange of t after its first came from a stream.
LaterStreamed(t) == \A i \in 2 .. Len(stored[t]) : stored[t][i] \in Streams

\* Streams never lose each other's update of message_count, which they read and
\* write in two steps.  It lags by the first exchange, which nobody counts, and by
\* nothing else, unless a chat() on its own thread stored a later one.
StreamsCountExactly ==
    \A t \in rows : LaterStreamed(t) => count[t] = 2 * (Len(stored[t]) - 1)

\* A stop stands from the moment the client knows the stream: no chunk that comes
\* later is let through, so at most one token follows, whose chunk came before
\* (chat_stream_stop, register_stream, _do_stream).
StopHolds ==
    [][\A s \in Streams : pc[s] = "waiting" /\ pc'[s] = "emitting"
                             => s \notin asked]_vars

Has(q, r) == \E i \in 1 .. Len(q) : q[i] = r

\* What a client is told is what happened: an exchange is stored if and only if
\* its client was told so, or is about to be, although first messages collide and
\* commits fail; and a page that missed no token shows the text that is stored.
ToldWhatHappened ==
    [][/\ \A r \in Requests :
             pc'[r] # pc[r] =>
                 /\ pc'[r] = "done" => Has(stored'[thread[r]], r)
                 /\ pc'[r] \in {"error", "failed"} => \A t \in Threads : ~Has(stored'[t], r)
                 /\ pc'[r] = "stopped" => (Has(stored'[thread[r]], r) <=> parts[r] > 0)
       /\ \A s \in Streams : pc'[s] # pc[s] /\ pc'[s] \in {"done", "stopped"}
                             => shown[s] \in {parts[s], Gap}]_vars

\* A page that is in the room before its stream ends is freed, unless its socket breaks,
\* its provider neither answers nor fails, or something holds the event loop for ever.
PagesFreed ==
    []<>(loop = NoStream) =>
        \A s \in Streams :
            []<>(pc[s] # "scheduled") =>
                (ui[s] = "busy" /\ s \in room ~> ui[s] \in {"free", "lost"})

\* "emits "join" ... before app.py's background task starts emitting chat_token
\* events to it".
JoinedBeforeTokens ==
    [][\A s \in Streams : pc[s] = "emitting" /\ pc'[s] # "emitting"
                             => ui[s] # "posting"]_vars
=============================================================================
