# A verification project for AI_ChatBot_V2

TLA+ models of the parts of the chatbot whose correctness depends on the order
in which threads, coroutines, worker processes, Redis and the outside world
act; TLC configurations that check them on small instances; and proofs, checked
by TLAPS, of the properties that matter most for every value of the constants.

The code is the reference. Where its comments or documents disagree with it,
the models follow the code and a run shows the disagreement (section 6).

## 1. The system

A Flask application (`app.py`) runs in several server processes, each with many
request threads and one background event loop that all coroutines share.
Celery workers (`background_tasks.py`, `celery_app.py`) run the slow jobs.
The processes share a SQL database (`database.py`), Redis (`redis_client.py`)
and Qdrant.

| component | code | state | operations | talks to |
|---|---|---|---|---|
| Redis facade | `redis_client.py` | one connection per process | commands that answer a neutral value (`None`, `False`, `0`, `[]`) instead of raising while Redis is down; redis-py resends what got no reply | all that follow |
| Rate limiter | `rate_limiter.py` | a sorted set per bucket, in Redis | check of a request against user, IP and hour buckets by a Lua script; reset by an administrator | Redis |
| Model router | `model_router.py` | a circuit breaker per provider, in the process | `route` (order, filter, call, retry, fall back), `stream`, status | LLM providers, cost router |
| Cost router | `ai/cost_router.py` | a monthly budget per user, in Redis | `route` scores the question, chooses a model and checks the budget; `deduct_cost` charges it after the call | Redis |
| Celery tasks | `background_tasks.py` | a lock in Redis, messages in the broker, a collection in Qdrant | `rebuild_rag_index`, the weekly decay of memories, the monthly reset of counters, the clean-up of the usage log | Celery, Redis, Qdrant, database |
| Stripe webhooks | `webhook_handler.py` | a key per event in Redis, `User.tier` | `stripe_webhook` and its handlers | Redis, database |
| Accounts and tokens | `app.py`, `auth_middleware.py`, `security/jwt_blacklist.py` | `User.is_active`, `is_deleted`, lockout columns; blacklist keys in Redis | login, Google sign-in, refresh, mint, logout, delete, `require_auth` | Redis, database |
| Admin panel | `admin_panel.py` | none | set tier and `is_active`, reset limits | database, Redis |
| Chat streaming | `app.py` | a registry of active streams, in the process | `chat_stream`, `stop` | router, database, event loop |
| Conversations | `app.py`, `database.py` | rows of conversations and messages | first message creates one; append, delete, archive; the five ways a turn is answered | database, cache, compressor, router, agents, RAG |
| Context compressor | `context_compressor.py` | none | `compress_history` of what a turn has read | LLM providers |
| Semantic cache | `ai/semantic_cache.py` | points of a Qdrant collection, keys in Redis | `get`, `set` by user | Qdrant, Redis |
| Analytics | `analytics.py` | rows of `usage_logs`, two counters per user | `track_llm_usage`, `track_agent_run`, each in a thread of its own | database |
| RAG systems | `app.py` | an LRU table of per-user indexes, in the process | query, rebuild, clear, upload, delete | files, database, Qdrant |
| Retrieval | `app.py`, `ai/reranker.py` | none | rephrase, search, fuse, cut off, rerank | the index of a RAG system |
| Long term memory | `long_term_memory.py` | rows and Qdrant points | store, search, decay, delete | database, Qdrant |
| Agents and their tools | `agent_loop.py`, `agent_tools.py` | runs in the event loop; the orchestrator's table; call times per user and tool | run, cancel, execute a tool | LLM providers, tools |
| others | see `PROJECT.json`, "components" | | security filters, audit log, monitoring, configuration, front end | |

### What is hard here

* Threads and replicas interleave between a read and the write that depends on
  it: blacklist check and handler, administrator's load and commit, breaker
  filter and call, check and deduction of a budget.
* Redis may be down (the facade then answers as if the data were absent, which
  callers read in different ways: *already processed*, *locked*, *allowed*), and
  a reply may be lost after its command ran; redis-py then sends it again.
* Workers die and their messages are delivered again; Stripe delivers again.
* Keys expire: locks, blacklist entries, idempotency keys.
* Clocks are read before the command that carries the stamp is executed.
* One event loop per process runs all coroutines, and a coroutine that iterates
  over a provider's chunks, runs a tool, or calls a provider without an await, blocks
  it; request threads run beside it.
* A request that stops waiting does not end what it waited for.
* Two stores (database and Qdrant, log and counters) are written one after the other,
  and the second write, or the process, may fail.
* Scores of different kinds are compared with one threshold.

### What makes each component correct

* Rate limiter: no window holds more admissions than its limit; a denied client
  that waits as told gets in.
* Router: an open breaker shuts out later calls, and recovers; the fallback
  reaches any provider that works.
* Rebuild task: one rebuild of a user at a time; no task lost; locks end.
* Stripe: an event takes effect once; an event is lost only by a fault.
* Accounts: a shut account serves nobody; a token logged out opens nothing.
* Chat streams: a stop stands; what a client is told is what was stored; no
  message without its conversation; counts are exact; pages are freed once the loop is.
* RAG systems: the table keeps to its bound and its order to the table; nobody is
  answered from another user's files; a chat finds the index that was there when it
  came; an eviction does not lock the table for good.
* Cost router: a budget is overspent by no more than what was in flight, or deducted
  again by a command sent again; its book balances; it is renewed every month; the model chosen fits it.
* Long term memory: what was erased stays erased in both stores; what was reported
  stored is kept; what does not matter fades.
* Turns: a model is sent whole turns, the recent ones that say anything, and a note for
  all others; a cached reply is the same user's, whole and stored; counters never exceed
  what was ever logged.
* Agents: tool limits hold over all runs of a user; a model sees all its results; a
  cancelled run asks no more; every run ends, if the event loop is let go.
* Retrieval: what every search ranks first is not dropped (it is: section 6).

## 2. Modules

| module | extends | what it is |
|---|---|---|
| `SlidingWindow` | | abstract: what a limiter promises, with no Redis, threads or stamps |
| `RateLimiter` | | decorator, script, facade and reset; implements `SlidingWindow` |
| `RateLimiterProofs` | `RateLimiter` | its proofs |
| `Selections` | | Python's list comprehension with a condition, as an operator |
| `ModelRouter` | `Selections` | breaker, order, retries, fallback, stream, status probe |
| `RebuildTask` | | the Celery task, its lock, retries, limits, crashes |
| `StripeEvents` | | deliveries, idempotency key, handlers, administrator |
| `RedeliveryProofs` | `StripeEvents`, `RebuildTask` | their proofs |
| `AuthTokens` | | requests with tokens, blacklist, login, logout, deletion, administrator |
| `ChatStreams` | | streams, plain chats, stop registry, event loop, browser, conversations |
| `ChatStreamsProofs` | `ChatStreams` | its proofs |
| `RagSystems` | | the table of RAG systems, their build locks, files, saved indexes, and the routes |
| `RagSystemsProofs` | `RagSystems` | its proofs |
| `ModelCatalog` | | the models, scores, tiers and the choice of `ai/cost_router.py`, as operators |
| `CostRouter` | `ModelCatalog` | the budget key, its checks and deductions |
| `CostRouterProofs` | `CostRouter` | its proofs |
| `LongTermMemory` | | memories in two stores, erasure, decay, crashes |
| `AccountProofs` | `AuthTokens`, `LongTermMemory` | their proofs |
| `ContextCompressor`, `SemanticCache`, `UsageLog` | | the compressor as an operator; the cache and the log as state |
| `ChatTurns` | the three above | the five paths of a turn, composed with them |
| `ChatTurnsProofs` | `ChatTurns` | its proofs |
| `AgentTools` | `Selections` | the registry's limit per user and tool |
| `AgentRuns` | `AgentTools` | runs, orchestrator, event loop, waiting requests |
| `ModelCallsProofs` | `AgentRuns`, `ModelRouter` | their proofs |
| `RagRetrieval` | | how a query finds its chunks |
| `MC...` | each of them | constants for TLC |

Every module begins with its constants and their assumptions, then the state,
helpers, one action per operation, the next-state relation, the specification and the
properties. Where two components share a proof module, because they share lemmas or an
argument, one of them names its parts after itself (`InitRouter`, `NextRoute`,
`RouterSpec`) so that both can be extended; they are proved side by side, not composed.
`Selections` is `SelectSeq` without the recursion of the library's definition, which the
provers cannot use.
Definitions called *Mutation* are the plausible bugs of `PROJECT.json`,
"mutants": each replaces the definition that follows it, and the run must then
fail.

### RateLimiter

`zset[b]` is the sorted set of a bucket, its members the pairs (stamp, process)
that `f"{now}:{id(request)}"` amounts to: two requests stamped in the same tick
by one process share an id, as they do in the code. `pc`, `stage`, `stamp` and
`tries` are the locals of a request in the decorator. A check is two steps,
`BeginCheck` (reads the clock) and one of `EvalAllowed`, `EvalDenied`,
`EvalResent`, `EvalGivenUp`, `EvalUnreachable` (the script, its lost reply, or the
outage). `log` is history: the admissions a bucket granted lately. `Tick` drops
the keys whose EXPIRE has come. `Reset` is `reset_user_rate_limit`.

`CountedFor` is the window less `MaxDelay`: an entry carries the stamp of its
request, so an admission is forgotten that much earlier than the window says.
The promise is stated with it, and it is the strongest one that holds.

Stamps are fractions of a second (`Second` ticks each). The script returns the oldest
one as a Lua number, which Redis cuts to whole seconds (`OldestReplied`), and the
caller compares it with its exact clock (`RetrySeconds`): the wait may be too short.
`RetryAfterHonest` bounds the error by a second on both sides; that the wait suffices
is in the table of section 6.

### ModelRouter

One step is what a coroutine does between two awaits. `failures` and `age` are
the breaker's two dictionaries; `chain`, `pos` and `attempt` the locals of a
route. `ProbeReads` and `ProbeWrites` are the two halves of `is_open` on a request
thread. `reliable` is chosen once: the providers that do not fail in this
behaviour, so that a property may speak of a provider that works.

### RebuildTask

`queue` counts messages by task and retry, `msg` is what a worker has not yet
acknowledged, `phase` where the body is. The lock is who set it and its time to
live. `Tick` ages everything, kills a task at the hard limit and expires the key.
Celery is external and modelled from its settings: late acknowledgement,
rejection on a lost worker, one message per process.

### StripeEvents

`key` holds the events whose idempotency key exists. Deliveries of any event that
happened may come at any time, to any thread, again and again. `TierAfter` is
what the handlers do to the one user modelled.

### AuthTokens

`life[t]` and `revoked[t]` are the remaining lives of a token and of its blacklist
key. A request goes through `decoded`, `passed`, `in` and, for logout,
`revoking`; each is a separate access to Redis or the database. `shut`, `out`,
`barred` and `wrong` are history for the properties. Ids of dead tokens are used
again so that a few of them stand for any number.

### ChatStreams

A request is a `chat_stream` (in `Streams`) or a `chat` or `chat_rag` (in `Chats`) of
one user. `pc[r]` is where it is: in its request thread (`resolved`), handed to the
loop (`scheduled`, which includes the wait for `generate_content` in an executor),
waiting for a chunk, emitting it, in its transaction (`storing`, `selected`), or
awaiting the long term memory (`remembering`). `loop` is the coroutine that holds
the event loop: `ModelRouter.stream` iterates over the chunks with a plain `for`,
and the transaction has no await, so a stream holds it from its first chunk to its
commit. `Others` hold it for as long as they like (`OthersTake`, `OthersLetGo`): agents'
tools, and the coroutines of grounded and file chats, which call Gemini without an await
and without a time limit. Chats are not bound to the loop at their commit and interleave
with it.

A client that has been answered joins the room of its stream (`Join`), or is refused
(`JoinRefused`: the handler wants a token, which the shipped page does not send); then, as
after `Disconnect`, its page is `lost` to the stream's events.

The sessions do not autoflush: `Select` finds no row for a conversation the session
is about to insert, so the first exchange of a conversation is never counted, and
`CountAfter` says so. Two requests that both found no row collide at the commit, and
the second is rolled back (`Collides`, `CommitFails`).

A chunk is text; one of white space only, which `strip()` drops, is not told apart.
`shown[s]` is what the page received (`Gap` once it missed a token) and `asked` the
streams a stop was requested for while they ran; both are history. When a
request is over its locals and history are reset.

A stop takes hold at the next chunk, which is dropped; the text before is stored.
(The docstring of `chat_stream_stop` says that the token under way "will still be
emitted"; the code drops it.)

One process is modelled, as `gunicorn -w 1` runs it. The Kubernetes files start
several replicas, without a message queue between their Socket.IO servers; a stop
that reaches another replica than its stream is out of the model.

### RagSystems

An object is a pair: its user and which of that user's objects it is. `cache`, `order` and
`tableLock` are the class attributes; `ready[o]`, `engine[o]` and `lock[o]` the attributes of
an object, of whose engine only the files it was built from matter. `_cache_lock` is held
over a single step except when an eviction waits for the build lock of its victim
(`Displace`, `Evict`), which is when `tableLock` names its holder. `for_user` looks its object
up again after it released the lock, a step of its own (`Fetch`, or `FetchFails` for the
KeyError). `init` holds the build lock from `BeginInit` to one of `Load`, `ReadNothing`,
`Build` and `InitFails`; what any library may raise is `InitFails`. A rebuild thread is the
request that started it, which goes on as `init(force=True)`; a rebuild that Celery takes
(`Queue`) touches nothing here, because `rebuild_rag_index` does not (`RebuildTask`).

`files`, `saved` and `rows` are what the directories and the table `uploads` hold; saving a
file and committing its row are two steps, and a crash between them is a failed commit.
`spoiled` and `upset` are history: the chats that cannot expect an answer because the index
was removed or a library failed, and those whose object was evicted meanwhile.

Objects that nobody refers to are reset, as Python frees them, so that a user needs only
one more object than there are requests. Two files never have the same content, so that the
search for duplicates does not refuse any.

### ModelCatalog and CostRouter

`ModelCatalog` is the arithmetic: prices, budgets, `Score` from the features of a
question, the model it asks for, and `Decision`, what `route` makes of the
budget left. Money is in units in which every estimate is whole, so nothing is rounded.

`CostRouter` is the budget key. `value` and `ttl` are `budget:<user>`; a check is `Look`
and, when the key is missing, `Create`; a deduction is `Exists`, `CreateFirst` and `Incr`:
five separate calls to Redis, between any two of which another request, the expiry, or an
outage may come. The reply of a SETEX or INCRBYFLOAT may be lost after it was obeyed
(`CreateAgain`, `IncrAgain`); the client sends it again, and an INCRBYFLOAT then deducts
twice, which `resent` adds up. `kind[r]` is the route a request came by, since these differ: `chat`
passes an admission check and then `route`, streams and direct calls deduct nothing, a
fact extraction follows a chat and is checked by nobody. `tier[r]` is the tier it passes,
whose limit it makes a missing key with: the user's, which may change between requests, and
for a fact extraction always `free`, so that a paying user's key may be made with the free
limit (`made`). While Redis is down the facade
answers as if the key were missing, so a check sees the whole limit (`blind` counts these
admissions) and a deduction is lost. `made`, `spent`,
`resent`, `fresh` and `raced` are history: they say what the key would hold if nobody had
made it at the same time as another.

### LongTermMemory

`row[m]` and `point[m]` are what the database and Qdrant hold of a memory, which is named
by the call that stores it and a number (0 is the summary). `StoreRow` and `StorePoint` may
each fail; `told` are the memories whose `store_memory` returned an id. An eraser reads
rows, deletes them in a transaction, then deletes points; the decay is a
transaction that reads every old row and commits, or rolls back because a row it read is
gone. `gone` and `due` are history: what a faultless erasure has to have taken.

### ChatTurns, with ContextCompressor, SemanticCache and UsageLog

A turn is a request of one of five kinds (`Kinds`): `chat` asks the cache, reads the history,
compresses it, generates, commits, remembers and is tracked; a `file` turn skips the lookup;
a `stream` may be stopped; `agent` and `rag` use neither history nor cache. A reply is
named by the turn that generated it, so that whose it is can be told. `messages[t]` are the
rows of a conversation in the order of `created_at`; the two rows of a turn are stamped in one
flush, hence adjacent. The first `2 * Earlier[t]` of them are turns that were over before, some
of them perhaps without text (`Silent`).

A message may have no text. A question has none when `sanitize_prompt` leaves nothing of it
(`Blank`), which a turn with a file refuses; a reply may be stored without text (`blank`) by
`chat` through the router, which does not check it as other paths do. `Compress`
filters these messages before it counts: `Said` are the places of the others, which alone
are compared with the threshold, sliced and folded.

`points` is the cache's collection. The exact level in Redis never answers (the client
parses the JSON it reads and the cache parses it again, which raises), so only the
semantic level is modelled; its points carry no TTL.

`UsageLog` has a thread per tracked reply that reads the user's counters, and commits the row
and the counters increased, or neither; a turn of `chat` by way of the router has two, since
the router and the handler both track it. A run of an agent has a thread that adds a row and
leaves the counters alone (`CommitRun`). The weekly clean-up deletes old rows (`DeleteOldRows`),
the monthly reset sets one counter to 0 (`ResetMonth`). So `logged` are the rows there are, and
`tracked`, which is history, what replies ever logged: the counters have to be compared with
the latter. Other calls of the router (fact extraction, webhooks, tasks) are tracked in the same
way by more threads and are left out.

### AgentTools and AgentRuns

`loop` is the run that holds the event loop: from the model's answer through its tools to
the next question, since tools run without an await. `Others`, streams and calls of a
provider without an await, hold it for as long as they like. `Top` holds the three checks
between iterations in their order; `Think`, `ThinkTimesOut` and `ThinkFails` are what
`wait_for` comes to. `Ask` and `GiveUp` are the request in `run_async`, whose end leaves the run
alone. `active` and `Cancel` are the orchestrator's; no route calls `cancel_run`, so that
`Cancel` is what it offers. `memory[a]` holds what the messages are and of which iteration,
and is cut as `_add_memory` cuts it. `used` is history: the times at which a tool's
function really was called.

### RagRetrieval

One query. `searches` is what each phrasing found by vector and, in an index that still has its
nodes, by keyword: any lists of chunks a search may return. `Fused` is Reciprocal Rank
Fusion with its tie rule, in millionths; `Keep` fuses and applies the cutoff; `Rerank` may
order as it likes, but keeps what the code keeps.

## 3. Runs

All run with two workers in at most three minutes.

| run | bounds | what it shows |
|---|---|---|
| `rate_limiter` | 3 requests, 2 users of limits 1 and 2 behind 1 address, windows of 1 second of 3 ticks, delay 1, 2 tries, clock to 6 (entries leave the window at 3, keys expire at 6) | `SlotsWithinLimit`, `PromiseSpec` (refinement), `RetryAfterHonest` |
| `model_router` | 2 routes, 3 models, 2 providers, threshold 2, recovery 1, 2 tries | `RouterTypeOK`, `OpenOnlyForEarlierRoutes`, `ReliableAnswers`, `BreakerRecovers` |
| `rebuild_task` | 2 tasks, 2 workers, 1 retry, limits of 2 ticks, 1 crash, 1 lost reply, outages at will | `RebuildsExclusive`, `NoTaskLost`, `TasksSettle` |
| `stripe_events` | 2 events, 2 threads, 2 faults, 1 expiry per key | `HandledOncePerKey`, `OnlyFaultsLoseEvents`, `ByHandStands` |
| `auth_tokens` | 2 access tokens, 1 refresh token, 2 requests, lives of 2 and 3 ticks, blacklist key of 1 | `ShutOut`, `RefusedAfterLogout` |
| `chat_streams` | 2 streams of up to 2 and 1 chunks, 1 plain chat, 1 conversation | `NoOrphans`, `StreamsCountExactly`, `StopHolds`, `ToldWhatHappened`, `PagesFreed` |
| `rag_systems` | 2 users, a table of 1, 2 requests, 1 file | `TableConsistent`, `AnswersAreOwn`, `ChatsAnswer`, `TableIsReleased` |
| `cost_router` | 2 requests of a user on the pro tier, a month of 3 days of 1 hour, charges of 39999800 out of 40000000, 1 outage or lost reply, 1 admission during the outage | `OverspendBounded`, `BooksBalance`, `RouteSound`, `Renewed` |
| `long_term_memory` | 1 conversation of a summary and up to 2 facts, 1 eraser that may run again and again, decay after 1 tick, 1 crash | `ErasedForGood`, `StoredIsKept`, `Fades` |
| `chat_turns` | 2 overlapping turns of any kind in 2 conversations of 2 users, with 3 and 1 earlier turns, the last reply of the 3 without text; 3 questions, two alike and one without text; 1 end of the month or clean-up; 2, 3 and 6 messages for 20, 30 and 200 | `ContextSound`, `ContextAlternates`, `CachedAnswersOwn`, `CachedIsStored`, `CountersFollowLog` |
| `agent_runs` | 2 runs of 1 user with the same tool, one of them orchestrated; 2 iterations, thoughts of up to 2 calls, limit 2 in 2 ticks, timeout 1, memory 4, prompt 3, clock to 2 | `ToolLimitHolds`, `ResultsSeen`, `CancelHolds`, `RunsEnd` |
| `rag_retrieval` | 2 chunks, up to 2 phrasings, similarities 0.2 and 0.8, cutoff 0.3, 1 chunk kept | the disagreement of section 6 |

Why the bounds are enough. The limiter needs two requests that compete for a
slot and a third whose stamp is older; the window must exceed the delay and the
clock must pass a whole window; two limits on one IP bucket give the case of a
shared bucket. The breaker needs a provider with two models (so that a second
model is tried after the first opened the breaker), another provider to fall
back to, and a second route that fails late. The task needs two competitors, and
a third message to meet a wrongly deleted lock: the retry or the redelivery is
that message. An event needs two overlapping deliveries and a second event whose key
must not be mistaken for its own. Tokens need two requests in flight, one to
log out and one that uses the token, and lives that differ. Streams need two on one
loop and one conversation (to collide, and to overwrite a count), a plain chat beside
them, which no loop keeps apart, and a second chunk, so that a stop may fall before,
between and after chunks. Conversations do not touch each other, so one is enough.
A table of one place and two users make every lookup of one user evict the other; two
requests make one evict, load or clear what the other has fetched; with a file for one of
the users, one has an index to lose and the other has none to be given by mistake.
A budget needs two requests (to race for the key, and to pass the check together), a charge
that nearly spends it, a month of which one day is neither first nor last, one
outage during which somebody is admitted or one reply that is lost, and a tier other than the
free one of a fact extraction. Memories need one that is stored first and others that
follow while an eraser is at work; the eraser, which may run again, meets its own earlier
run's result, a crash and a decay. Overlapping turns need two, in one conversation (whose
history grows under a turn that has read it) or in two (whose users must not be given each
other's replies); one conversation is short until one more turn puts it past the threshold, the other is past it
and fills the page, and its message without text moves the slice into the middle of a
turn. Two questions alike and a third tell a hit from a mistaken one. Two runs of one
user share a tool and its limit of two calls, which one thought can spend; a second iteration is
followed by the last check; the prompt of three is just what two calls need.

`CHECK_DEADLOCK FALSE` is used for the limiter, whose clock is bounded and whose
request slots serve once, and for chat streams, turns, agent runs and a query, which end.

Symmetry is used for requests, threads and tokens that the constants do not
tell apart, and only in runs without liveness.

### Fairness

* `ModelRouter!FairRouterSpec`: every call comes to some outcome, because
  `asyncio.wait_for` bounds it by `llm_timeout`; time passes. Nothing is assumed of
  routes starting, of streams or of status requests.
* `RebuildTask!FairTaskSpec`: an idle worker takes a waiting message; time passes. No
  step of a task body is assumed: a body that hangs meets its hard limit.
* `ChatStreams!FairSpec`: what the coroutine that holds the loop does without an await goes on,
  its transaction ends one way or the other, and the loop, whenever it is free, turns in the end to a
  stream that is ready again and again (strong fairness of `Resumed`; `route()`, which it
  may have waited for, has time limits). Nothing is assumed of who holds the loop otherwise:
  neither a provider's stream nor the `Others` have a time limit. So `PagesFreed` is
  conditional: if the loop is free again and again and a stream's `generate_content` is
  not waited for for ever, a page in its room is freed. Nothing is assumed of users and sockets.
* `RagSystems!FairSpec`: a build in `init` comes to some end, because the libraries return
  or raise, and an eviction that finds its victim's lock free for good takes it. Nothing
  is assumed of requests.
* `CostRouter!FairSpec`: time passes, so that Redis expires its keys. Nothing is assumed
  of requests: `Renewed` holds although none of them ever ends.
* `LongTermMemory!FairMemorySpec`: time passes, and the weekly task, which the beat schedule
  starts again and again, reads and ends one way or the other. Nothing is assumed of
  stores and erasers.
* `AgentRuns!FairSpec`: a run that is ready again and again while the loop is free is resumed
  (strong fairness of `Resume`: `wait_for` bounds every call of a model, so it becomes ready), and
  what it does without calling anything goes on. Nothing is assumed of tools, nor of
  the `Others` that hold the loop: `RunsEnd` is conditional on the loop being free again
  and again. Nothing is assumed of requests and of the clock.
* The other modules state safety only, and no fairness.

## 4. Proofs

Each theorem holds for every value of the constants that meets the named
assumptions of its module.

* `RateLimiterProofs`. The invariant (`IInv`) adds to the types what ties the
  Redis data to the history: every admission that still counts is in the
  sorted set under its stamp, stamps are not older than `MaxDelay`, and the key
  of a bucket outlives its entries. Without it nothing relates what the script
  counts to what was admitted. From it: `SlidingWindowHolds`, and
  `Implementation`, which maps each action to `Admit`, `Clear`, `Tick` or a stutter.
  `RetryAfterFreesASlot`: a second after the wait that a denial names, the oldest entry
  it was computed from has left every window that is cut at that time; until a second
  before, no entry has (`Cut`, `WaitBounds`).
* `RedeliveryProofs`. Both parts are handed the same work again and mark it by a key
  that expires. `LockExcludes`: a worker inside the critical section holds
  the lock with at least as much time to live as the task has left. This is where
  `HardLimit <= LockTimeout` is needed, which relates a setting in `config.py` to
  a literal in `background_tasks.py`. `TasksKept` for any number of crashes.
  `Idempotent`: handlings that committed or are under way
  never exceed the keys that were set. `EventsAreKept` says more than it promises of
  answered events: without a fault, an event with a key is handled or being handled as well
  (`NothingLost`), so that a delivery which finds the key may answer. `TierStands`: an event
  that was over when the administrator set the tier has its key and no handler until the
  key expires (`StaysOver`).
* `AccountProofs`. `ShutAccountsStayOut` and `LogoutRefuses`: the invariant says at
  which points of a request the facts already checked still bind, and that a
  key written by a logout lives at least as long as the history remembers it.
  `ErasureIsFinal`: a call stores its memories one after the other and does not go back
  (`StoredInOrder`), an eraser is after memories whose call is past them (`Settled`), so that
  nobody writes them again, and what it has read of them is gone from the rows when it
  turns to the points (`ErasureHolds`). `ToldMemoriesAreKept` is about steps and follows from
  the same order.
* `ChatStreamsProofs`. `CountsExact` is not inductive alone: `FreshReads` says that what
  a stream read is still there at its commit, because the stream holds the loop
  (`TypeOK`) and a plain chat's commit ends what is promised of that conversation.
  `ClientsAreToldTheTruth` rests on `StoredOnce` (in which states a request is stored),
  `TextIsThere` (in which states there is text to store) and `ShownIsSent`.
  `StopsHold` rests on `StopsStand`: a flag that was set while its stream ran is there.
* `RagSystemsProofs`. `Lists` says that the access order lists the keys of the table, each
  once, and has one lemma for each operation on it; `TableStaysConsistent` also needs that a
  thread which evicts keeps the table from everybody else until its new object is in it.
  `AnswersStayOwn` rests on `Placed` and `OwnFiles`: an object carries its user, and so does
  what a request fetches, reads or loads.
  `EntitledChatsAnswer` is about steps, and needs to know of every chat that
  still has a right to an answer that its index is on disk (`IndexIsThere`), that nobody is
  evicting the object it fetched (`ObjectIsKept`, from `VictimsAreOut`: a victim has left the
  table before it is cleared) and that this object is ready once the chat asks.
* `ChatTurnsProofs`. `CacheGivesOwn` and `CacheHoldsStored`: only a turn that committed its own
  reply comes to remember it (`Remembers`), so that whatever is in the cache, or was given out of
  it, has a source that is over (`Sourced`), and what was asked of a turn never changes. `ContextsAreSound`:
  what is sent is the page that was read, compressed (`Sends`); commits of other turns only
  add rows behind it; and the recent messages are those behind some place, as many as
  they should be (`RecentIsCut`). `ContextsAlternate` needs even limits, as the code's are (20 and
  200), and that rows come in pairs (`Alternating`): where every message has text the slice
  leaves an even number behind it, so a turn is cut only if a message behind it has none. An
  odd `RecentVerbatimCount` refutes it.
  `CountersAreBounded`: what a writer read is no more than what was ever logged when it commits
  (`Reads`), because `tracked` never decreases, whatever a clean-up does to the rows; and a
  commit on stale counters is remembered (`stale`).
* `CostRouterProofs`. `DecisionSound` says of every score, budget and set of models at hand what
  `route` decides: reject exactly when nothing fits, otherwise a model that fits, and the
  one asked for when it does; `RoutesSoundly` follows in every state. `OverspendIsBounded` rests
  on an invariant that says of every request how many charges it still has pending
  (`Pending`) and counts those that are not (`Settled`): each step of a request from
  checked to deducted moves one element, the key falls by at most one charge for each,
  an admission during an outage pays with `blind`, and an increment that is sent again with
  `resent`. `BooksAreBalanced` needs what a request that has looked for the key knows about
  it (`fresh`, `FreshKnows`): the key it saw is the key there is, or is still missing.
  The bounds on outages, on lost replies and on admissions without Redis are arbitrary constants
  in all of these, and so are the tiers.
* `ModelCallsProofs`. First what a list comprehension returns: the chosen elements, each once
  and in their order (`ChosenFacts`, `AtIndicesFacts`, `SelectionIsInjective`), from the rank
  of an index, a cardinality. For the agents, `ToolLimits`: the registry's list holds every call
  of the last window (`CallsCounted`), and no call is of the future (`CallsArePast`), so that a
  comparison of its length with the limit is one of the calls there were. `ModelSeesItsResults`: counted
  from its end, a run's memory holds the results of its last thought and then the thought
  (`TurnKept`), and what is trimmed is at the other end. The property is about thoughts of
  fewer calls than messages are shown (12): the code sets no bound, and of a longer one the
  model sees the last results only. `CancelIsHonoured` is about steps. For the router,
  `RouterTypeCorrect`: the failure count grows while a breaker is open, so its bound
  is not inductive; count and pending calls together are (`CountBounded`), because no route
  adds a pending call to an open breaker. `OpenBreakersAreRespected`: a route that waits on an
  open breaker began before it opened (`OpenedSince`). `FallbackAnswers`: while a
  model of a provider that works can be used at all, every route that calls models has such a
  provider still ahead of it (`ReliableAhead`).

The type invariants of these modules are proved and are not repeated in the runs, except
`RouterTypeOK`, which also says that the failure count of a provider is bounded. That of
`AgentRuns` is proved as part of `AgentTypes`.

Every invariant and every action property of the runs is a theorem. Only model-checked are
the seven liveness properties (`BreakerRecovers`, `TasksSettle`, `PagesFreed`,
`TableIsReleased`, `Renewed`, `Fades`, `RunsEnd`), which are out of the prover's reach: under
fairness they need ENABLED. `LockExpires` of `RebuildTask`, and `FusionAgrees` of
`RagRetrieval` (which holds vacuously at a cutoff that drops everything and was checked with
`Cutoff = 0`), are stated for the reader and are in no run.

## 5. Assumptions and what is left out

* Redis keeps its data over an outage (it runs with append-only files) and
  evicts nothing. The production configuration does set an eviction policy; under
  memory pressure locks, windows and blacklist keys could vanish early.
* Clocks of processes agree. `MaxDelay` bounds the way of an EVAL to Redis.
* A database transaction is one step, isolated from others, except where the
  code reads in one request what it writes in another step (the administrator).
* The two rows of a turn get adjacent `created_at` stamps: they are added and flushed together.
  Turns of one conversation in different processes could come closer than their clocks agree.
* An estimate of a cost is exact in the units of `ModelCatalog`; what a call is charged in the end is any
  amount from a set, up to a largest one.
* A search returns any ranking, an embedding any nearness; extraction finds any number of facts.
* A rebuild's ImportError branch (no Qdrant client installed) is left out.
* Not modelled, with the reason, is what `PROJECT.json` lists so under
  "components": stateless text filters, statistics, configuration and pages; and, of
  components that are modelled in part, what the component's note names.

## 6. Disagreements between the code and its documents

One is shown by a run.

* `rag_retrieval`, `CutoffIsAFloor`. `app.py:1099` says of fused scores that the cutoff "is
  still meaningful as a relative relevance floor". Reciprocal ranks with the constant 60 sum up to
  0.061 at most, and the cutoff is 0.3 (`app.py:788`; `config.py` does not define the setting): every
  chunk of a fused search is dropped, however relevant, and the answer is that nothing
  was found. Only a question of 15 words or more, in an index that was loaded from disk, is
  compared with the similarities the cutoff is meant for.

The following are stated as properties beside the model and are in no run; TLC finds each of
them violated when it is added to the configuration of its module (`FailClosedBlocks` with
`FailClosed = TRUE`).

| property | the text | the code |
|---|---|---|
| `RebuildTask!ConcurrentRebuildsPrevented` | `background_tasks.py:125`: prevents concurrent rebuilds | a resent DELETE removes another's lock |
| `AuthTokens!LogoutIsFinal` | `app.py:1653`: revokes the access and the refresh token | the blacklist key dies long before the token; the refresh token stays |
| `AuthTokens!LockoutEnforced` | `README.md:71`: account lockout | the failed attempts are rolled back with the error |
| `ChatStreams!JoinedBeforeTokens` | `websocket_handler.py:321`: joins before the first token | the coroutine is scheduled before the client knows the id |
| `RagSystems!EvictionIsTransparent` | `app.py:924`: transparently reloaded on next use | `for_user` reads the table after it let go of it: KeyError |
| `RagSystems!DeletedFilesStayOut` | `app.py:2986`: index rebuilding | the queued task leaves object and saved index as they are |
| `RateLimiter!FailClosedBlocks` | `rate_limiter.py:374`: fail closed | the facade hides the outage and every check lets the request through |
| `RateLimiter!RetryAfterSuffices` | `rate_limiter.py:339`: retry after this many seconds | the oldest stamp was cut to whole seconds: up to one second too short |
| `StripeEvents!CancellationDowngrades` | `webhook_handler.py:253`: downgrade to free | no user is found by the Stripe customer |
| `CostRouter!ExpiresAtMonthEnd` | `ai/cost_router.py:757`: TTL until end of month | whole days are left out and the hour of the day is not: the key dies up to a day early, or, when made on the last day, an hour later |
| `LongTermMemory!NothingRemains` | `app.py:1794`: also purges long-term memory | a conversation still being stored writes its memories after the purge |
| `ChatTurns!MostRecentVerbatim` | `context_compressor.py:56`: the most recent messages verbatim, always | `app.py:2350` reads the oldest 200 messages: from then on a model never sees the present |
| `UsageLog!MonthlyIsOfThisMonth` | `database.py:316`: current month, reset monthly | a thread that read before the reset writes the old month back |
| `AgentRuns!CancelledIsReported` | `agent_loop.py:287`: cancel gracefully | the end of the run overwrites the status |

Other facts that the models follow and a reader may not expect:

* A reply of `chat` through the router is logged twice, so that `total_tokens_used` counts it
  twice; replies of streams and of the cache are not tracked at all. A run of an agent is a
  row of the log and in no counter.
* A reply without text from the router is stored by `chat`; later contexts leave it out, so that a
  model may be sent two questions in a row.
* Redis charges a budget twice when the reply to INCRBYFLOAT is lost, and the key of a paying
  user's budget is made with the free limit when a fact extraction is the first to miss it.
* The page joins its stream's room without a token, which `handle_join` asks for: unless
  the Flask session names the user it is refused, and sees none of the stream's events.
* The exact level of the semantic cache never answers, and its TTL never applies to Qdrant's points.
  The reply to a question about a file is remembered under the question alone.
* A summary that takes longer than `run_async` waits ends the turn with an error.
* A deleted conversation still accepts turns.
* The 504 a client gets does not end the agent run it waited for.

## 7. Plan

What is left, in this order:

1. Proofs: an abstract specification of the tools' limit like `SlidingWindow`, of an
   erasure and of an event's handling, with the detailed ones shown to implement
   them; the safety half of `RunsEnd` and of `TasksSettle`, that what has ended stays so.
2. Conversations: renaming, archiving and deletion against turns, across `ChatStreams` and `ChatTurns`.
3. Accounts: API keys and session cookies beside tokens.
4. The document upload task and equal uploads (`app.py:750`: the look for a duplicate and the
   insert are apart), and webhooks out (`background_tasks.py:718`: sent again although they may
   have arrived).
5. Memory recall with its access counts, and the statistics that read them.

A run that only shows a disagreement gives way to one that checks a component; its
property stays in the module.
