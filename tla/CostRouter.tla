----------------------------- MODULE CostRouter -----------------------------
(***************************************************************************)
(* The monthly budget of one user: the key budget:<user> of Redis, the     *)
(* checks of ai/cost_router.py that read it before a model is called and   *)
(* the deduction that follows the call, for requests that overlap.         *)
(*                                                                         *)
(* Every check and every deduction is several calls of Redis: look, create *)
(* the key when it is missing, increment.  The client sends a command again*)
(* whose reply is lost, and increments twice.  The facade of               *)
(* redis_client.py never raises; with Redis down it reports a missing key, *)
(* so the checks answer the whole limit and the deduction is lost (the     *)
(* in-memory table of the class is never reached).  Amounts are in         *)
(* ModelCatalog's units, time is in hours of a month of Days days.         *)
(***************************************************************************)
EXTENDS ModelCatalog

CONSTANTS
    Requests,        \* requests of the user that may overlap
    Questions,       \* questions, as Score sees them
    Configured,      \* providers with an API key
    Tokens,          \* estimated_tokens: 500
    Tiers,           \* the user's tiers: a payment may change it between requests
    Charges,         \* what a call of a paid model may cost
    MaxCharge,       \* the largest of them
    Days, DayLength, \* days of the month, hours of a day
    MaxFaults,       \* bound: how often Redis goes down or loses a reply
    MaxBlind,        \* bound: requests admitted while it is down
    NoKey,           \* no budget:<user>
    NoTTL            \* a key that never expires

ASSUME SetsAssumption ==
    /\ IsFiniteSet(Requests)
    /\ Configured \in SUBSET Providers /\ Configured # {}
    /\ Tokens \in Nat

ASSUME AmountsAssumption ==
    /\ MaxCharge \in Nat
    /\ Charges \subseteq 1 .. MaxCharge

ASSUME TimesAssumption ==
    /\ Days \in Nat \ {0} /\ DayLength \in Nat \ {0}
    /\ MaxFaults \in Nat /\ MaxBlind \in Nat

ASSUME KeyAssumption == NoKey \notin Int /\ NoTTL \notin Nat

VARIABLES
    value, ttl,      \* the budget:<user> key and the hours it has left
    now,             \* hours since the month began
    redisUp,
    pc, kind,        \* pc[r], kind[r]: where request r is, which route it came by
    tier,            \* tier[r]: the user_tier it passes
    charge,          \* charge[r]: the cost r deducts
    faults,          \* outages of Redis and replies lost
    made,            \* history: the limit the key was made with
    spent,           \* history: deducted since the key was made
    resent,          \* history: deducted once more, by commands sent again
    fresh,           \* fresh[r]: history, no other made or lost the key since r looked
    raced,           \* history: since the key was made a request that was not fresh
                     \* undid deductions, or one met the key missing or Redis down
    blind            \* history: requests admitted while Redis was down

key == <<value, ttl>>
request == <<pc, kind, tier, charge>>
books == <<made, spent, resent, raced>>
vars == <<key, now, redisUp, request, faults, books, fresh, blind>>

Limit(r) == LimitOf(tier[r])

\* chat(); chat() with a preferred_model that ModelRouter knows; chat_stream();
\* grounded, file and RAG chats, which call Gemini themselves; agents, background
\* tasks and webhooks, which only use ModelRouter; the fact extraction of
\* long_term_memory.py after a chat.
Chatting == {"chat", "preferred", "stream", "direct"}
Kinds == Chatting \cup {"agent", "extract"}

Deducting == {"exists", "create", "incr"}

Init ==
    /\ value = NoKey /\ ttl = NoTTL
    /\ now \in 0 .. Days * DayLength - 1
    /\ redisUp = TRUE /\ faults = 0
    /\ pc = [r \in Requests |-> "idle"]
    /\ kind = [r \in Requests |-> "chat"]
    /\ tier = [r \in Requests |-> "free"]
    /\ charge = [r \in Requests |-> 0]
    /\ made = 0 /\ spent = 0 /\ resent = 0 /\ raced = FALSE /\ blind = 0
    /\ fresh = [r \in Requests |-> TRUE]

Goto(r, p) == pc' = [pc EXCEPT ![r] = p] /\ UNCHANGED <<kind, tier, charge>>

Answer(r) ==
    /\ pc' = [pc EXCEPT ![r] = "idle"]
    /\ kind' = [kind EXCEPT ![r] = "chat"]
    /\ tier' = [tier EXCEPT ![r] = "free"]
    /\ charge' = [charge EXCEPT ![r] = 0]

\* The reply of a chat is kept in long-term memory, which asks gemini-flash for
\* its facts: preferred_model, so no budget is checked, and user_tier "free", whatever
\* the user's is.
Extract(r) ==
    /\ pc' = [pc EXCEPT ![r] = "call"]
    /\ kind' = [kind EXCEPT ![r] = "extract"]
    /\ tier' = [tier EXCEPT ![r] = "free"]
    /\ charge' = [charge EXCEPT ![r] = 0]

AfterReply(r) == IF kind[r] \in Chatting THEN Extract(r) ELSE Answer(r)

\* The places between a look at the key and a write of it.
Stale == {q \in Requests : pc[q] \in {"admitNew", "routeNew", "create", "incr"}}

\* History: r knows the key; or the key was made, lost or out of reach, unknown to others.
Knows(r) == fresh' = [fresh EXCEPT ![r] = TRUE]
Moved(others) == fresh' = [q \in Requests |-> q \notin others]

\* History: those whom a write of the key leaves ignorant.
Ignorant == IF value = NoKey THEN Stale ELSE {q \in Requests : ~fresh[q]}

----------------------------------------------------------------------------
(* The check: route() of app.py's routes, and again in ModelRouter.         *)

Start(r) ==
    /\ pc[r] = "idle"
    /\ \E k \in Chatting \cup {"agent"} :
           /\ kind' = [kind EXCEPT ![r] = k]
           /\ pc' = [pc EXCEPT ![r] = IF k = "agent" THEN "route" ELSE "admit"]
    /\ \E t \in Tiers : tier' = [tier EXCEPT ![r] = t]
    /\ UNCHANGED <<key, now, redisUp, charge, faults, books, fresh, blind>>

\* Where a check that admits request r leads to.
Onward(r) ==
    CASE pc[r] \in {"route", "routeNew"} -> "call"
      [] kind[r] = "chat" -> "route"
      [] kind[r] = "preferred" -> "call"
      [] kind[r] = "stream" -> "stream"
      [] OTHER -> "direct"

\* Mutation: the budget is not looked at when a model was chosen.
DecideFreely(r, budget) == Goto(r, Onward(r))

\* A rejected decision is an empty order for ModelRouter, which raises; app.py
\* answers 429.
Decide(r, budget) ==
    \E q \in Questions :
        LET order == RoutingOrder(Decision(Score(q), AvailableModels(Configured),
                                           budget, Tokens))
        IN  IF order = <<>> THEN Answer(r) ELSE Goto(r, Onward(r))

\* _get_budget: what GET tells.
Look(r) ==
    /\ pc[r] \in {"admit", "route"}
    /\ IF redisUp /\ value # NoKey
       THEN Decide(r, value)
       ELSE Goto(r, IF pc[r] = "admit" THEN "admitNew" ELSE "routeNew")
    /\ Knows(r)
    /\ UNCHANGED <<key, now, redisUp, faults, books, blind>>

\* Mutation: no least time, so that SETEX on the last day is given none.
HoursToKeepUnfloored == (Days - (now \div DayLength) - 1) * DayLength

\* Mutation: SET instead of SETEX.
HoursToKeepForever == NoTTL

\* (days_in_month - now.day) * 86400 seconds, at least one hour.
HoursToKeep ==
    LET hours == (Days - (now \div DayLength) - 1) * DayLength
    IN  IF hours < 1 THEN 1 ELSE hours

\* _init_budget: SETEX, whatever the key holds by now.
SetBudget(r) ==
    /\ value' = Limit(r) /\ ttl' = HoursToKeep
    /\ raced' = (value # NoKey /\ (raced \/ (~fresh[r] /\ spent + resent > 0)))
    /\ made' = IF raced' THEN 0 ELSE Limit(r)
    /\ spent' = IF value = NoKey \/ raced' THEN 0 ELSE spent
    /\ resent' = IF value = NoKey \/ raced' THEN 0 ELSE resent

\* The key was missing: it is made, if Redis is there, and the limit is the answer.
Create(r) ==
    /\ pc[r] \in {"admitNew", "routeNew"}
    /\ Decide(r, Limit(r))
    /\ \/ redisUp /\ SetBudget(r) /\ Moved(Ignorant \ {r}) /\ UNCHANGED blind
       \/ /\ ~redisUp /\ blind < MaxBlind
          /\ blind' = blind + 1
          /\ Knows(r)
          /\ UNCHANGED <<key, books>>
    /\ UNCHANGED <<now, redisUp, faults>>

\* SETEX is obeyed and its reply lost: the client will send it again.
CreateAgain(r) ==
    /\ pc[r] \in {"admitNew", "routeNew", "create"}
    /\ redisUp /\ faults < MaxFaults
    /\ faults' = faults + 1
    /\ SetBudget(r) /\ Moved(Ignorant \cup {r})
    /\ UNCHANGED <<now, redisUp, request, blind>>

----------------------------------------------------------------------------
(* The call and what it costs.                                              *)

\* Every provider failed, or the request timed out.
CallFails(r) ==
    /\ pc[r] = "call"
    /\ Answer(r)
    /\ UNCHANGED <<key, now, redisUp, faults, books, fresh, blind>>

\* deduct_cost: "ollama" is no name of the catalogue and costs nothing.
CallSucceeds(r) ==
    /\ pc[r] = "call"
    /\ \/ \E c \in Charges :
              /\ pc' = [pc EXCEPT ![r] = "exists"]
              /\ charge' = [charge EXCEPT ![r] = c]
              /\ UNCHANGED <<kind, tier>>
       \/ "ollama" \in Configured /\ AfterReply(r)
    /\ UNCHANGED <<key, now, redisUp, faults, books, fresh, blind>>

\* Mutation: the key is made whether it exists or not.
ExistsIgnored(r) ==
    /\ pc[r] = "exists"
    /\ Goto(r, "create")
    /\ Knows(r)
    /\ UNCHANGED <<key, now, redisUp, faults, books, blind>>

\* _deduct_budget: EXISTS
Exists(r) ==
    /\ pc[r] = "exists"
    /\ Goto(r, IF redisUp /\ value # NoKey THEN "incr" ELSE "create")
    /\ Knows(r)
    /\ UNCHANGED <<key, now, redisUp, faults, books, blind>>

CreateFirst(r) ==
    /\ pc[r] = "create"
    /\ Goto(r, "incr")
    /\ IF redisUp
       THEN SetBudget(r) /\ Moved(Ignorant \ {r})
       ELSE UNCHANGED <<key, books, fresh>>
    /\ UNCHANGED <<now, redisUp, faults, blind>>

\* INCRBYFLOAT makes a key that is missing, without an expiry.
Deduct(r) ==
    /\ value' = (IF value = NoKey THEN 0 ELSE value) - charge[r]
    /\ raced' = (raced \/ (value = NoKey /\ ~fresh[r]))
    /\ made' = IF raced' THEN 0 ELSE made
    /\ Moved(Ignorant \ {r})
    /\ UNCHANGED ttl

Incr(r) ==
    /\ pc[r] = "incr"
    /\ AfterReply(r)
    /\ IF redisUp
       THEN /\ Deduct(r)
            /\ spent' = IF raced' THEN 0 ELSE spent + charge[r]
       ELSE /\ raced' = TRUE /\ made' = 0 /\ spent' = 0
            /\ Knows(r)
            /\ UNCHANGED key
    /\ UNCHANGED <<now, redisUp, faults, resent, blind>>

\* INCRBYFLOAT is obeyed and its reply lost: the client will send it again.
IncrAgain(r) ==
    /\ pc[r] = "incr"
    /\ redisUp /\ faults < MaxFaults
    /\ faults' = faults + 1
    /\ Deduct(r)
    /\ resent' = resent + charge[r]
    /\ spent' = IF raced' THEN 0 ELSE spent
    /\ UNCHANGED <<now, redisUp, request, blind>>

\* ModelRouter.stream() and the direct calls of Gemini deduct nothing.
ReplyEnds(r) ==
    /\ pc[r] \in {"stream", "direct"}
    /\ \/ AfterReply(r)
       \/ Answer(r)
       \/ pc[r] = "stream" /\ Goto(r, "route")   \* it falls back to route()
    /\ UNCHANGED <<key, now, redisUp, faults, books, fresh, blind>>

----------------------------------------------------------------------------
(* Time and Redis.                                                          *)

Expire ==
    /\ value' = NoKey /\ ttl' = NoTTL
    /\ made' = 0 /\ spent' = 0 /\ resent' = 0 /\ raced' = FALSE /\ blind' = 0
    /\ Moved(Stale)

Tick ==
    /\ now' = (now + 1) % (Days * DayLength)
    /\ CASE ttl = NoTTL -> UNCHANGED <<key, books, blind, fresh>>
         [] ttl = 1 -> Expire
         [] OTHER -> ttl' = ttl - 1 /\ UNCHANGED <<value, books, blind, fresh>>
    /\ UNCHANGED <<redisUp, request, faults>>

RedisFlips ==
    /\ redisUp => faults < MaxFaults
    /\ faults' = IF redisUp THEN faults + 1 ELSE faults
    /\ redisUp' = ~redisUp
    /\ Moved(Stale)
    /\ UNCHANGED <<key, now, request, books, blind>>

Next ==
    \/ \E r \in Requests :
           \/ Start(r) \/ Look(r) \/ Create(r) \/ CallFails(r) \/ CallSucceeds(r)
           \/ Exists(r) \/ CreateFirst(r) \/ Incr(r) \/ ReplyEnds(r)
           \/ CreateAgain(r) \/ IncrAgain(r)
    \/ Tick \/ RedisFlips

Spec == Init /\ [][Next]_vars

\* Time passes.
FairSpec == Spec /\ WF_vars(Tick)

----------------------------------------------------------------------------
Places == {"idle", "admit", "admitNew", "route", "routeNew", "call", "stream", "direct"}
          \cup Deducting

\* The type of the state: the key is missing, or holds an amount.
TypeOK ==
    /\ value \in Int \cup {NoKey} /\ ttl \in (Nat \ {0}) \cup {NoTTL}
    /\ now \in Nat
    /\ redisUp \in BOOLEAN /\ raced \in BOOLEAN
    /\ pc \in [Requests -> Places]
    /\ kind \in [Requests -> Kinds] /\ tier \in [Requests -> Tiers \cup {"free"}]
    /\ charge \in [Requests -> 0 .. MaxCharge]
    /\ fresh \in [Requests -> BOOLEAN]
    /\ faults \in Nat /\ blind \in Nat
    /\ made \in Nat /\ spent \in Nat /\ resent \in Nat

\* How many deductions request r may still make without another check.
Pending(r) ==
    CASE pc[r] \in {"call"} \cup Deducting ->
             IF kind[r] \in Chatting THEN 2 ELSE 1
      [] pc[r] \in {"stream", "direct"} -> 1
      [] OTHER -> 0

Settled == {x \in Requests \X (1 .. 2) : x[2] > Pending(x[1])}

\* The budget is checked before a call and deducted after it, by requests that do
\* not know of each other, and a chat's fact extraction is not checked at all: the
\* key still never falls below the charges that were not pending when it was last
\* positive - two for a request, and two for each admitted without Redis - but for what
\* was deducted again because a reply was lost.
OverspendBounded ==
    value # NoKey =>
        value + resent >= - MaxCharge * (Cardinality(Settled) + 2 * blind)

\* As long as Redis answers and nobody makes the key over another's deductions, or
\* deducts as it expires, the key holds the limit of the tier it was made with, less all
\* that was deducted, once or, where a reply was lost, again.
BooksBalance ==
    value # NoKey /\ ~raced => value = made - (spent + resent)

\* A budget runs out for a month, not for good: the key expires, unless an
\* increment met it missing.
Renewed ==
    [](value # NoKey /\ ~raced => <>(value = NoKey \/ raced))

\* What route() makes of the budget of this moment, for every question and tier: it rejects
\* exactly when no model at hand fits, chooses one that does, and the one the
\* question asks for when that fits.
RouteSound ==
    LET models == AvailableModels(Configured)
        budget(t) == IF value = NoKey THEN LimitOf(t) ELSE value
    IN  \A q \in Questions, t \in Tiers :
            LET affordable == Affordable(models, budget(t), Tokens)
                wanted == SelectByComplexity(Score(q), models)
                decision == Decision(Score(q), models, budget(t), Tokens)
            IN  /\ decision.rejected <=> affordable = {}
                /\ ~decision.rejected => decision.model \in affordable
                /\ wanted \in affordable => decision = Chosen(wanted)

\* _init_budget makes the key with a "TTL until end of month": it expires as a
\* month begins.
ExpiresAtMonthEnd ==
    [][value # NoKey /\ value' = NoKey => now' = 0]_vars
=============================================================================
