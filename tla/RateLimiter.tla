---------------------------- MODULE RateLimiter ----------------------------
(***************************************************************************)
(* The sliding window rate limiter of rate_limiter.py: the decorator that  *)
(* checks a request against its user, IP and hour buckets, the Lua script  *)
(* that Redis runs on a bucket, the Redis facade that answers None instead *)
(* of raising, and the reset an administrator asks for.                    *)
(*                                                                         *)
(* A check is two steps, because time.time() is read before the EVAL is    *)
(* sent: scripts of different threads and replicas reach Redis in an order *)
(* that need not be the order of their stamps.  redis-py sends an EVAL     *)
(* again when its reply is lost, and the script is not idempotent.         *)
(***************************************************************************)
EXTENDS Integers, FiniteSets

CONSTANTS
    Requests,        \* request slots; a slot serves one request
    Users,           \* user-level identifiers (user:, apikey: or anon:)
    IPs,             \* client addresses
    Procs,           \* server processes; id(request) is one value per process
    Sender,          \* Sender[r]: the user, IP and process of request r
    Limit,           \* Limit[u]: the requests per minute granted to u
    IpMultiplier,    \* ip_limit_multiplier
    HourLimit,       \* requests_per_hour
    HourlyChecked,   \* whether the route sets requests_per_hour
    FailClosed,      \* block_on_redis_failure
    Second,          \* ticks per second: stamps are fractions of a second
    MinuteWindow,    \* 60 seconds, in ticks
    HourWindow,      \* 3600 seconds, in ticks
    MaxDelay,        \* bound on the ticks between time.time() and its EVAL
    MaxTries,        \* times redis-py sends one EVAL
    MaxTime          \* bound on the clock

ASSUME UsersAssumption == Users # {}

ASSUME SenderAssumption ==
    Sender \in [Requests -> [user : Users, ip : IPs, proc : Procs]]

ASSUME LimitAssumption ==
    /\ Limit \in [Users -> Nat]
    /\ IpMultiplier \in Nat
    /\ HourLimit \in Nat

\* MaxDelay stands for redis_socket_timeout (5 s) and its three retries.
ASSUME TimeAssumption ==
    /\ Second \in Nat \ {0}
    /\ MinuteWindow \in Nat /\ MaxDelay < MinuteWindow
    /\ HourWindow \in Nat /\ MaxDelay < HourWindow
    /\ MaxDelay \in Nat /\ MaxTries \in Nat \ {0} /\ MaxTime \in Nat

VARIABLES
    now,             \* the clock every process and Redis read
    redisUp,         \* whether the processes can reach Redis
    zset,            \* zset[b]: the sorted set of bucket b, members <<stamp, proc>>
    expires,         \* expires[b]: when Redis drops the key of bucket b
    pc,              \* pc[r]: where the handler of r is
    stage,           \* stage[r]: the bucket it is checking
    stamp,           \* stamp[r]: the `now` of the current check
    tries,           \* tries[r]: EVALs of the current check whose reply was lost
    log              \* log[b]: history of the slots that b granted, since its last
                     \* reset, less than CountedFor(b) ticks ago

redisVars   == <<redisUp, zset, expires>>
requestVars == <<pc, stage, stamp, tries>>
vars == <<now, redisUp, zset, expires, pc, stage, stamp, tries, log>>

----------------------------------------------------------------------------
(* Buckets, their windows and the limits callers apply to them.            *)

Buckets == ({"user", "hour"} \X Users) \cup ({"ip"} \X IPs)

Ids == (0 .. MaxTime) \X Procs

BucketOf(c, s) == IF s = "ip" THEN <<s, c.ip>> ELSE <<s, c.user>>

Window(b) == IF b[1] = "hour" THEN HourWindow ELSE MinuteWindow

\* How long an admission counts for sure.  An entry carries the time its request
\* was stamped, so the window can lose up to MaxDelay at its end.
CountedFor(b) == Window(b) - MaxDelay

LimitOf(u, s) == CASE s = "user" -> Limit[u]
                   [] s = "ip"   -> Limit[u] * IpMultiplier
                   [] s = "hour" -> HourLimit

\* Every limit some caller may bring to bucket b.  An IP's bucket is shared by
\* users of different limits.
LimitsOn(b) == IF b[1] = "ip" THEN {LimitOf(u, "ip") : u \in Users}
                              ELSE {LimitOf(b[2], b[1])}

Bucket(r) == BucketOf(Sender[r], stage[r])

MyLimit(r) == LimitOf(Sender[r].user, stage[r])

RequestId(r) == <<stamp[r], Sender[r].proc>>

\* What follows the check of stage s once it allowed the request.
AfterCheck(s) == CASE s = "user" -> "ip"
                   [] s = "ip"   -> IF HourlyChecked THEN "hour" ELSE "none"
                   [] s = "hour" -> "none"

----------------------------------------------------------------------------
(* The Lua script.                                                         *)

\* Mutation: the window is half open on the wrong side.
PurgedEarly(b, t) == {m \in zset[b] : m[1] > t - Window(b) + 1}

\* ZREMRANGEBYSCORE key 0 now-window
Purged(b, t) == {m \in zset[b] : m[1] > t - Window(b)}

Oldest(S) == CHOOSE x \in {m[1] : m \in S} : \A m \in S : x <= m[1]

\* The script returns a Lua number, which Redis cuts to whole seconds.
OldestReplied(S) == Second * (Oldest(S) \div Second)

\* Mutation: the moment of the reset, not the time until it.
RetryMoment(S, w, t) ==
    IF S = {} THEN w \div Second ELSE (OldestReplied(S) + w) \div Second + 1

\* retry_after = max(1, int((oldest_score + window_seconds) - now) + 1).  (int() cuts
\* towards 0 and \div downwards, which the max hides.)
RetrySeconds(S, w, t) ==
    LET rest == (OldestReplied(S) + w - t) \div Second
    IN  IF S = {} THEN w \div Second ELSE IF rest > 0 THEN rest + 1 ELSE 1

\* Mutation: `count <= limit`.
HasRoomOffByOne(S, l) == Cardinality(S) <= l

\* if count < limit
HasRoom(S, l) == Cardinality(S) < l

\* The script's effect on the bucket of r, whatever becomes of its reply.
RunScript(r) ==
    LET b    == Bucket(r)
        kept == Purged(b, stamp[r])
    IN  IF HasRoom(kept, MyLimit(r))
        THEN /\ zset' = [zset EXCEPT ![b] = kept \cup {RequestId(r)}]
             /\ expires' = [expires EXCEPT ![b] = now + Window(b) + Second]
             /\ log' = [log EXCEPT ![b] =
                           @ \cup {[id |-> RequestId(r), at |-> now]}]
        ELSE /\ zset' = [zset EXCEPT ![b] = kept]
             /\ UNCHANGED <<expires, log>>

\* The request is answered: its locals die.
Answer(r, how) ==
    /\ pc' = [pc EXCEPT ![r] = how]
    /\ stage' = [stage EXCEPT ![r] = "user"]
    /\ stamp' = [stamp EXCEPT ![r] = 0]
    /\ tries' = [tries EXCEPT ![r] = 0]

\* now = time.time(), also the first half of the request id, opens the check of
\* bucket kind s.  Nothing is read or sent between the reply of one check and
\* the stamp of the next.
BeginCheck(r, s) ==
    /\ pc' = [pc EXCEPT ![r] = "eval"]
    /\ stage' = [stage EXCEPT ![r] = s]
    /\ stamp' = [stamp EXCEPT ![r] = now]
    /\ tries' = [tries EXCEPT ![r] = 0]

\* The check of r allowed it: go on to the next bucket, or run the handler.
Proceed(r) ==
    LET next == AfterCheck(stage[r])
    IN  IF next = "none" THEN Answer(r, "served") ELSE BeginCheck(r, next)

----------------------------------------------------------------------------
Init ==
    /\ now = 0
    /\ redisUp = TRUE
    /\ zset = [b \in Buckets |-> {}]
    /\ expires = [b \in Buckets |-> 0]
    /\ pc = [r \in Requests |-> "idle"]
    /\ stage = [r \in Requests |-> "user"]
    /\ stamp = [r \in Requests |-> 0]
    /\ tries = [r \in Requests |-> 0]
    /\ log = [b \in Buckets |-> {}]

\* A request enters the decorator.  `redis is None` never holds: the facade of
\* redis_client.py exists even while Redis is down, and its ping() returns
\* False instead of raising.
Arrive(r) ==
    /\ pc[r] = "idle"
    /\ BeginCheck(r, "user")
    /\ UNCHANGED <<now, redisVars, log>>

InWindow(r) == Purged(Bucket(r), stamp[r])

EvalAllowed(r) ==
    /\ pc[r] = "eval" /\ redisUp
    /\ HasRoom(InWindow(r), MyLimit(r))
    /\ RunScript(r)
    /\ Proceed(r)
    /\ UNCHANGED <<now, redisUp>>

EvalDenied(r) ==
    /\ pc[r] = "eval" /\ redisUp
    /\ ~HasRoom(InWindow(r), MyLimit(r))
    /\ RunScript(r)
    /\ Answer(r, "denied")
    /\ UNCHANGED <<now, redisUp>>

\* Mutation: one resend too many.
MayResendOnceMore(r) == tries[r] < MaxTries

MayResend(r) == tries[r] + 1 < MaxTries

\* The EVAL or its reply was lost: the script ran or it did not.
Lost(r) == RunScript(r) \/ UNCHANGED <<zset, expires, log>>

\* redis-py sends it again.
EvalResent(r) ==
    /\ pc[r] = "eval" /\ redisUp
    /\ MayResend(r)
    /\ Lost(r)
    /\ tries' = [tries EXCEPT ![r] = @ + 1]
    /\ UNCHANGED <<now, redisUp, pc, stage, stamp>>

\* The last one was lost: the facade returns None, result[0] raises, and the
\* except branch lets the request through whatever FailClosed says.
EvalGivenUp(r) ==
    /\ pc[r] = "eval" /\ redisUp
    /\ ~MayResend(r)
    /\ Lost(r)
    /\ Proceed(r)
    /\ UNCHANGED <<now, redisUp>>

\* Redis cannot be reached: the same None, the same except branch.
EvalUnreachable(r) ==
    /\ pc[r] = "eval" /\ ~redisUp
    /\ Proceed(r)
    /\ UNCHANGED <<now, redisVars, log>>

Step(r) ==
    \/ EvalAllowed(r)
    \/ EvalDenied(r)
    \/ EvalResent(r)
    \/ EvalGivenUp(r)
    \/ EvalUnreachable(r)

----------------------------------------------------------------------------
\* reset_user_rate_limit: KEYS rl:*:*:user:<u>, then DELETE what it found.  A
\* bucket filled between the two survives.  (During an outage the facade answers
\* [] and 0: nothing is deleted, and the caller still reports success.)
Reset(u) ==
    /\ redisUp
    /\ \E found \in SUBSET {b \in {"user", "hour"} \X {u} : zset[b] # {}} :
        /\ zset' = [b \in Buckets |-> IF b \in found THEN {} ELSE zset[b]]
        /\ log'  = [b \in Buckets |-> IF b \in found THEN {} ELSE log[b]]
        /\ UNCHANGED <<now, redisUp, expires, requestVars>>

----------------------------------------------------------------------------
(* The environment: outages (the data survives, Redis runs with appendonly) *)
(* and time, which no EVAL outlives by more than MaxDelay.                   *)

Outage ==
    /\ redisUp
    /\ redisUp' = FALSE
    /\ UNCHANGED <<now, zset, expires, requestVars, log>>

Recovery ==
    /\ ~redisUp
    /\ redisUp' = TRUE
    /\ UNCHANGED <<now, zset, expires, requestVars, log>>

Tick ==
    /\ now < MaxTime
    /\ \A r \in Requests : pc[r] = "eval" => now < stamp[r] + MaxDelay
    /\ now' = now + 1
    /\ zset' = [b \in Buckets |-> IF expires[b] <= now + 1 THEN {} ELSE zset[b]]
    /\ expires' = [b \in Buckets |-> IF expires[b] <= now + 1 THEN 0 ELSE expires[b]]
    /\ log' = [b \in Buckets |-> {e \in log[b] : e.at > now + 1 - CountedFor(b)}]
    /\ UNCHANGED <<redisUp, requestVars>>

Next ==
    \/ \E r \in Requests : Arrive(r) \/ Step(r)
    \/ \E u \in Users : Reset(u)
    \/ Outage \/ Recovery \/ Tick

Spec == Init /\ [][Next]_vars

----------------------------------------------------------------------------
(* Properties.                                                              *)

TypeOK ==
    /\ now \in 0 .. MaxTime
    /\ redisUp \in BOOLEAN
    /\ zset \in [Buckets -> SUBSET Ids]
    /\ expires \in [Buckets -> Nat]
    /\ pc \in [Requests -> {"idle", "eval", "served", "denied"}]
    /\ stage \in [Requests -> {"user", "ip", "hour"}]
    /\ stamp \in [Requests -> 0 .. MaxTime]
    /\ tries \in [Requests -> 0 .. MaxTries - 1]
    /\ log \in [Buckets -> SUBSET [id : Ids, at : Nat]]

Promise == INSTANCE SlidingWindow
               WITH Limits <- [b \in Buckets |-> LimitsOn(b)],
                    Span   <- [b \in Buckets |-> CountedFor(b)]

PromiseSpec == Promise!Spec

\* In any stretch of CountedFor(b) ticks, bucket b admits no more request ids
\* than a limit that applies to it, however stamps, resends, key expiries and
\* outages interleave (_check_rate_limit, _SLIDING_WINDOW_SCRIPT).
SlotsWithinLimit ==
    \A b \in Buckets : \E l \in LimitsOn(b) :
        Cardinality({e.id : e \in log[b]}) <= l

\* Whether a bucket that is left with entries S, and to which nobody is admitted, has a
\* slot at time t, with windows of w ticks and limit l.
FreeAt(S, w, t, l) == HasRoom({m \in S : m[1] > t - w}, l)

\* A denial on a bucket of the caller's own.
DeniedByOwn(r) ==
    /\ pc[r] = "eval" /\ pc'[r] = "denied"
    /\ stage[r] # "ip" /\ MyLimit(r) > 0

\* When the Retry-After of that denial has run out.
BackAt(r) ==
    stamp[r] + Second * RetrySeconds(InWindow(r), Window(Bucket(r)), stamp[r])

\* The Retry-After is off by a second at most, however the stamp of the oldest entry
\* was cut: whoever is denied on a bucket of its own and waits for a second more than it
\* is told finds a free slot, if nobody took it meanwhile, and nobody finds one more
\* than a second earlier than told.  (On an IP's bucket, which callers with larger
\* limits share, the first half is false.)
RetryAfterHonest ==
    [][\A r \in Requests : DeniedByOwn(r) =>
          LET left == zset'[Bucket(r)]
              w    == Window(Bucket(r))
          IN  /\ FreeAt(left, w, BackAt(r) + Second, MyLimit(r))
              /\ ~FreeAt(left, w, BackAt(r) - Second - 1, MyLimit(r))]_vars

\* "Please retry after {retry_after} seconds": a slot is free then.
RetryAfterSuffices ==
    [][\A r \in Requests : DeniedByOwn(r) =>
          FreeAt(zset'[Bucket(r)], Window(Bucket(r)), BackAt(r), MyLimit(r))]_vars

\* limit_auth asks to fail closed: while Redis is down no check lets a request
\* through.
FailClosedBlocks ==
    [][FailClosed => \A r \in Requests :
          pc[r] = "eval" /\ ~redisUp => UNCHANGED <<pc[r], stage[r]>>]_vars
=============================================================================
