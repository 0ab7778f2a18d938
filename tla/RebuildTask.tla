---------------------------- MODULE RebuildTask ----------------------------
(***************************************************************************)
(* The rebuild_rag_index task of background_tasks.py for one user: the     *)
(* Celery messages that ask for it (acknowledged late, put back when a     *)
(* worker dies), the Redis lock that keeps two of them from running at     *)
(* once, its retries, and the time limits of celery_app.py and config.py.  *)
(*                                                                         *)
(* The clock is relative: a running task has an age, a lock a time to      *)
(* live.  Celery itself is modelled from its documented settings.          *)
(***************************************************************************)
EXTENDS Integers, FiniteSets

CONSTANTS
    Tasks,           \* rebuild_rag_index.delay(user) calls
    Workers,         \* processes of the Celery pools
    MaxRetries,      \* max_retries of the task
    HardLimit,       \* celery_task_time_limit, in ticks
    LockTimeout,     \* RedisLock's timeout, in ticks
    MaxCrashes,      \* bound on worker deaths
    MaxLost,         \* bound on lost replies of Redis
    NoWorker

\* 300 s each: config.py:181-183 and background_tasks.py:134.
ASSUME LimitsAssumption ==
    /\ MaxRetries \in Nat /\ MaxCrashes \in Nat /\ MaxLost \in Nat
    /\ HardLimit \in Nat \ {0} /\ LockTimeout \in Nat
    /\ HardLimit <= LockTimeout

ASSUME NoWorkerAssumption == NoWorker \notin Workers

VARIABLES
    queue,           \* queue[<<t, k>>]: messages waiting for task t, retry k
    msg,             \* msg[w]: the unacknowledged message of w, or NoMessage
    phase,           \* phase[w]: where the task body of w is
    age,             \* age[w]: ticks since w started it
    lockBy,          \* the worker whose SET created the lock key, or NoWorker
    ttl,             \* its remaining time to live
    collection,      \* whether the user's collection exists in Qdrant
    reachable,       \* whether the workers can reach Redis
    crashes, lost,
    settled          \* settled[t]: history, how messages of t left the queue

lock == <<lockBy, ttl>>
mishaps == <<reachable, crashes, lost>>
taskVars == <<queue, msg, phase, age, lockBy, ttl, collection, reachable, crashes,
              lost, settled>>

Messages == Tasks \X (0 .. MaxRetries)

NoMessage == <<>>

Busy(w) == phase[w] # "idle"

\* Between a successful acquire() and the end of release().
Inside(w) == phase[w] \in {"checking", "creating", "releasing", "retrying", "failing"}

Results == {"success", "error", "skipped", "retried"}

----------------------------------------------------------------------------
InitTasks ==
    /\ queue = [m \in Messages |-> IF m[2] = 0 THEN 1 ELSE 0]
    /\ msg = [w \in Workers |-> NoMessage]
    /\ phase = [w \in Workers |-> "idle"]
    /\ age = [w \in Workers |-> 0]
    /\ lockBy = NoWorker
    /\ ttl = 0
    /\ collection = FALSE
    /\ reachable = TRUE
    /\ crashes = 0
    /\ lost = 0
    /\ settled = [t \in Tasks |-> {}]

Goto(w, p) == phase' = [phase EXCEPT ![w] = p]

\* The body returned or raised; Celery acknowledges the message.
Settle(w, result) ==
    /\ settled' = [settled EXCEPT ![msg[w][1]] = @ \cup {result}]
    /\ Goto(w, "idle")
    /\ msg' = [msg EXCEPT ![w] = NoMessage]
    /\ age' = [age EXCEPT ![w] = 0]

Receive(w) ==
    /\ phase[w] = "idle"
    /\ \E m \in Messages :
        /\ queue[m] > 0
        /\ queue' = [queue EXCEPT ![m] = @ - 1]
        /\ msg' = [msg EXCEPT ![w] = m]
    /\ Goto(w, "starting")
    /\ UNCHANGED <<age, lock, collection, mishaps, settled>>

----------------------------------------------------------------------------
(* RedisLock.acquire: SET lock:rag_rebuild:<user> 1 NX EX 300.              *)

LockFree == lockBy = NoWorker

\* Mutation: SET without NX.
SetLockAnyway(w) == lockBy' = w /\ ttl' = LockTimeout

SetLock(w) == LockFree /\ lockBy' = w /\ ttl' = LockTimeout

Acquire(w) ==
    /\ phase[w] = "starting"
    /\ reachable
    /\ SetLock(w)
    /\ Goto(w, "checking")
    /\ UNCHANGED <<queue, msg, age, collection, mishaps, settled>>

\* The reply of the SET is lost and redis-py sends it again: it meets its own
\* key, and the task believes another one is running.
AcquireReplyLost(w) ==
    /\ phase[w] = "starting"
    /\ reachable
    /\ lost < MaxLost
    /\ lost' = lost + 1
    /\ SetLock(w)
    /\ Settle(w, "skipped")
    /\ UNCHANGED <<queue, collection, reachable, crashes>>

\* "already_running": the key exists, or Redis is down and the facade's set()
\* answers False.  release() is not called.
Skip(w) ==
    /\ phase[w] = "starting"
    /\ ~LockFree \/ ~reachable
    /\ Settle(w, "skipped")
    /\ UNCHANGED <<queue, lock, collection, mishaps>>

----------------------------------------------------------------------------
(* The body of the try statement, and its except and finally clauses.       *)

\* get_collections
Check(w) ==
    /\ phase[w] = "checking"
    /\ Goto(w, IF collection THEN "releasing" ELSE "creating")
    /\ UNCHANGED <<queue, msg, age, lock, collection, mishaps, settled>>

\* create_collection, which raises when the collection exists
Create(w) ==
    /\ phase[w] = "creating"
    /\ ~collection
    /\ collection' = TRUE
    /\ Goto(w, "releasing")
    /\ UNCHANGED <<queue, msg, age, lock, mishaps, settled>>

\* Mutation: the retry does not count up.
RetriedForever(m) == m

\* The message self.retry() sends for m.
Retried(m) == <<m[1], m[2] + 1>>

MayRetry(m) == m[2] < MaxRetries

\* Any exception in the body, SoftTimeLimitExceeded among them: self.retry()
\* sends the message of the next retry, and the finally clause still runs.
BodyFailsAndRetries(w) ==
    /\ phase[w] \in {"checking", "creating"}
    /\ MayRetry(msg[w])
    /\ queue' = [queue EXCEPT ![Retried(msg[w])] = @ + 1]
    /\ Goto(w, "retrying")
    /\ UNCHANGED <<msg, age, lock, collection, mishaps, settled>>

\* After the last one, self.retry(exc=exc) raises exc itself.
BodyFailsForGood(w) ==
    /\ phase[w] \in {"checking", "creating"}
    /\ ~MayRetry(msg[w])
    /\ Goto(w, "failing")
    /\ UNCHANGED <<queue, msg, age, lock, collection, mishaps, settled>>

\* How the body went, by the phase its finally clause runs in.
Result(w) == CASE phase[w] = "releasing" -> "success"
               [] phase[w] = "retrying"  -> "retried"
               [] phase[w] = "failing"   -> "error"

DeleteLock == lockBy' = NoWorker /\ ttl' = 0

\* DELETE of the key, whoever holds it; the key survives when Redis cannot be
\* reached.
Release(w) ==
    /\ phase[w] \in {"releasing", "retrying", "failing"}
    /\ IF reachable THEN DeleteLock ELSE UNCHANGED lock
    /\ Settle(w, Result(w))
    /\ UNCHANGED <<queue, collection, mishaps>>

\* The reply of the DELETE is lost and redis-py is about to send it again.
ReleaseReplyLost(w) ==
    /\ phase[w] \in {"releasing", "retrying", "failing"}
    /\ reachable
    /\ lost < MaxLost
    /\ lost' = lost + 1
    /\ DeleteLock
    /\ UNCHANGED <<queue, msg, phase, age, collection, reachable, crashes, settled>>

----------------------------------------------------------------------------
(* Faults, limits and time.                                                 *)

\* Mutation: acks_late or reject_on_worker_lost is off.
Forget(m) == UNCHANGED queue

\* task_reject_on_worker_lost
PutBack(m) == queue' = [queue EXCEPT ![m] = @ + 1]

\* The worker process dies: its message is put back, its lock stays.
WorkerDies(w) ==
    /\ Busy(w)
    /\ crashes < MaxCrashes
    /\ crashes' = crashes + 1
    /\ PutBack(msg[w])
    /\ Goto(w, "idle")
    /\ msg' = [msg EXCEPT ![w] = NoMessage]
    /\ age' = [age EXCEPT ![w] = 0]
    /\ UNCHANGED <<lock, collection, reachable, lost, settled>>

LosesRedis ==
    /\ reachable
    /\ reachable' = FALSE
    /\ UNCHANGED <<queue, msg, phase, age, lock, collection, crashes, lost, settled>>

FindsRedis ==
    /\ ~reachable
    /\ reachable' = TRUE
    /\ UNCHANGED <<queue, msg, phase, age, lock, collection, crashes, lost, settled>>

\* Mutation: the hard limit is a tick later than the lock's timeout allows.
OverLimitLate(w) == Busy(w) /\ age[w] > LockTimeout

\* The worker has used up its time limit.
OverLimit(w) == Busy(w) /\ age[w] + 1 >= HardLimit

\* Mutation: SET without EX.
KeyStays == FALSE

\* The lock's time to live ends.
KeyExpires == ttl <= 1

\* A task at its hard limit is killed and its message acknowledged as failed
\* (acks_on_failure_or_timeout); a key at its timeout expires.  The lock was set
\* after the task started, so with equal limits the kill comes first.
Tick ==
    /\ \E w \in Workers : Busy(w)
       \/ ~LockFree
    /\ settled' = [t \in Tasks |->
           IF \E w \in Workers : OverLimit(w) /\ msg[w][1] = t
           THEN settled[t] \cup {"error"} ELSE settled[t]]
    /\ msg' = [w \in Workers |-> IF OverLimit(w) THEN NoMessage ELSE msg[w]]
    /\ phase' = [w \in Workers |-> IF OverLimit(w) THEN "idle" ELSE phase[w]]
    /\ age' = [w \in Workers |-> IF Busy(w) /\ ~OverLimit(w) THEN age[w] + 1 ELSE 0]
    /\ lockBy' = IF KeyExpires THEN NoWorker ELSE lockBy
    /\ ttl' = IF ttl <= 1 THEN 0 ELSE ttl - 1
    /\ UNCHANGED <<queue, collection, mishaps>>

Work(w) ==
    \/ Receive(w) \/ Acquire(w) \/ AcquireReplyLost(w) \/ Skip(w)
    \/ Check(w) \/ Create(w)
    \/ BodyFailsAndRetries(w) \/ BodyFailsForGood(w)
    \/ Release(w) \/ ReleaseReplyLost(w)

NextTask ==
    \/ \E w \in Workers : Work(w) \/ WorkerDies(w)
    \/ LosesRedis \/ FindsRedis \/ Tick

TaskSpec == InitTasks /\ [][NextTask]_taskVars

\* An idle worker takes a waiting message, and time passes.  No step of a task
\* body is assumed: a body that hangs is killed at its limit.
FairTaskSpec ==
    /\ TaskSpec
    /\ \A w \in Workers : WF_taskVars(Receive(w))
    /\ WF_taskVars(Tick)

----------------------------------------------------------------------------
(* Properties.                                                              *)

TaskTypeOK ==
    /\ queue \in [Messages -> Nat]
    /\ msg \in [Workers -> Messages \cup {NoMessage}]
    /\ phase \in [Workers -> {"idle", "starting", "checking", "creating",
                              "releasing", "retrying", "failing"}]
    /\ age \in [Workers -> 0 .. HardLimit - 1]
    /\ lockBy \in Workers \cup {NoWorker}
    /\ ttl \in 0 .. LockTimeout
    /\ collection \in BOOLEAN /\ reachable \in BOOLEAN
    /\ crashes \in 0 .. MaxCrashes
    /\ lost \in 0 .. MaxLost
    /\ settled \in [Tasks -> SUBSET Results]

AtMostOneInside == \A v, w \in Workers : Inside(v) /\ Inside(w) => v = w

\* No two rebuilds of a user run at once, and a running one holds the lock:
\* neither crashes, nor redeliveries, nor expiry, nor Redis outages break this, as
\* long as no reply of Redis was lost (RedisLock, task_time_limit).
RebuildsExclusive ==
    lost = 0 => /\ AtMostOneInside
                /\ \A w \in Workers : Inside(w) => lockBy = w

Rebuilding(w) == phase[w] \in {"checking", "creating"}

\* The same without the condition, as the task's docstring has it: "uses Redis
\* distributed lock to prevent concurrent rebuilds for the same user".
ConcurrentRebuildsPrevented ==
    \A v, w \in Workers : Rebuilding(v) /\ Rebuilding(w) => v = w

\* A message of t is queued or being worked on.
Waiting(t) ==
    \/ \E m \in Messages : m[1] = t /\ queue[m] > 0
    \/ \E w \in Workers : Busy(w) /\ msg[w][1] = t

\* No task is lost: until a final verdict was recorded, a message of it waits or
\* runs, whatever crashes (task_acks_late, task_reject_on_worker_lost).
NoTaskLost ==
    \A t \in Tasks : Waiting(t) \/ settled[t] \cap {"success", "error", "skipped"} # {}

\* Every task comes to an end, and the lock of a dead worker to its expiry,
\* whatever bodies hang.
TasksSettle == \A t \in Tasks : <>[]~Waiting(t)

LockExpires == ~LockFree ~> LockFree
=============================================================================
