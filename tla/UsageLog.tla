------------------------------ MODULE UsageLog ------------------------------
(***************************************************************************)
(* What analytics.py records of the tokens a reply took: a row of          *)
(* usage_logs and, in the same transaction, the two counters of the user,  *)
(* which it reads and writes back increased.  Each write runs in a thread  *)
(* of its own that nobody waits for.  A reply counts as one token here; the*)
(* row without tokens that every request adds changes nothing.             *)
(*                                                                         *)
(* A turn of chat() whose reply comes from the model router is written     *)
(* twice: ModelRouter.route() tracks it, and then chat() does.  (Other     *)
(* calls of the router, to extract facts for the memory or by webhooks and *)
(* tasks, are tracked as the first is, by more threads of its kind.)  A run*)
(* of an agent adds a row for the run, on top of those of its model calls, *)
(* and leaves the counters alone.  Old rows are deleted, counters never.   *)
(***************************************************************************)
EXTENDS Integers

CONSTANTS
    Accounts,        \* users, whose counters these are
    Replies,         \* what may be logged
    MaxTasks         \* bound: how often the month ends or old rows are deleted

ASSUME TasksAssumption == MaxTasks \in Nat

VARIABLES
    logged,          \* logged[u]: tokens in the rows of u that are there
    total,           \* total[u]: total_tokens_used
    monthly,         \* monthly[u]: monthly_tokens_used
    writer,          \* writer[w]: where the thread w is
    held,            \* held[w]: the total and the month it read of its user
    tasks,
    tracked,         \* history: tracked[u]: tokens of the replies that were ever logged
    before,          \* history: before[u]: tracked[u] when the month ended last
    stale            \* history: users some write of whose counters was based on stale ones

log == <<logged, tracked>>
counters == <<total, monthly, before, stale>>
usage == <<log, counters, writer, held, tasks>>

\* The threads of a reply: the router's, the route handler's and the agent's.
Writers == Replies \X {"router", "handler", "run"}

InitUsage ==
    /\ logged = [u \in Accounts |-> 0]
    /\ total = [u \in Accounts |-> 0]
    /\ monthly = [u \in Accounts |-> 0]
    /\ writer = [w \in Writers |-> "idle"]
    /\ held = [w \in Writers |-> <<0, 0>>]
    /\ tasks = 0
    /\ tracked = [u \in Accounts |-> 0]
    /\ before = [u \in Accounts |-> 0]
    /\ stale = {}

\* track_llm_usage, track_agent_run: the threads of ws are started.
Track(ws) ==
    /\ writer' = [w \in Writers |-> IF w \in ws THEN "due" ELSE writer[w]]
    /\ UNCHANGED <<log, counters, held, tasks>>

\* _write_usage_log reads the user.
ReadCounters(w, u) ==
    /\ writer[w] = "due" /\ w[2] # "run"
    /\ writer' = [writer EXCEPT ![w] = "read"]
    /\ held' = [held EXCEPT ![w] = <<total[u], monthly[u]>>]
    /\ UNCHANGED <<log, counters, tasks>>

\* Mutation: the counters are committed before the row is, which may fail.
LogsAlone(u) ==
    \/ logged' = [logged EXCEPT ![u] = @ + 1] /\ tracked' = [tracked EXCEPT ![u] = @ + 1]
    \/ UNCHANGED log

Logs(u) ==
    logged' = [logged EXCEPT ![u] = @ + 1] /\ tracked' = [tracked EXCEPT ![u] = @ + 1]

\* It commits the row and the counters, or neither.
CommitUsage(w, u) ==
    /\ writer[w] = "read"
    /\ \/ /\ Logs(u)
          /\ total' = [total EXCEPT ![u] = held[w][1] + 1]
          /\ monthly' = [monthly EXCEPT ![u] = held[w][2] + 1]
          /\ stale' = IF held[w] = <<total[u], monthly[u]>> THEN stale ELSE stale \cup {u}
          /\ UNCHANGED before
       \/ UNCHANGED <<log, counters>>
    /\ writer' = [writer EXCEPT ![w] = "idle"]
    /\ held' = [held EXCEPT ![w] = <<0, 0>>]
    /\ UNCHANGED tasks

\* _write_agent_log: it commits the row of a run, or does not.
CommitRun(w, u) ==
    /\ writer[w] = "due" /\ w[2] = "run"
    /\ logged' \in {logged, [logged EXCEPT ![u] = @ + 1]}
    /\ writer' = [writer EXCEPT ![w] = "idle"]
    /\ UNCHANGED <<tracked, counters, held, tasks>>

\* reset_monthly_token_counters
ResetMonth ==
    /\ tasks < MaxTasks
    /\ tasks' = tasks + 1
    /\ monthly' = [u \in Accounts |-> 0]
    /\ before' = tracked
    /\ UNCHANGED <<log, total, writer, held, stale>>

\* cleanup_old_usage_logs: the rows before some moment.
DeleteOldRows ==
    /\ tasks < MaxTasks
    /\ tasks' = tasks + 1
    /\ \E left \in [Accounts -> UNION {0 .. logged[u] : u \in Accounts}] :
           /\ \A u \in Accounts : left[u] <= logged[u]
           /\ logged' = left
    /\ UNCHANGED <<tracked, counters, writer, held>>

\* However writes of one user overlap, fail or meet the end of the month, the counters
\* never say more than the replies that were ever logged, nor the month more than the
\* lifetime; and while no write has been based on stale counters they agree with those
\* replies, whatever agents add to the log and clean-ups take from it.
CountersFollowLog ==
    \A u \in Accounts :
        /\ monthly[u] <= total[u] /\ total[u] <= tracked[u]
        /\ u \notin stale => total[u] = tracked[u] /\ monthly[u] = tracked[u] - before[u]

\* "Current month token usage (reset monthly)"
MonthlyIsOfThisMonth == \A u \in Accounts : monthly[u] <= tracked[u] - before[u]
=============================================================================
