------------------------------ MODULE AgentRuns ------------------------------
(***************************************************************************)
(* Runs of the agents of agent_loop.py: the ReAct loop of Agent.run(), the *)
(* orchestrator that registers runs, and the request that waits for one.   *)
(*                                                                         *)
(* A run is a coroutine of the process's event loop.  It lets others run   *)
(* only while it waits for its model; its tools block the loop, and so do  *)
(* coroutines that are no runs: streams and the calls of grounded chats,   *)
(* for as long as their provider likes.  The request waits in a thread of  *)
(* its own and gives up after agent_timeout, which does not end the run.   *)
(***************************************************************************)
EXTENDS AgentTools

CONSTANTS
    Agents,          \* runs
    UserOf,          \* UserOf[a]: whose run a is
    Orchestrated,    \* runs of the orchestrator; the others are chat()'s run_agent()
    Allowed,         \* Allowed[a]: allowed_tools; none given means all
    MaxIterations,
    MaxCalls,        \* bound on the tool calls of one thought
    TotalTimeout,    \* agent_timeout, in ticks
    MemoryLimit,     \* messages kept: 20
    PromptWindow,    \* messages shown to the model: 12
    MaxTime,         \* bound on the clock
    Nobody,
    Others           \* the loop's coroutines that are no runs

ASSUME AgentsAssumption ==
    /\ UserOf \in [Agents -> Users] /\ Orchestrated \subseteq Agents
    /\ Allowed \in [Agents -> (SUBSET Tools) \ {{}}]
    /\ Nobody \notin Agents /\ Others \notin Agents \cup {Nobody}

ASSUME BoundsAssumption ==
    /\ {MaxIterations, PromptWindow, MemoryLimit} \subseteq Nat \ {0}
    /\ {MaxCalls, TotalTimeout, MaxTime} \subseteq Nat
    /\ PromptWindow <= MemoryLimit

VARIABLES
    now,
    loop,            \* the run that holds the event loop, Others or Nobody
    pc,              \* pc[a]: where run a is
    iteration,       \* iteration[a]
    asked,           \* asked[a]: when the request for a began to wait
    started,         \* started[a]: its start_time
    memory,          \* memory[a]: messages, as <<what they are, the iteration>>
    calls,           \* calls[a]: tools of the thought that are still to be called
    wanted,          \* wanted[a]: number of calls the last thought made
    cancelled,       \* runs whose _cancelled is set
    status,          \* status[a]: AgentStatus
    active,          \* _active_runs
    client,          \* client[a]: what the request for a has been told
    used             \* history: used[u][t]: times t's function was called for u

run == <<asked, iteration, started, memory, calls, wanted>>
vars == <<now, loop, pc, run, cancelled, status, active, client, stamps, used>>

Init ==
    /\ now = 0
    /\ loop = Nobody
    /\ pc = [a \in Agents |-> "idle"]
    /\ iteration = [a \in Agents |-> 0]
    /\ asked = [a \in Agents |-> 0]
    /\ started = [a \in Agents |-> 0]
    /\ memory = [a \in Agents |-> <<>>]
    /\ calls = [a \in Agents |-> <<>>]
    /\ wanted = [a \in Agents |-> 0]
    /\ cancelled = {}
    /\ status = [a \in Agents |-> "pending"]
    /\ active = {}
    /\ client = [a \in Agents |-> "none"]
    /\ stamps = NoStamps
    /\ used = NoStamps

Goto(a, place) == pc' = [pc EXCEPT ![a] = place]

\* The last n of a sequence.
LastOf(s, n) == IF Len(s) <= n THEN s ELSE SubSeq(s, Len(s) - n + 1, Len(s))

\* _add_memory
Remember(m, message) == LastOf(Append(m, message), MemoryLimit)

\* Mutation: the first messages are shown.
PromptOldest(m) == SubSeq(m, 1, IF Len(m) < PromptWindow THEN Len(m) ELSE PromptWindow)

\* _build_user_prompt
Prompt(m) == LastOf(m, PromptWindow)

----------------------------------------------------------------------------
\* run_async: the coroutine is scheduled and the request waits.
Ask(a) ==
    /\ pc[a] = "idle"
    /\ Goto(a, "scheduled")
    /\ client' = [client EXCEPT ![a] = "waits"]
    /\ asked' = [asked EXCEPT ![a] = now]
    /\ UNCHANGED <<now, loop, iteration, started, memory, calls, wanted, cancelled, status, active,
                   stamps, used>>

\* The run begins; it is registered first.
Begin(a) ==
    /\ pc[a] = "scheduled" /\ loop = Nobody
    /\ active' = IF a \in Orchestrated THEN active \cup {a} ELSE active
    /\ status' = [status EXCEPT ![a] = "running"]
    /\ started' = [started EXCEPT ![a] = now]
    /\ memory' = [memory EXCEPT ![a] = Remember(<<>>, <<"objective", 0>>)]
    /\ iteration' = [iteration EXCEPT ![a] = 1]
    /\ loop' = a
    /\ Goto(a, "top")
    /\ UNCHANGED <<now, asked, calls, wanted, cancelled, client, stamps, used>>

\* Mutation: a run that failed stays registered.
LeavesOnResult(a, how) == IF how = "failed" THEN active ELSE active \ {a}

\* finally
Leaves(a, how) == active \ {a}

\* _make_result, which sets the status whatever it was, and the request is answered if
\* it still waits.
End(a, how) ==
    /\ Goto(a, "ended")
    /\ status' = [status EXCEPT ![a] = how]
    /\ active' = Leaves(a, how)
    /\ client' = [client EXCEPT ![a] = IF @ = "waits" THEN how ELSE @]
    /\ loop' = Nobody
    /\ iteration' = [iteration EXCEPT ![a] = 0]
    /\ started' = [started EXCEPT ![a] = 0]
    /\ memory' = [memory EXCEPT ![a] = <<>>]
    /\ calls' = [calls EXCEPT ![a] = <<>>]
    /\ wanted' = [wanted EXCEPT ![a] = 0]
    /\ asked' = [asked EXCEPT ![a] = 0]

\* Mutation: the deadline is looked at first.
VerdictLateFirst(a) ==
    IF now - started[a] > TotalTimeout THEN "timeout"
    ELSE IF a \in cancelled THEN "cancelled" ELSE "go"

\* The checks between two iterations, in their order.
Verdict(a) ==
    IF a \in cancelled THEN "cancelled"
    ELSE IF now - started[a] > TotalTimeout THEN "timeout" ELSE "go"

\* The top of the loop: it is left, or the model is asked and the event loop let go.
Top(a) ==
    /\ pc[a] = "top" /\ loop = a
    /\ \/ iteration[a] > MaxIterations /\ End(a, "failed")
       \/ /\ iteration[a] <= MaxIterations
          /\ Verdict(a) # "go" /\ End(a, Verdict(a))
       \/ /\ iteration[a] <= MaxIterations
          /\ Verdict(a) = "go"
          /\ Goto(a, "think")
          /\ loop' = Nobody
          /\ UNCHANGED <<run, status, active, client>>
    /\ UNCHANGED <<now, cancelled, stamps, used>>

\* The names a thought may call: any, whatever the agent may use.
Thoughts == UNION {[1 .. n -> Tools \cup {Unknown}] : n \in 0 .. MaxCalls}

\* The model answers: parse_tool_calls.
Think(a) ==
    /\ pc[a] = "think" /\ loop = Nobody
    /\ \E thought \in Thoughts :
           /\ calls' = [calls EXCEPT ![a] = thought]
           /\ wanted' = [wanted EXCEPT ![a] = Len(thought)]
    /\ memory' = [memory EXCEPT ![a] = Remember(@, <<"thought", iteration[a]>>)]
    /\ loop' = a
    /\ Goto(a, "act")
    /\ UNCHANGED <<now, asked, iteration, started, cancelled, status, active, client,
                   stamps, used>>

\* wait_for gives up: the iteration is spent, nothing is added to the memory.
ThinkTimesOut(a) ==
    /\ pc[a] = "think" /\ loop = Nobody
    /\ iteration' = [iteration EXCEPT ![a] = @ + 1]
    /\ loop' = a
    /\ Goto(a, "top")
    /\ UNCHANGED <<now, asked, started, memory, calls, wanted, cancelled, status, active,
                   client, stamps, used>>

\* No provider answers.
ThinkFails(a) ==
    /\ pc[a] = "think" /\ loop = Nobody
    /\ End(a, "failed")
    /\ UNCHANGED <<now, cancelled, stamps, used>>

\* The next tool of the thought; results are remembered in their order.
CallTool(a) ==
    /\ pc[a] = "act" /\ loop = a /\ calls[a] # <<>>
    /\ LET u == UserOf[a]
           t == Head(calls[a])
       IN  IF t \in Allowed[a]
           THEN /\ Execute(u, t, now)
                /\ used' = IF Runs(u, t, now) THEN [used EXCEPT ![u][t] = Append(@, now)]
                           ELSE used
           ELSE UNCHANGED <<stamps, used>>
    /\ calls' = [calls EXCEPT ![a] = Tail(@)]
    /\ memory' = [memory EXCEPT ![a] = Remember(@, <<"result", iteration[a]>>)]
    /\ UNCHANGED <<now, loop, pc, asked, iteration, started, wanted, cancelled, status,
                   active, client>>

\* The step is recorded.  The thought signals completion, whatever its tools gave, or
\* another iteration follows.
EndIteration(a) ==
    /\ pc[a] = "act" /\ loop = a /\ calls[a] = <<>>
    /\ \/ End(a, "completed")
       \/ /\ iteration' = [iteration EXCEPT ![a] = @ + 1]
          /\ Goto(a, "top")
          /\ UNCHANGED <<loop, asked, started, memory, calls, wanted, status, active,
                         client>>
    /\ UNCHANGED <<now, cancelled, stamps, used>>

----------------------------------------------------------------------------
\* The request's wait is over before the run is: 504.
GiveUp(a) ==
    /\ client[a] = "waits"
    /\ now - asked[a] >= TotalTimeout
    /\ client' = [client EXCEPT ![a] = "late"]
    /\ asked' = [asked EXCEPT ![a] = 0]
    /\ UNCHANGED <<now, loop, pc, iteration, started, memory, calls, wanted, cancelled, status,
                   active, stamps, used>>

\* cancel_run, which the orchestrator offers and no route calls.
Cancel(a) ==
    /\ a \in active
    /\ cancelled' = cancelled \cup {a}
    /\ status' = [status EXCEPT ![a] = "cancelled"]
    /\ UNCHANGED <<now, loop, pc, run, active, client, stamps, used>>

\* A stream, or a chat whose provider is called without an await, holds the loop.
OthersTake ==
    /\ loop = Nobody
    /\ loop' = Others
    /\ UNCHANGED <<now, pc, run, cancelled, status, active, client, stamps, used>>

OthersLetGo ==
    /\ loop = Others
    /\ loop' = Nobody
    /\ UNCHANGED <<now, pc, run, cancelled, status, active, client, stamps, used>>

Tick ==
    /\ now < MaxTime
    /\ now' = now + 1
    /\ UNCHANGED <<loop, pc, run, cancelled, status, active, client, stamps, used>>

\* What a run does when the loop turns to it.
Resume(a) == Begin(a) \/ Think(a) \/ ThinkTimesOut(a) \/ ThinkFails(a)

Step(a) == Resume(a) \/ Top(a) \/ CallTool(a) \/ EndIteration(a)

Next ==
    \/ Tick \/ OthersTake \/ OthersLetGo
    \/ \E a \in Agents : Ask(a) \/ Step(a) \/ GiveUp(a) \/ Cancel(a)

Spec == Init /\ [][Next]_vars

\* The event loop serves its coroutines in turn: a run that is ready again and again when
\* the loop is free is resumed, and it is ready in the end, by wait_for if not before.
\* Nothing is assumed of who holds the loop: neither a tool nor a stream needs to end.
FairSpec ==
    /\ Spec
    /\ \A a \in Agents : SF_vars(Resume(a)) /\ WF_vars(Top(a) \/ EndIteration(a))

----------------------------------------------------------------------------
\* The type of the state.
TypeOK ==
    /\ now \in 0 .. MaxTime /\ loop \in Agents \cup {Nobody, Others}
    /\ pc \in [Agents -> {"idle", "scheduled", "top", "think", "act", "ended"}]
    /\ iteration \in [Agents -> 0 .. MaxIterations + 1]
    /\ asked \in [Agents -> 0 .. MaxTime] /\ started \in [Agents -> 0 .. MaxTime]
    /\ \A a \in Agents : Len(memory[a]) <= MemoryLimit
    /\ calls \in [Agents -> Thoughts] /\ wanted \in [Agents -> 0 .. MaxCalls]
    /\ cancelled \subseteq Orchestrated /\ active \subseteq Orchestrated
    /\ status \in [Agents -> {"pending", "running", "completed", "failed", "timeout",
                              "cancelled"}]
    /\ client \in [Agents -> {"none", "waits", "completed", "failed", "timeout",
                              "cancelled", "late"}]

\* Whatever runs a user has and however long their tools take, no tool's function is
\* called for the user more often in a minute than the tool allows.
ToolLimitHolds ==
    \A u \in Users, t \in Tools, from \in 0 .. MaxTime :
        Cardinality({i \in DOMAIN used[u][t] :
                        used[u][t][i] >= from /\ used[u][t][i] < from + Window})
            <= RateLimit[t]

\* The model is shown all that came of its last thought, the thought and every result,
\* if that is no more than is shown of any memory: nothing limits the calls of a thought.
ResultsSeen ==
    \A a \in Agents : pc[a] = "think" /\ wanted[a] < PromptWindow =>
        LET shown == Prompt(memory[a])
            turn == LastOf(shown, wanted[a] + 1)
        IN  \/ shown = << <<"objective", 0>> >>
            \/ /\ Len(turn) = wanted[a] + 1
               /\ turn[1][1] = "thought"
               /\ \A i \in 2 .. Len(turn) : turn[i] = <<"result", turn[1][2]>>

\* A run that was cancelled asks its model no more; unless the iteration under way
\* ends it, or was the last, it ends as cancelled even when its time is up too.
CancelHolds ==
    [][\A a \in cancelled :
           pc[a] = "top" /\ pc'[a] # "top" =>
               /\ pc'[a] = "ended"
               /\ iteration[a] <= MaxIterations => status'[a] = "cancelled"]_vars

\* Unless a tool, a stream or another call holds the event loop for ever, a run that was
\* asked for ends, whether its model answers, hangs or fails, its request has been
\* answered by then, and the orchestrator has forgotten it.
RunsEnd ==
    []<>(loop = Nobody) =>
        \A a \in Agents : pc[a] = "scheduled" ~>
            pc[a] = "ended" /\ a \notin active /\ client[a] # "waits"

\* "Cancel the agent run gracefully."
CancelledIsReported ==
    \A a \in cancelled : pc[a] = "ended" => status[a] = "cancelled"
=============================================================================
