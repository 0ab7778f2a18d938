----------------------------- MODULE AgentTools -----------------------------
(***************************************************************************)
(* The tool registry of agent_tools.py.  The registry is one object of the *)
(* process; every agent run executes its tools in it, and the calls of a   *)
(* user are counted over all of the user's runs.                           *)
(***************************************************************************)
EXTENDS Selections, Sequences

CONSTANTS
    Users,
    Tools,           \* the tools registered: ALLOWED_TOOLS
    Unknown,         \* a name a model made up
    RateLimit,       \* RateLimit[t]: rate_limit_per_minute
    Window           \* ticks in a minute

ASSUME ToolsAssumption ==
    /\ Unknown \notin Tools
    /\ RateLimit \in [Tools -> Nat \ {0}]
    /\ Window \in Nat \ {0}

VARIABLE stamps      \* stamps[u][t]: the times of the calls counted, _call_counts

NoStamps == [u \in Users |-> [t \in Tools |-> <<>>]]

\* [t for t in timestamps if t > window_start]
Recent(s, now) == AtIndices(s, {i \in DOMAIN s : s[i] > now - Window})

\* Mutation: the call that reaches the limit is let through.
HasRoomFor(t, s) == Len(s) <= RateLimit[t]

HasRoom(t, s) == Len(s) < RateLimit[t]

\* _check_rate_limit: what is over is dropped, a call that is let through is counted.
\* Nothing is awaited, and every agent runs on the one event loop.
Counted(u, t, now) ==
    LET recent == Recent(stamps[u][t], now)
    IN  stamps' = [stamps EXCEPT ![u][t] =
                       IF HasRoom(t, recent) THEN Append(recent, now) ELSE recent]

\* The function of the tool is called.  What it returns is a result, the text of an
\* error too; what it raises is a failure.
Runs(u, t, now) == t \in Tools /\ HasRoom(t, Recent(stamps[u][t], now))

\* execute()
Execute(u, t, now) == IF t \in Tools THEN Counted(u, t, now) ELSE UNCHANGED stamps
=============================================================================
