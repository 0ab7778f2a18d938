\* Two runs of one user, of which one is the orchestrator's; two calls of a tool in two ticks.
CONSTANTS
    a1 = a1
    a2 = a2
    u1 = u1
    search = search
    bogus = bogus
    Users = {u1}
    Tools = {search}
    Unknown = bogus
    RateLimit <- MCRateLimit
    Window = 2
    Agents = {a1, a2}
    UserOf <- MCUserOf
    Orchestrated = {a1}
    Allowed <- MCAllowed
    MaxIterations = 2
    MaxCalls = 2
    TotalTimeout = 1
    MemoryLimit = 4
    PromptWindow = 3
    MaxTime = 2
    Nobody = Nobody
    Others = Others
CHECK_DEADLOCK FALSE
SPECIFICATION FairSpec
INVARIANT ToolLimitHolds
INVARIANT ResultsSeen
PROPERTY CancelHolds
PROPERTY RunsEnd
