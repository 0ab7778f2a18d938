\* Three requests of two users behind one address, one process: two requests
\* stamped in the same tick share a request id.
CONSTANTS
    u1 = u1
    u2 = u2
    r1 = r1
    r2 = r2
    r3 = r3
    ip1 = ip1
    p1 = p1
    Sender <- MCSender
    Requests = {r1, r2, r3}
    Users = {u1, u2}
    IPs = {ip1}
    Procs = {p1}
    Limit <- MCLimit
    IpMultiplier = 1
    HourLimit = 2
    HourlyChecked = FALSE
    FailClosed = FALSE
    Second = 3
    MinuteWindow = 3
    HourWindow = 3
    MaxDelay = 1
    MaxTries = 2
    MaxTime = 6
SPECIFICATION Spec
INVARIANT SlotsWithinLimit
PROPERTY PromiseSpec
PROPERTY RetryAfterHonest
CHECK_DEADLOCK FALSE
SYMMETRY Sym
