\* Two rebuilds of one user, two worker processes, limits of two ticks.
CONSTANTS
    t1 = t1
    t2 = t2
    w1 = w1
    w2 = w2
    NoWorker = NoWorker
    Tasks = {t1, t2}
    Workers = {w1, w2}
    MaxRetries = 1
    HardLimit = 2
    LockTimeout = 2
    MaxCrashes = 1
    MaxLost = 1
SPECIFICATION FairTaskSpec
INVARIANT RebuildsExclusive
INVARIANT NoTaskLost
PROPERTY TasksSettle
