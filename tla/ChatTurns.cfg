\* Two overlapping turns of two users who have had three and one before; 2, 3 and 6 messages stand for 20, 30 and 200.
CONSTANTS
    u1 = u1
    u2 = u2
    t1 = t1
    t2 = t2
    q1 = q1
    q2 = q2
    q3 = q3
    r1 = r1
    r2 = r2
    Users = {u1, u2}
    Accounts = {u1, u2}
    MaxTasks = 1
    Threads = {t1, t2}
    Earlier <- MCEarlier
    Silent <- MCSilent
    Owner <- MCOwner
    Questions = {q1, q2, q3}
    Blank = {q3}
    Alike <- MCAlike
    Turns = {r1, r2}
    Replies = {r1, r2}
    NoReply = NoReply
    RecentVerbatimCount = 2
    CompressionThreshold = 3
    PageLimit = 6
SYMMETRY Turned
CHECK_DEADLOCK FALSE
SPECIFICATION Spec
INVARIANT ContextSound
INVARIANT ContextAlternates
INVARIANT CachedAnswersOwn
INVARIANT CachedIsStored
INVARIANT CountersFollowLog
