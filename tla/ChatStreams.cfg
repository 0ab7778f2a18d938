\* Two streams and a plain chat on one conversation, up to two chunks
\* in one response and one in the other.
CONSTANTS
    s1 = s1
    s2 = s2
    c1 = c1
    t1 = t1
    NoStream = NoStream
    Others = Others
    NoThread = NoThread
    Streams = {s1, s2}
    Chats = {c1}
    Threads = {t1}
    MaxTokens <- MCMaxTokens
SPECIFICATION FairSpec
INVARIANT NoOrphans
INVARIANT StreamsCountExactly
PROPERTY StopHolds
PROPERTY ToldWhatHappened
PROPERTY PagesFreed
CHECK_DEADLOCK FALSE
