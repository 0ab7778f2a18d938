\* Two users, one place in the table, two threads, a file of one user.
CONSTANTS
    u1 = u1
    u2 = u2
    r1 = r1
    r2 = r2
    f1 = f1
    NoUser = NoUser
    NoFile = NoFile
    NoRequest = NoRequest
    NoObject = NoObject
    Users = {u1, u2}
    Requests = {r1, r2}
    Files = {f1}
    Owner <- FileOwner
    MaxCached = 1
SPECIFICATION FairSpec
INVARIANT TableConsistent
INVARIANT AnswersAreOwn
PROPERTY ChatsAnswer
PROPERTY TableIsReleased
