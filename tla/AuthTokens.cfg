\* Two access tokens and a refresh token, two overlapping requests.
CONSTANTS
    a1 = a1
    a2 = a2
    f1 = f1
    q1 = q1
    q2 = q2
    NoToken = NoToken
    Access = {a1, a2}
    Refresh = {f1}
    Requests = {q1, q2}
    AccessLife = 2
    RefreshLife = 3
    RevokeLife = 1
    LockTime = 1
    MaxFailures = 2
SPECIFICATION Spec
INVARIANT ShutOut
INVARIANT RefusedAfterLogout
SYMMETRY Sym
