----------------------------- MODULE AuthTokens -----------------------------
(***************************************************************************)
(* One account and its JSON web tokens: the routes of app.py that issue,   *)
(* use and revoke them, the checks of auth_middleware.py, the blacklist of *)
(* security/jwt_blacklist.py and the switches of admin_panel.py.           *)
(*                                                                         *)
(* A request is several steps: it decodes its token, asks the blacklist in *)
(* Redis, loads the user from the database, and only then runs its handler.*)
(* The requests of the threads and replicas interleave between these steps.*)
(***************************************************************************)
EXTENDS Integers, FiniteSets

CONSTANTS
    Access,          \* access tokens (their jti); an id is used again only once
    Refresh,         \* refresh tokens     nothing remembers the token it named
    Requests,        \* request threads
    AccessLife,      \* jwt_expiry_hours, in ticks
    RefreshLife,     \* jwt_refresh_expiry_days, in ticks
    RevokeLife,      \* 3600 + 60 seconds, in ticks
    LockTime,        \* 15 minutes, in ticks
    MaxFailures,     \* failed logins that lock the account: 5
    NoToken

ASSUME TokensAssumption ==
    /\ Access \cap Refresh = {}
    /\ NoToken \notin Access \cup Refresh

ASSUME TimesAssumption ==
    /\ AccessLife \in Nat \ {0} /\ RefreshLife \in Nat \ {0}
    /\ RevokeLife \in Nat \ {0} /\ LockTime \in Nat \ {0}
    /\ MaxFailures \in Nat \ {0}

VARIABLES
    active, deleted, \* User.is_active, User.is_deleted
    attempts,        \* User.failed_login_attempts
    lockedFor,       \* ticks until User.locked_until
    pending,         \* the is_active an administrator is about to commit, or "none"
    life,            \* life[t]: ticks until token t expires, 0 when there is none
    revoked,         \* revoked[t]: ticks until Redis drops t's blacklist key
    redisUp,
    pc, tok, op,     \* pc[r], tok[r], op[r]: where request r is, its token, its route
    shut,            \* shut[r]: history, the account has been shut since r arrived
    out,             \* out[t]: history, 1 + ticks since a logout of t told Redis,
                     \* capped at 1 + RevokeLife, 0 when none did or t expired
    barred,          \* barred[r]: history, since r arrived its token has been out
                     \* for less than RevokeLife, and Redis up
    wrong            \* history: wrong passwords in the last tick, since a right one

user == <<active, deleted, attempts, lockedFor>>
tokens == <<life, revoked>>
request == <<pc, tok, op>>
history == <<shut, out, barred, wrong>>
vars == <<active, deleted, attempts, lockedFor, pending, life, revoked, redisUp,
          pc, tok, op, shut, out, barred, wrong>>

Tokens == Access \cup Refresh

TokenRoutes == {"use", "logout", "mint", "delete"}

----------------------------------------------------------------------------
Init ==
    /\ active = TRUE /\ deleted = FALSE
    /\ attempts = 0 /\ lockedFor = 0
    /\ pending = "none"
    /\ life = [t \in Tokens |-> 0]
    /\ revoked = [t \in Tokens |-> 0]
    /\ redisUp = TRUE
    /\ pc = [r \in Requests |-> "idle"]
    /\ tok = [r \in Requests |-> NoToken]
    /\ op = [r \in Requests |-> "use"]
    /\ shut = [r \in Requests |-> FALSE]
    /\ out = [t \in Tokens |-> 0]
    /\ barred = [r \in Requests |-> FALSE]
    /\ wrong = 0

Goto(r, p) == pc' = [pc EXCEPT ![r] = p] /\ UNCHANGED <<tok, op, shut, barred>>

Answer(r) ==
    /\ pc' = [pc EXCEPT ![r] = "idle"]
    /\ tok' = [tok EXCEPT ![r] = NoToken]
    /\ op' = [op EXCEPT ![r] = "use"]
    /\ shut' = [shut EXCEPT ![r] = FALSE]
    /\ barred' = [barred EXCEPT ![r] = FALSE]

Begin(r, p, t, o) ==
    /\ pc[r] = "idle"
    /\ pc' = [pc EXCEPT ![r] = p]
    /\ tok' = [tok EXCEPT ![r] = t]
    /\ op' = [op EXCEPT ![r] = o]
    /\ shut' = [shut EXCEPT ![r] = deleted \/ ~active]
    /\ UNCHANGED <<user, pending, tokens, redisUp, out, wrong>>

\* History: t was logged out less than RevokeLife ago.
JustOut(t) == out[t] \in 1 .. RevokeLife

\* A request brings a token: an access token to a route behind require_auth, a
\* refresh token to /auth/refresh.  One that has expired is refused at once.
Present(r, t) ==
    /\ life[t] > 0
    /\ barred' = [barred EXCEPT ![r] = redisUp /\ JustOut(t)]
    /\ \E o \in IF t \in Access THEN TokenRoutes ELSE {"refresh"} :
           Begin(r, "decoded", t, o)

\* A request brings a password, or the proof of a Google account.
LogIn(r) ==
    /\ \E o \in {"login", "google"} : Begin(r, "passed", NoToken, o)
    /\ UNCHANGED barred

----------------------------------------------------------------------------
(* Authentication.                                                          *)

\* is_blacklisted; it fails open when Redis cannot be reached.
Blacklisted(t) == redisUp /\ revoked[t] > 0

CheckBlacklist(r) ==
    /\ pc[r] = "decoded"
    /\ IF Blacklisted(tok[r]) THEN Answer(r) ELSE Goto(r, "passed")
    /\ UNCHANGED <<user, pending, tokens, redisUp, out, wrong>>

\* Mutation: only is_active is looked at.
AdmissibleIfActive == active /\ lockedFor = 0

\* The user is found (not deleted), active and not locked.
Admissible == active /\ ~deleted /\ lockedFor = 0

\* _resolve_user_from_request, and the queries of refresh_token_route; neither
\* looks at the revocation of all tokens of the user, though delete_account and
\* the administrator write its stamp.
LoadUser(r) ==
    /\ pc[r] = "passed"
    /\ op[r] \in TokenRoutes \cup {"refresh"}
    /\ IF Admissible THEN Goto(r, "in") ELSE Answer(r)
    /\ UNCHANGED <<user, pending, tokens, redisUp, out, wrong>>

\* login() with the right password.
PasswordRight(r) ==
    /\ pc[r] = "passed" /\ op[r] = "login"
    /\ IF Admissible
       THEN Goto(r, "in") /\ attempts' = 0 /\ wrong' = 0
       ELSE Answer(r) /\ UNCHANGED <<attempts, wrong>>
    /\ UNCHANGED <<active, deleted, lockedFor, pending, tokens, redisUp, out>>

\* login() with a wrong password counts it and, at MaxFailures, locks the
\* account, and then raises AuthError inside `with get_db()`: all of it is
\* rolled back.
PasswordWrong(r) ==
    /\ pc[r] = "passed" /\ op[r] = "login"
    /\ active /\ ~deleted
    /\ Answer(r)
    /\ wrong' = IF wrong < MaxFailures THEN wrong + 1 ELSE wrong
    /\ UNCHANGED <<user, pending, tokens, redisUp, out>>

\* auth_google looks the account up whatever its state.
GoogleAccepted(r) ==
    /\ pc[r] = "passed" /\ op[r] = "google"
    /\ Goto(r, "in")
    /\ UNCHANGED <<user, pending, tokens, redisUp, out, wrong>>

----------------------------------------------------------------------------
(* The handlers.                                                            *)

\* Nothing is left of the token that once had this id.
Unused(t) ==
    /\ life[t] = 0 /\ revoked[t] = 0
    /\ \A r \in Requests : tok[r] # t

\* Mutation: the two settings are swapped.
LifetimeSwapped(t) == IF t \in Access THEN RefreshLife ELSE AccessLife

Lifetime(t) == IF t \in Access THEN AccessLife ELSE RefreshLife

\* login() and auth_google issue a pair, /auth/refresh and /auth/jwt an access
\* token: neither the refresh token nor the one that was presented is replaced.
Issue(r) ==
    /\ pc[r] = "in"
    /\ op[r] \in {"login", "google", "refresh", "mint"}
    /\ \E a \in Access, f \in Refresh \cup {NoToken} :
        /\ Unused(a)
        /\ IF op[r] \in {"login", "google"} THEN f # NoToken /\ Unused(f) ELSE f = NoToken
        /\ life' = [t \in Tokens |-> IF t \in {a, f} THEN Lifetime(t) ELSE life[t]]
    /\ Answer(r)
    /\ UNCHANGED <<user, pending, revoked, redisUp, out, wrong>>

\* Any other route.
Use(r) ==
    /\ pc[r] = "in" /\ op[r] = "use"
    /\ Answer(r)
    /\ UNCHANGED <<user, pending, tokens, redisUp, out, wrong>>

\* logout() decodes the token again ...
LogoutDecodes(r) ==
    /\ pc[r] = "in" /\ op[r] = "logout"
    /\ IF life[tok[r]] > 0 /\ ~Blacklisted(tok[r])
       THEN Goto(r, "revoking") ELSE Answer(r)
    /\ UNCHANGED <<user, pending, tokens, redisUp, out, wrong>>

\* Mutation: the time to live is in the wrong unit.
RevokeAtOnceOver(t) == revoked' = [revoked EXCEPT ![t] = 0]

\* SETEX jti:<jti> 3660
Revoke(t) == revoked' = [revoked EXCEPT ![t] = RevokeLife]

\* History: a later logout does not count.
NowOut(t) == [out EXCEPT ![t] = IF life[t] > 0 /\ @ = 0 THEN 1 ELSE @]

\* ... and blacklists it, or, when Redis is down, does not; both answer
\* "Logged out successfully".
LogoutRevokes(r) ==
    /\ pc[r] = "revoking"
    /\ IF redisUp THEN Revoke(tok[r]) /\ out' = NowOut(tok[r])
                  ELSE UNCHANGED <<revoked, out>>
    /\ Answer(r)
    /\ UNCHANGED <<user, pending, life, redisUp, wrong>>

DeleteAccount(r) ==
    /\ pc[r] = "in" /\ op[r] = "delete"
    /\ deleted' = TRUE /\ active' = FALSE
    /\ Answer(r)
    /\ UNCHANGED <<attempts, lockedFor, pending, tokens, redisUp, out, wrong>>

----------------------------------------------------------------------------
(* update_user, deactivate_user and reactivate_user load a user that is not *)
(* deleted and commit the new is_active, whatever happened in between.      *)

AdminLoads(v) ==
    /\ pending = "none"
    /\ ~deleted
    /\ active # (v = "active")
    /\ pending' = v
    /\ UNCHANGED <<user, tokens, redisUp, request, history>>

AdminCommits ==
    /\ pending # "none"
    /\ active' = (pending = "active")
    /\ pending' = "none"
    /\ shut' = [r \in Requests |-> shut[r] /\ (deleted \/ ~active')]
    /\ UNCHANGED <<deleted, attempts, lockedFor, tokens, redisUp, request, out,
                   barred, wrong>>

Outage ==
    /\ redisUp
    /\ redisUp' = FALSE
    /\ barred' = [r \in Requests |-> FALSE]
    /\ UNCHANGED <<user, pending, tokens, request, shut, out, wrong>>

Recovery ==
    /\ ~redisUp
    /\ redisUp' = TRUE
    /\ UNCHANGED <<user, pending, tokens, request, history>>

Down(f) == [t \in DOMAIN f |-> IF f[t] > 0 THEN f[t] - 1 ELSE 0]

\* Tokens and blacklist keys expire.
Tick ==
    /\ life' = Down(life)
    /\ revoked' = Down(revoked)
    /\ lockedFor' = IF lockedFor > 0 THEN lockedFor - 1 ELSE 0
    /\ out' = [t \in Tokens |-> CASE life[t] <= 1 \/ out[t] = 0 -> 0
                                  [] out[t] > RevokeLife -> out[t]
                                  [] OTHER -> out[t] + 1]
    /\ barred' = [r \in Requests |-> barred[r] /\ out'[tok[r]] \in 1 .. RevokeLife]
    /\ wrong' = 0
    /\ UNCHANGED <<active, deleted, attempts, pending, redisUp, request, shut>>

Next ==
    \/ \E r \in Requests :
        \/ \E t \in Tokens : Present(r, t)
        \/ LogIn(r)
        \/ CheckBlacklist(r) \/ LoadUser(r)
        \/ PasswordRight(r) \/ PasswordWrong(r) \/ GoogleAccepted(r)
        \/ Issue(r) \/ Use(r) \/ DeleteAccount(r)
        \/ LogoutDecodes(r) \/ LogoutRevokes(r)
    \/ \E v \in {"active", "inactive"} : AdminLoads(v)
    \/ AdminCommits
    \/ Outage \/ Recovery \/ Tick

Spec == Init /\ [][Next]_vars

----------------------------------------------------------------------------
(* Properties.                                                              *)

TypeOK ==
    /\ active \in BOOLEAN /\ deleted \in BOOLEAN
    /\ attempts \in 0 .. MaxFailures
    /\ lockedFor \in 0 .. LockTime
    /\ pending \in {"none", "active", "inactive"}
    /\ life \in [Tokens -> Nat]
    /\ \A t \in Access : life[t] <= AccessLife
    /\ \A t \in Refresh : life[t] <= RefreshLife /\ revoked[t] = 0
    /\ revoked \in [Tokens -> 0 .. RevokeLife]
    /\ redisUp \in BOOLEAN
    /\ pc \in [Requests -> {"idle", "decoded", "passed", "in", "revoking"}]
    /\ tok \in [Requests -> Tokens \cup {NoToken}]
    /\ op \in [Requests -> TokenRoutes \cup {"login", "google", "refresh"}]
    /\ \A r \in Requests : pc[r] \in {"decoded", "revoking"} => tok[r] # NoToken
    /\ shut \in [Requests -> BOOLEAN]
    /\ out \in [Tokens -> 0 .. RevokeLife + 1]
    /\ barred \in [Requests -> BOOLEAN]
    /\ wrong \in 0 .. MaxFailures

\* A request that arrived when the account was deactivated or deleted, and that
\* it has been ever since, is not served, whatever tokens are still alive or were
\* issued meanwhile (by requests in flight, by Google sign-in), and although an
\* administrator may set is_active on an account that is being deleted.
ShutOut ==
    \A r \in Requests :
        pc[r] \in {"in", "revoking"} /\ op[r] # "google" => ~shut[r]

\* After a logout that reached Redis the token opens nothing for 3660 s: no
\* request that arrives later is served, unless an outage makes the check fail
\* open.
RefusedAfterLogout ==
    \A r \in Requests : pc[r] \in {"in", "revoking"} => ~barred[r]

\* "Revoke the current access token": once a logout told Redis, the token does not
\* pass the blacklist while Redis can be asked.
LogoutIsFinal ==
    [][\A r \in Requests :
         /\ pc[r] = "decoded" /\ pc'[r] = "passed"
         /\ redisUp
         => out[tok[r]] = 0]_vars

\* "Account lockout after repeated failed login attempts": the password no
\* longer helps after MaxFailures wrong ones.
LockoutEnforced ==
    [][\A r \in Requests :
         /\ pc[r] = "passed" /\ op[r] = "login" /\ pc'[r] = "in"
         => wrong < MaxFailures]_vars
=============================================================================
