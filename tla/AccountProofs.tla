-------------------------- MODULE AccountProofs --------------------------
(***************************************************************************)
(* Proofs about an account's tokens (AuthTokens) and about what is stored  *)
(* and erased of its user (LongTermMemory), for any tokens, requests,      *)
(* lifetimes, conversations and erasures.                                  *)
(*                                                                         *)
(* ShutOut holds because LoadUser is the only way in for a request with a  *)
(* token, and a request that arrived at a shut account still finds it shut *)
(* there.  RefusedAfterLogout holds because the blacklist key covers the   *)
(* time since the logout (KeyCovers), so that a barred request never gets  *)
(* past the check.                                                         *)
(*                                                                         *)
(* ErasedForGood holds because an eraser is after memories whose call is   *)
(* past them (Settled), so that no call writes them again, and because the *)
(* decay marks only rows it still finds (ErasureHolds).                    *)
(***************************************************************************)
EXTENDS AuthTokens, LongTermMemory, TLAPS

USE DEF user, tokens, request, history

\* Where a request can be with which token: logout() ends with the access token
\* it began with.
Routed ==
    \A r \in Requests :
        /\ pc[r] = "decoded" => tok[r] \in Tokens
        /\ pc[r] = "revoking" => op[r] = "logout"
        /\ op[r] = "logout" => tok[r] \in Access

StillShut == \A r \in Requests : shut[r] => deleted \/ ~active

\* The key of a token lives as long as the logout is recent.
KeyCovers == \A t \in Tokens : JustOut(t) => revoked[t] + out[t] > RevokeLife

\* A request with a barred token has not got past the blacklist.
HeldBack ==
    \A r \in Requests :
        barred[r] => pc[r] = "decoded" /\ redisUp /\ JustOut(tok[r])

----------------------------------------------------------------------------
(* Types.                                                                   *)

LEMMA InitType == Init => TypeOK /\ Routed
<1> SUFFICES ASSUME Init PROVE TypeOK /\ Routed
  OBVIOUS
<1>1. /\ active \in BOOLEAN /\ deleted \in BOOLEAN /\ redisUp \in BOOLEAN
      /\ shut \in [Requests -> BOOLEAN] /\ barred \in [Requests -> BOOLEAN]
  BY Zenon DEF Init
<1>2. /\ attempts \in 0 .. MaxFailures /\ lockedFor \in 0 .. LockTime
      /\ wrong \in 0 .. MaxFailures
      /\ life \in [Tokens -> Nat]
      /\ \A t \in Access : life[t] <= AccessLife
      /\ \A t \in Refresh : life[t] <= RefreshLife /\ revoked[t] = 0
      /\ revoked \in [Tokens -> 0 .. RevokeLife]
      /\ out \in [Tokens -> 0 .. RevokeLife + 1]
  BY TimesAssumption DEF Init, Tokens
<1>3. /\ pending \in {"none", "active", "inactive"}
      /\ pc \in [Requests -> {"idle", "decoded", "passed", "in", "revoking"}]
      /\ tok \in [Requests -> Tokens \cup {NoToken}]
      /\ op \in [Requests -> TokenRoutes \cup {"login", "google", "refresh"}]
      /\ \A r \in Requests : pc[r] \in {"decoded", "revoking"} => tok[r] # NoToken
      /\ Routed
  BY DEF Init, TokenRoutes, Routed
<1> QED BY <1>1, <1>2, <1>3 DEF TypeOK

LEMMA TypeStep == TypeOK /\ Routed /\ [Next]_vars => TypeOK' /\ Routed'
<1> SUFFICES ASSUME TypeOK, Routed, [Next]_vars PROVE TypeOK' /\ Routed'
  OBVIOUS
<1> USE TimesAssumption, TokensAssumption
    DEF TypeOK, Routed, Tokens, TokenRoutes
<1>1. ASSUME NEW r \in Requests, NEW t \in Tokens, Present(r, t)
      PROVE  TypeOK' /\ Routed'
  BY <1>1 DEF Present, JustOut, Begin
<1>2. ASSUME NEW r \in Requests, LogIn(r) PROVE TypeOK' /\ Routed'
  BY <1>2 DEF LogIn, Begin
<1>3. ASSUME NEW r \in Requests, CheckBlacklist(r) PROVE TypeOK' /\ Routed'
  <2>1. CASE Blacklisted(tok[r])
    <3>1. Answer(r)
      BY <1>3, <2>1 DEF CheckBlacklist
    <3> QED BY <1>3, <2>1, <3>1 DEF CheckBlacklist, Answer
  <2>2. CASE ~Blacklisted(tok[r])
    BY <1>3, <2>2 DEF CheckBlacklist, Goto
  <2> QED BY <2>1, <2>2
<1>4. ASSUME NEW r \in Requests, LoadUser(r) PROVE TypeOK' /\ Routed'
  <2>1. CASE Admissible
    BY <1>4, <2>1 DEF LoadUser, Goto
  <2>2. CASE ~Admissible
    <3>1. Answer(r)
      BY <1>4, <2>2 DEF LoadUser
    <3> QED BY <1>4, <2>2, <3>1 DEF LoadUser, Answer
  <2> QED BY <2>1, <2>2
<1>5. ASSUME NEW r \in Requests, PasswordRight(r) PROVE TypeOK' /\ Routed'
  <2>1. CASE Admissible
    BY <1>5, <2>1 DEF PasswordRight, Goto
  <2>2. CASE ~Admissible
    <3>1. Answer(r)
      BY <1>5, <2>2 DEF PasswordRight
    <3> QED BY <1>5, <2>2, <3>1 DEF PasswordRight, Answer
  <2> QED BY <2>1, <2>2
<1>6. ASSUME NEW r \in Requests, PasswordWrong(r) PROVE TypeOK' /\ Routed'
  BY <1>6 DEF PasswordWrong, Answer
<1>7. ASSUME NEW r \in Requests, GoogleAccepted(r) PROVE TypeOK' /\ Routed'
  BY <1>7 DEF GoogleAccepted, Goto
<1>8. ASSUME NEW r \in Requests, Issue(r) PROVE TypeOK' /\ Routed'
  BY <1>8 DEF Issue, Lifetime, Answer
<1>9. ASSUME NEW r \in Requests, Use(r) PROVE TypeOK' /\ Routed'
  BY <1>9 DEF Use, Answer
<1>10. ASSUME NEW r \in Requests, DeleteAccount(r) PROVE TypeOK' /\ Routed'
  BY <1>10 DEF DeleteAccount, Answer
<1>11. ASSUME NEW r \in Requests, LogoutDecodes(r) PROVE TypeOK' /\ Routed'
  <2>1. CASE life[tok[r]] > 0 /\ ~Blacklisted(tok[r])
    BY <1>11, <2>1 DEF LogoutDecodes, Goto
  <2>2. CASE ~(life[tok[r]] > 0 /\ ~Blacklisted(tok[r]))
    <3>1. Answer(r)
      BY <1>11, <2>2 DEF LogoutDecodes
    <3> QED BY <1>11, <2>2, <3>1 DEF LogoutDecodes, Answer
  <2> QED BY <2>1, <2>2
<1>12. ASSUME NEW r \in Requests, LogoutRevokes(r) PROVE TypeOK' /\ Routed'
  BY <1>12 DEF LogoutRevokes, Revoke, NowOut, Answer
<1>13. ASSUME NEW v \in {"active", "inactive"}, AdminLoads(v)
       PROVE  TypeOK' /\ Routed'
  BY <1>13 DEF AdminLoads
<1>14. CASE AdminCommits
  BY <1>14 DEF AdminCommits
<1>15. CASE Outage
  BY <1>15 DEF Outage
<1>16. CASE Recovery
  BY <1>16 DEF Recovery
<1>17. CASE Tick
  BY <1>17 DEF Tick, Down
<1>18. CASE UNCHANGED vars
  BY <1>18 DEF vars
<1> QED BY <1>1, <1>2, <1>3, <1>4, <1>5, <1>6, <1>7, <1>8, <1>9, <1>10, <1>11,
           <1>12, <1>13, <1>14, <1>15, <1>16, <1>17, <1>18 DEF Next

----------------------------------------------------------------------------
(* Accounts that are shut.                                                  *)

LEMMA ShutStep ==
    TypeOK /\ Routed /\ StillShut /\ ShutOut /\ [Next]_vars => StillShut' /\ ShutOut'
<1> SUFFICES ASSUME TypeOK, Routed, StillShut, ShutOut, [Next]_vars
             PROVE  StillShut' /\ ShutOut'
  OBVIOUS
<1> USE DEF TypeOK, Routed, StillShut, ShutOut
<1>1. ASSUME NEW r \in Requests, NEW t \in Tokens, Present(r, t)
      PROVE  StillShut' /\ ShutOut'
  BY <1>1 DEF Present, Begin
<1>2. ASSUME NEW r \in Requests, LogIn(r)
      PROVE  StillShut' /\ ShutOut'
  BY <1>2 DEF LogIn, Begin
<1>3. ASSUME NEW r \in Requests, CheckBlacklist(r)
      PROVE  StillShut' /\ ShutOut'
  BY <1>3 DEF CheckBlacklist, Goto, Answer
<1>4. ASSUME NEW r \in Requests, LoadUser(r)
      PROVE  StillShut' /\ ShutOut'
  BY <1>4 DEF LoadUser, Goto, Answer, Admissible
<1>5. ASSUME NEW r \in Requests, PasswordRight(r)
      PROVE  StillShut' /\ ShutOut'
  BY <1>5 DEF PasswordRight, Goto, Answer, Admissible
<1>6. ASSUME NEW r \in Requests, PasswordWrong(r)
      PROVE  StillShut' /\ ShutOut'
  BY <1>6 DEF PasswordWrong, Answer
<1>7. ASSUME NEW r \in Requests, GoogleAccepted(r)
      PROVE  StillShut' /\ ShutOut'
  BY <1>7 DEF GoogleAccepted, Goto
<1>8. ASSUME NEW r \in Requests, Issue(r)
      PROVE  StillShut' /\ ShutOut'
  BY <1>8 DEF Issue, Answer
<1>9. ASSUME NEW r \in Requests, Use(r)
      PROVE  StillShut' /\ ShutOut'
  BY <1>9 DEF Use, Answer
<1>10. ASSUME NEW r \in Requests, DeleteAccount(r)
      PROVE  StillShut' /\ ShutOut'
  BY <1>10 DEF DeleteAccount, Answer
<1>11. ASSUME NEW r \in Requests, LogoutDecodes(r)
      PROVE  StillShut' /\ ShutOut'
  BY <1>11 DEF LogoutDecodes, Goto, Answer
<1>12. ASSUME NEW r \in Requests, LogoutRevokes(r)
      PROVE  StillShut' /\ ShutOut'
  BY <1>12 DEF LogoutRevokes, Answer
<1>13. ASSUME NEW v \in {"active", "inactive"}, AdminLoads(v)
      PROVE  StillShut' /\ ShutOut'
  BY <1>13 DEF AdminLoads
<1>14. CASE AdminCommits
  BY <1>14 DEF AdminCommits
<1>15. CASE Outage
  BY <1>15 DEF Outage
<1>16. CASE Recovery
  BY <1>16 DEF Recovery
<1>17. CASE Tick
  BY <1>17 DEF Tick
<1>18. CASE UNCHANGED vars
  BY <1>18 DEF vars
<1> QED BY <1>1, <1>2, <1>3, <1>4, <1>5, <1>6, <1>7, <1>8, <1>9, <1>10, <1>11,
           <1>12, <1>13, <1>14, <1>15, <1>16, <1>17, <1>18 DEF Next

----------------------------------------------------------------------------
(* Tokens that are logged out.                                              *)

LEMMA KeyStep == TypeOK /\ Routed /\ KeyCovers /\ [Next]_vars => KeyCovers'
<1> SUFFICES ASSUME TypeOK, Routed, KeyCovers, [Next]_vars PROVE KeyCovers'
  OBVIOUS
<1>1. CASE UNCHANGED <<revoked, out>>
  BY <1>1 DEF KeyCovers, JustOut
<1>2. ASSUME NEW r \in Requests, LogoutRevokes(r), redisUp PROVE KeyCovers'
  <2>1. tok[r] \in Tokens
    BY <1>2 DEF LogoutRevokes, Routed, Tokens
  <2>2. revoked' = [revoked EXCEPT ![tok[r]] = RevokeLife] /\ out' = NowOut(tok[r])
    BY <1>2 DEF LogoutRevokes, Revoke
  <2> SUFFICES ASSUME NEW t \in Tokens, JustOut(t)'
               PROVE  revoked'[t] + out'[t] > RevokeLife
    BY DEF KeyCovers
  <2>3. CASE t = tok[r]
    <3>1. revoked'[t] = RevokeLife /\ out'[t] \in 1 .. RevokeLife
      BY <2>2, <2>3 DEF TypeOK, JustOut
    <3> QED BY <3>1, TimesAssumption
  <2>4. CASE t # tok[r]
    BY <2>2, <2>4 DEF TypeOK, JustOut, KeyCovers, NowOut
  <2> QED BY <2>3, <2>4
<1>3. CASE Tick
  <2> SUFFICES ASSUME NEW t \in Tokens, JustOut(t)'
               PROVE  revoked'[t] + out'[t] > RevokeLife
    BY DEF KeyCovers
  <2>1. out'[t] = out[t] + 1 /\ JustOut(t)
    BY <1>3, TimesAssumption DEF Tick, TypeOK, JustOut
  <2>2. revoked[t] > 0 /\ revoked'[t] = revoked[t] - 1
    BY <1>3, <2>1, TimesAssumption DEF Tick, Down, TypeOK, JustOut, KeyCovers
  <2> QED BY <2>1, <2>2, TimesAssumption DEF TypeOK, KeyCovers, JustOut
<1>4. ASSUME NEW r \in Requests, LogoutRevokes(r), ~redisUp PROVE KeyCovers'
  BY <1>1, <1>4 DEF LogoutRevokes
<1>5. ASSUME ~UNCHANGED <<revoked, out>>
      PROVE  Tick \/ \E r \in Requests : LogoutRevokes(r)
  BY <1>5 DEF Next, vars, Present, LogIn, Begin, CheckBlacklist, LoadUser,
       PasswordRight, PasswordWrong, GoogleAccepted, Issue, Use, DeleteAccount,
       LogoutDecodes, AdminLoads, AdminCommits, Outage, Recovery
<1> QED BY <1>1, <1>2, <1>3, <1>4, <1>5

LEMMA BarStep ==
    TypeOK /\ Routed /\ KeyCovers /\ HeldBack /\ [Next]_vars => HeldBack'
<1> SUFFICES ASSUME TypeOK, Routed, KeyCovers, HeldBack, [Next]_vars PROVE HeldBack'
  OBVIOUS
<1> USE DEF TypeOK, Routed, HeldBack, JustOut
<1>1. ASSUME NEW r \in Requests, NEW t \in Tokens, Present(r, t)
      PROVE  HeldBack'
  BY <1>1 DEF Present, Begin
<1>2. ASSUME NEW r \in Requests, LogIn(r)
      PROVE  HeldBack'
  BY <1>2 DEF LogIn, Begin
<1>3. ASSUME NEW r \in Requests, CheckBlacklist(r)
      PROVE  HeldBack'
  <2>1. CASE Blacklisted(tok[r])
    <3>1. Answer(r) /\ UNCHANGED <<redisUp, out>>
      BY <1>3, <2>1 DEF CheckBlacklist
    <3> QED BY <3>1 DEF Answer
  <2>2. CASE ~Blacklisted(tok[r])
    <3>1. Goto(r, "passed") /\ UNCHANGED <<redisUp, out>>
      BY <1>3, <2>2 DEF CheckBlacklist
    <3>2. ~barred[r]
      <4>1. SUFFICES ASSUME barred[r] PROVE FALSE
        OBVIOUS
      <4>2. tok[r] \in Tokens /\ JustOut(tok[r]) /\ redisUp
        BY <1>3, <4>1 DEF CheckBlacklist
      <4>3. revoked[tok[r]] > 0
        BY <4>2, TimesAssumption DEF KeyCovers
      <4> QED BY <4>2, <4>3, <2>2 DEF Blacklisted
    <3> QED BY <3>1, <3>2 DEF Goto
  <2> QED BY <2>1, <2>2
<1>4. ASSUME NEW r \in Requests, LoadUser(r)
      PROVE  HeldBack'
  BY <1>4 DEF LoadUser, Goto, Answer, Admissible
<1>5. ASSUME NEW r \in Requests, PasswordRight(r)
      PROVE  HeldBack'
  BY <1>5 DEF PasswordRight, Goto, Answer, Admissible
<1>6. ASSUME NEW r \in Requests, PasswordWrong(r)
      PROVE  HeldBack'
  BY <1>6 DEF PasswordWrong, Answer
<1>7. ASSUME NEW r \in Requests, GoogleAccepted(r)
      PROVE  HeldBack'
  BY <1>7 DEF GoogleAccepted, Goto
<1>8. ASSUME NEW r \in Requests, Issue(r)
      PROVE  HeldBack'
  BY <1>8 DEF Issue, Answer
<1>9. ASSUME NEW r \in Requests, Use(r)
      PROVE  HeldBack'
  BY <1>9 DEF Use, Answer
<1>10. ASSUME NEW r \in Requests, DeleteAccount(r)
      PROVE  HeldBack'
  BY <1>10 DEF DeleteAccount, Answer
<1>11. ASSUME NEW r \in Requests, LogoutDecodes(r)
      PROVE  HeldBack'
  BY <1>11 DEF LogoutDecodes, Goto, Answer
<1>12. ASSUME NEW r \in Requests, LogoutRevokes(r)
      PROVE  HeldBack'
  <2>1. ASSUME NEW x \in Tokens, JustOut(x) PROVE JustOut(x)'
    <3>1. out' = out \/ out' = NowOut(tok[r])
      BY <1>12 DEF LogoutRevokes
    <3>2. out'[x] = out[x] \/ out[x] = 0
      BY <3>1 DEF NowOut
    <3> QED BY <2>1, <3>2
  <2>2. redisUp' = redisUp /\ Answer(r)
    BY <1>12 DEF LogoutRevokes
  <2>3. ASSUME NEW q \in Requests, barred'[q]
        PROVE  barred[q] /\ pc'[q] = pc[q] /\ tok'[q] = tok[q]
    BY <2>2, <2>3 DEF Answer
  <2>4. ASSUME NEW q \in Requests, barred[q] PROVE tok[q] \in Tokens
    BY <2>4
  <2> QED BY <2>1, <2>2, <2>3, <2>4
<1>13. ASSUME NEW v \in {"active", "inactive"}, AdminLoads(v)
      PROVE  HeldBack'
  BY <1>13 DEF AdminLoads
<1>14. CASE AdminCommits
  BY <1>14 DEF AdminCommits
<1>15. CASE Outage
  BY <1>15 DEF Outage
<1>16. CASE Recovery
  BY <1>16 DEF Recovery
<1>17. CASE Tick
  <2>1. UNCHANGED <<pc, tok, redisUp>>
    BY <1>17 DEF Tick
  <2>2. ASSUME NEW r \in Requests, barred'[r] PROVE barred[r] /\ JustOut(tok[r])'
    <3>1. barred'[r] = (barred[r] /\ out'[tok[r]] \in 1 .. RevokeLife)
      BY <1>17, Zenon DEF Tick
    <3> QED BY <2>1, <2>2, <3>1
  <2> QED BY <2>1, <2>2
<1>18. CASE UNCHANGED vars
  BY <1>18 DEF vars
<1> QED BY <1>1, <1>2, <1>3, <1>4, <1>5, <1>6, <1>7, <1>8, <1>9, <1>10, <1>11,
           <1>12, <1>13, <1>14, <1>15, <1>16, <1>17, <1>18 DEF Next

----------------------------------------------------------------------------

IInv == TypeOK /\ Routed /\ StillShut /\ ShutOut /\ KeyCovers /\ HeldBack

LEMMA InitInv == Init => IInv
<1> SUFFICES ASSUME Init PROVE IInv
  OBVIOUS
<1>1. StillShut /\ ShutOut /\ HeldBack
  BY DEF Init, StillShut, ShutOut, HeldBack
<1>2. KeyCovers
  BY DEF Init, KeyCovers, JustOut
<1> QED BY <1>1, <1>2, InitType DEF IInv

THEOREM SpecInv == Spec => []IInv
<1>1. IInv /\ [Next]_vars => IInv'
  BY TypeStep, ShutStep, KeyStep, BarStep DEF IInv
<1> QED BY <1>1, InitInv, PTL DEF Spec

\* Every reachable state has the declared types: no token outlives its lifetime and
\* no refresh token is ever blacklisted.
THEOREM TypeCorrect == Spec => []TypeOK
<1>1. IInv => TypeOK
  BY DEF IInv
<1> QED BY <1>1, SpecInv, PTL

\* However requests, administrators and the deletion of the account interleave, a
\* request that arrived at a shut account that stays shut is not served.
THEOREM ShutAccountsStayOut == Spec => []ShutOut
<1>1. IInv => ShutOut
  BY DEF IInv
<1> QED BY <1>1, SpecInv, PTL

\* A token that was logged out less than RevokeLife ago opens nothing to a request
\* that arrives after the logout, unless Redis goes down.
THEOREM LogoutRefuses == Spec => []RefusedAfterLogout
<1>1. IInv => RefusedAfterLogout
  BY DEF IInv, HeldBack, RefusedAfterLogout
<1> QED BY <1>1, SpecInv, PTL
----------------------------------------------------------------------------
(* Long term memory.                                                        *)

\* Call m[1] is past memory m: it writes to it no more.
Settled(m) ==
    \/ spc[m[1]] = "done"
    \/ spc[m[1]] = "extract" /\ m[2] = 0
    \/ spc[m[1]] \in {"row", "point"} /\ m[2] < at[m[1]]

\* A store holds only memories that were stored or are being stored, and the one
\* being stored has no point and nobody was told of it.
StoredInOrder ==
    /\ \A m \in Rows \cup Points : Settled(m) \/ m \in InFlight
    /\ \A m \in told : Settled(m)
    /\ \A m \in InFlight : ~point[m]

\* What an eraser is after cannot come back, and what it has read of it is gone from
\* the rows when it turns to the points.
ErasureHolds ==
    /\ \A e \in Erasers : \A m \in due[e] :
          /\ Settled(m)
          /\ \/ epc[e] = "rows" /\ (row[m] = "none" \/ m \in seen[e])
             \/ epc[e] = "points" /\ row[m] = "none"
    /\ \A m \in gone : Settled(m)

MemoryInv == MemoryTypeOK /\ StoredInOrder /\ ErasureHolds /\ ErasedForGood

USE CountsAssumption

\* A memory is its call and its place in it.
LEMMA MemoryShape ==
    /\ \A m \in Memories :
          m[1] \in Stores /\ m[2] \in 0 .. MaxFacts /\ m = <<m[1], m[2]>>
    /\ \A s \in Stores, k \in 0 .. MaxFacts : <<s, k>> \in Memories
  BY DEF Memories

LEMMA InFlightShape ==
    ASSUME MemoryTypeOK
    PROVE  /\ InFlight \subseteq Memories
           /\ \A m \in Memories : m \in InFlight <=> /\ spc[m[1]] \in {"row", "point"}
                                                     /\ m[2] = at[m[1]]
  BY MemoryShape DEF InFlight, MemoryTypeOK

LEMMA InitMemoryInv == InitMemory => MemoryInv
<1> SUFFICES ASSUME InitMemory PROVE MemoryInv
  OBVIOUS
<1>1. MemoryTypeOK
  <2>1. /\ account \in BOOLEAN /\ point \in [Memories -> BOOLEAN]
        /\ inDb \in [Stores -> BOOLEAN]
        /\ decay \in [on : BOOLEAN, rows : SUBSET Memories]
    BY Zenon DEF InitMemory, Idle
  <2>2. /\ row \in [Memories -> {"none", "live", "faded"}]
        /\ importance \in [Memories -> 0 .. 10] /\ age \in [Memories -> 0 .. LastAge]
        /\ spc \in [Stores -> {"idle", "row", "point", "extract", "done"}]
        /\ at \in [Stores -> 0 .. MaxFacts] /\ facts \in [Stores -> 0 .. MaxFacts]
        /\ told \subseteq Memories /\ gone \subseteq Memories
        /\ crashes \in 0 .. MaxCrashes
    BY DEF InitMemory, SummaryImportance, LastAge
  <2>3. /\ epc \in [Erasers -> {"idle", "rows", "points"}]
        /\ seen \in [Erasers -> SUBSET Memories] /\ due \in [Erasers -> SUBSET Memories]
    BY DEF InitMemory
  <2> QED BY <2>1, <2>2, <2>3 DEF MemoryTypeOK
<1>2. Rows = {} /\ Points = {} /\ InFlight = {}
  BY DEF InitMemory, Rows, Points, InFlight
<1>3. StoredInOrder /\ ErasureHolds /\ ErasedForGood
  BY <1>2 DEF InitMemory, StoredInOrder, ErasureHolds, ErasedForGood
<1> QED BY <1>1, <1>3 DEF MemoryInv

\* The part of the type that the stores, and with it the calls that write them, have.
CallsType ==
    /\ spc \in [Stores -> {"idle", "row", "point", "extract", "done"}]
    /\ at \in [Stores -> 0 .. MaxFacts] /\ facts \in [Stores -> 0 .. MaxFacts]
    /\ inDb \in [Stores -> BOOLEAN]
    /\ told \subseteq Memories

RowsType ==
    /\ row \in [Memories -> {"none", "live", "faded"}]
    /\ point \in [Memories -> BOOLEAN]
    /\ importance \in [Memories -> 0 .. 10] /\ age \in [Memories -> 0 .. LastAge]

ErasersType ==
    /\ epc \in [Erasers -> {"idle", "rows", "points"}]
    /\ seen \in [Erasers -> SUBSET Memories] /\ due \in [Erasers -> SUBSET Memories]
    /\ gone \subseteq Memories

LEMMA CallsStep == MemoryTypeOK /\ [NextMemory]_memoryVars => CallsType'
<1> SUFFICES ASSUME MemoryTypeOK, [NextMemory]_memoryVars PROVE CallsType'
  OBVIOUS
<1> USE DEF MemoryTypeOK, CallsType
<1>1. ASSUME NEW s \in Stores, Converse(s) PROVE CallsType'
  BY <1>1 DEF Converse
<1>2. ASSUME NEW s \in Stores, StoreRow(s) PROVE CallsType'
  BY <1>2 DEF StoreRow
<1>3. ASSUME NEW s \in Stores, StorePoint(s) PROVE CallsType'
  <2>1. told' \subseteq Memories
    BY <1>3, MemoryShape DEF StorePoint, ToldOf
  <2>2. inDb' \in [Stores -> BOOLEAN]
    BY <1>3 DEF StorePoint
  <2>3. /\ spc' \in [Stores -> {"idle", "row", "point", "extract", "done"}]
        /\ at' \in [Stores -> 0 .. MaxFacts] /\ facts' \in [Stores -> 0 .. MaxFacts]
    BY <1>3 DEF StorePoint, Proceed
  <2> QED BY <2>1, <2>2, <2>3
<1>4. ASSUME NEW s \in Stores, Extract(s) PROVE CallsType'
  BY <1>4 DEF Extract
<1>5. CASE Crash
  BY <1>5 DEF Crash
<1>6. CASE UNCHANGED <<store, told>>
  BY <1>6 DEF store
<1>7. ASSUME NEW e \in Erasers, BeginErase(e) \/ EraseRows(e) \/ ErasePoints(e)
      PROVE  UNCHANGED <<store, told>>
  BY <1>7 DEF BeginErase, EraseRows, ErasePoints
<1>8. CASE DecayReads \/ DecayCommits \/ DecayRollsBack \/ MemoriesAge
  BY <1>6, <1>8 DEF DecayReads, DecayCommits, DecayRollsBack, MemoriesAge
<1>9. CASE UNCHANGED memoryVars
  BY <1>6, <1>9 DEF memoryVars, store
<1> QED BY <1>1, <1>2, <1>3, <1>4, <1>5, <1>6, <1>7, <1>8, <1>9 DEF NextMemory

LEMMA RowsStep == MemoryTypeOK /\ [NextMemory]_memoryVars => RowsType'
<1> SUFFICES ASSUME MemoryTypeOK, [NextMemory]_memoryVars PROVE RowsType'
  OBVIOUS
<1> USE DEF MemoryTypeOK, RowsType
<1>1. ASSUME NEW s \in Stores, StoreRow(s) PROVE RowsType'
  <2>1. SummaryImportance \in 0 .. 10
    BY DEF SummaryImportance
  <2>2. \/ importance' = importance
        \/ \E i \in 0 .. 10 : importance' = [importance EXCEPT ![<<s, at[s]>>] = i]
    BY <1>1, <2>1 DEF StoreRow
  <2>3. row' \in [Memories -> {"none", "live", "faded"}]
    BY <1>1 DEF StoreRow
  <2>4. UNCHANGED <<point, age>>
    BY <1>1, Zenon DEF StoreRow
  <2>5. importance' \in [Memories -> 0 .. 10]
    BY <2>2
  <2> QED BY <2>3, <2>4, <2>5
<1>2. ASSUME NEW s \in Stores, StorePoint(s) PROVE RowsType'
  <2>1. point' \in [Memories -> BOOLEAN]
    BY <1>2 DEF StorePoint
  <2> QED BY <1>2, <2>1 DEF StorePoint
<1>3. ASSUME NEW e \in Erasers, EraseRows(e) PROVE RowsType'
  BY <1>3 DEF EraseRows, SummaryImportance, LastAge
<1>4. ASSUME NEW e \in Erasers, ErasePoints(e) PROVE RowsType'
  BY <1>4 DEF ErasePoints
<1>5. CASE DecayCommits
  BY <1>5 DEF DecayCommits
<1>6. CASE MemoriesAge
  <2>1. LastAge \in Nat
    BY DEF LastAge
  <2> QED BY <1>6, <2>1 DEF MemoriesAge
<1>7. CASE UNCHANGED <<row, point, importance, age>>
  BY <1>7
<1>8. ASSUME NEW s \in Stores, Converse(s) \/ Extract(s)
      PROVE  UNCHANGED <<row, point, importance, age>>
  BY <1>8 DEF Converse, Extract
<1>9. ASSUME NEW e \in Erasers, BeginErase(e)
      PROVE  UNCHANGED <<row, point, importance, age>>
  BY <1>9 DEF BeginErase
<1>10. CASE DecayReads \/ DecayRollsBack \/ Crash \/ UNCHANGED memoryVars
  BY <1>7, <1>10 DEF DecayReads, DecayRollsBack, Crash, memoryVars
<1> QED BY <1>1, <1>2, <1>3, <1>4, <1>5, <1>6, <1>7, <1>8, <1>9, <1>10
        DEF NextMemory

LEMMA ErasersStep == MemoryTypeOK /\ [NextMemory]_memoryVars => ErasersType'
<1> SUFFICES ASSUME MemoryTypeOK, [NextMemory]_memoryVars PROVE ErasersType'
  OBVIOUS
<1> USE DEF MemoryTypeOK, ErasersType
<1>1. ASSUME NEW e \in Erasers, BeginErase(e) PROVE ErasersType'
  BY <1>1 DEF BeginErase, Rows, Points
<1>2. ASSUME NEW e \in Erasers, EraseRows(e) PROVE ErasersType'
  BY <1>2 DEF EraseRows
<1>3. ASSUME NEW e \in Erasers, ErasePoints(e) PROVE ErasersType'
  BY <1>3 DEF ErasePoints
<1>4. CASE Crash
  BY <1>4 DEF Crash
<1>5. CASE UNCHANGED <<erase, gone>>
  BY <1>5 DEF erase
<1>6. ASSUME NEW s \in Stores,
             Converse(s) \/ StoreRow(s) \/ StorePoint(s) \/ Extract(s)
      PROVE  UNCHANGED <<erase, gone>>
  BY <1>6 DEF Converse, StoreRow, StorePoint, Extract
<1>7. CASE DecayReads \/ DecayCommits \/ DecayRollsBack \/ MemoriesAge
  BY <1>5, <1>7 DEF DecayReads, DecayCommits, DecayRollsBack, MemoriesAge
<1>8. CASE UNCHANGED memoryVars
  BY <1>5, <1>8 DEF memoryVars, erase
<1> QED BY <1>1, <1>2, <1>3, <1>4, <1>5, <1>6, <1>7, <1>8 DEF NextMemory

LEMMA MemoryTypeStep == MemoryTypeOK /\ [NextMemory]_memoryVars => MemoryTypeOK'
<1> SUFFICES ASSUME MemoryTypeOK, [NextMemory]_memoryVars PROVE MemoryTypeOK'
  OBVIOUS
<1>1. account' \in BOOLEAN
  BY Zenon DEF MemoryTypeOK, NextMemory, memoryVars, Converse, StoreRow, StorePoint, Extract,
     BeginErase, EraseRows, ErasePoints, DecayReads, DecayCommits, DecayRollsBack,
     MemoriesAge, Crash
<1>2. decay' \in [on : BOOLEAN, rows : SUBSET Memories]
  <2>1. Idle \in [on : BOOLEAN, rows : SUBSET Memories]
    BY DEF Idle
  <2>2. \/ decay' = decay \/ decay' = Idle
        \/ \E S \in SUBSET Memories : decay' = [on |-> TRUE, rows |-> S]
    BY Zenon DEF NextMemory, memoryVars, Converse, StoreRow, StorePoint, Extract,
       BeginErase, EraseRows, ErasePoints, DecayReads, DecayCommits, DecayRollsBack,
       MemoriesAge, Crash
  <2>3. ASSUME NEW S \in SUBSET Memories
        PROVE  [on |-> TRUE, rows |-> S] \in [on : BOOLEAN, rows : SUBSET Memories]
    OBVIOUS
  <2>4. decay \in [on : BOOLEAN, rows : SUBSET Memories]
    BY DEF MemoryTypeOK
  <2> QED BY <2>1, <2>2, <2>3, <2>4, Zenon
<1>3. crashes' \in 0 .. MaxCrashes
  <2>1. CASE Crash
    BY <2>1 DEF MemoryTypeOK, Crash
  <2>2. CASE ~Crash
    <3>1. crashes' = crashes
      BY <2>2, Zenon DEF NextMemory, memoryVars, Converse, StoreRow, StorePoint, Extract,
         BeginErase, EraseRows, ErasePoints, DecayReads, DecayCommits, DecayRollsBack,
         MemoriesAge
    <3> QED BY <3>1 DEF MemoryTypeOK
  <2> QED BY <2>1, <2>2
<1> QED BY <1>1, <1>2, <1>3, CallsStep, RowsStep, ErasersStep
        DEF MemoryTypeOK, CallsType, RowsType, ErasersType
\* A call never goes back.
LEMMA SettledStays ==
    ASSUME MemoryTypeOK, [NextMemory]_memoryVars, NEW m \in Memories, Settled(m)
    PROVE  Settled(m)'
<1> DEFINE s == m[1]
<1>0. s \in Stores /\ m[2] \in 0 .. MaxFacts /\ at[s] \in 0 .. MaxFacts
  BY MemoryShape DEF MemoryTypeOK
<1> USE DEF Settled
<1>1. CASE \E c \in Stores : Converse(c)
  BY <1>0, <1>1 DEF Converse, MemoryTypeOK
<1>2. CASE \E c \in Stores : StoreRow(c)
  BY <1>0, <1>2 DEF StoreRow, MemoryTypeOK
<1>3. CASE \E c \in Stores : StorePoint(c)
  <2>1. PICK c \in Stores : spc[c] = "point" /\ Proceed(c)
    BY <1>3 DEF StorePoint
  <2>2. CASE c # s
    BY <1>0, <2>1, <2>2 DEF Proceed, MemoryTypeOK
  <2>3. CASE c = s
    <3>1. m[2] < at[s]
      BY <2>1, <2>3
    <3> QED BY <1>0, <2>1, <2>3, <3>1 DEF Proceed, MemoryTypeOK
  <2> QED BY <2>2, <2>3
<1>4. CASE \E c \in Stores : Extract(c)
  BY <1>0, <1>4 DEF Extract, MemoryTypeOK
<1>5. CASE Crash
  BY <1>0, <1>5 DEF Crash, MemoryTypeOK
<1>6. CASE UNCHANGED store
  BY <1>6 DEF store
<1>7. CASE \/ \E e \in Erasers : BeginErase(e) \/ EraseRows(e) \/ ErasePoints(e)
           \/ DecayReads \/ DecayCommits \/ DecayRollsBack \/ MemoriesAge
           \/ UNCHANGED memoryVars
  <2>1. UNCHANGED store
    BY <1>7, Zenon DEF BeginErase, EraseRows, ErasePoints, DecayReads, DecayCommits,
       DecayRollsBack, MemoriesAge, memoryVars, store
  <2> QED BY <1>6, <2>1
<1> QED BY <1>1, <1>2, <1>3, <1>4, <1>5, <1>7 DEF NextMemory
\* A step that only takes memories out of the stores.
LEMMA OrderKept ==
    ASSUME MemoryInv, MemoryTypeOK', UNCHANGED <<spc, at, told>>,
           \A m \in Memories : /\ row'[m] # "none" => row[m] # "none"
                               /\ point'[m] => point[m]
    PROVE  StoredInOrder'
<1>1. \A m \in Memories : Settled(m)' <=> Settled(m)
  BY DEF Settled
<1>2. MemoryTypeOK /\ StoredInOrder
  BY DEF MemoryInv
<1>3. Rows' \subseteq Rows /\ Points' \subseteq Points /\ InFlight' = InFlight
  BY DEF Rows, Points, InFlight
<1>4. InFlight \subseteq Memories /\ told \subseteq Memories
      /\ Rows \subseteq Memories /\ Points \subseteq Memories
  BY <1>2, InFlightShape DEF MemoryTypeOK, Rows, Points
<1> QED BY <1>1, <1>2, <1>3, <1>4 DEF StoredInOrder

LEMMA OrderStep ==
    ASSUME MemoryInv, MemoryTypeOK', [NextMemory]_memoryVars
    PROVE  StoredInOrder'
<1> DEFINE Current(m) == spc[m[1]] \in {"row", "point"} /\ m[2] = at[m[1]]
           Current2(m) == spc'[m[1]] \in {"row", "point"} /\ m[2] = at'[m[1]]
<1>1. MemoryTypeOK /\ StoredInOrder
  BY DEF MemoryInv
<1>2. \A m \in Memories : Settled(m) => Settled(m)'
  BY <1>1, SettledStays
<1>3. /\ \A m \in Memories : row[m] # "none" \/ point[m] => Settled(m) \/ Current(m)
      /\ \A m \in told : Settled(m)
      /\ \A m \in Memories : Current(m) => ~point[m]
  <2>1. \A m : m \in Rows \cup Points <=> m \in Memories /\ (row[m] # "none" \/ point[m])
    BY Zenon DEF Rows, Points
  <2>2. \A m : m \in InFlight <=> m \in Memories /\ Current(m)
    BY <1>1, InFlightShape
  <2> HIDE DEF Current
  <2> QED BY <1>1, <2>1, <2>2, Zenon DEF StoredInOrder
<1>4. \A m \in Memories : Current(m) => ~Settled(m)
  BY <1>1, MemoryShape DEF Settled, MemoryTypeOK
<1>5. ASSUME \A m \in Memories :
                 /\ row'[m] # "none" \/ point'[m] => Settled(m)' \/ Current2(m)
                 /\ m \in told' => Settled(m)'
                 /\ Current2(m) => ~point'[m]
      PROVE  StoredInOrder'
  <2>1. Rows' \subseteq Memories /\ Points' \subseteq Memories /\ told' \subseteq Memories
    BY DEF Rows, Points, MemoryTypeOK
  <2>2. /\ InFlight' \subseteq Memories
        /\ \A m \in Memories : m \in InFlight' <=> Current2(m)
    BY MemoryShape DEF InFlight, MemoryTypeOK
  <2>3. \A m \in Memories :
           m \in Rows' \cup Points' => row'[m] # "none" \/ point'[m]
    BY DEF Rows, Points
  <2> HIDE DEF Current2
  <2> QED BY <1>5, <2>1, <2>2, <2>3 DEF StoredInOrder
<1>6. ASSUME NEW s \in Stores, Converse(s) PROVE StoredInOrder'
  <2> SUFFICES ASSUME NEW m \in Memories
               PROVE  /\ row'[m] # "none" \/ point'[m] => Settled(m)' \/ Current2(m)
                      /\ m \in told' => Settled(m)'
                      /\ Current2(m) => ~point'[m]
    BY <1>5
  <2>1. UNCHANGED <<row, point, at, told>> /\ spc' = [spc EXCEPT ![s] = "row"]
        /\ spc[s] = "idle"
    BY <1>6 DEF Converse
  <2>2. m[1] \in Stores /\ spc \in [Stores -> {"idle", "row", "point", "extract", "done"}]
    BY <1>1, MemoryShape DEF MemoryTypeOK
  <2>3. Current(m) => Current2(m)
    BY <2>1, <2>2
  <2>4. Current2(m) => Current(m) \/ m[1] = s
    BY <2>1, <2>2
  <2>5. m[1] = s => ~Settled(m) /\ ~Current(m)
    BY <2>1 DEF Settled
  <2> HIDE DEF Current, Current2
  <2> QED BY <1>2, <1>3, <2>1, <2>3, <2>4, <2>5, Zenon
<1>7. ASSUME NEW s \in Stores, StoreRow(s) PROVE StoredInOrder'
  <2> SUFFICES ASSUME NEW m \in Memories
               PROVE  /\ row'[m] # "none" \/ point'[m] => Settled(m)' \/ Current2(m)
                      /\ m \in told' => Settled(m)'
                      /\ Current2(m) => ~point'[m]
    BY <1>5
  <2>1. /\ UNCHANGED <<point, at, told>> /\ spc' = [spc EXCEPT ![s] = "point"]
        /\ spc[s] = "row"
        /\ row' = row \/ row' = [row EXCEPT ![<<s, at[s]>>] = "live"]
    BY <1>7 DEF StoreRow
  <2>2. m[1] \in Stores /\ spc \in [Stores -> {"idle", "row", "point", "extract", "done"}]
        /\ row \in [Memories -> {"none", "live", "faded"}]
    BY <1>1, MemoryShape DEF MemoryTypeOK
  <2>3. Current(m) <=> Current2(m)
    BY <2>1, <2>2
  <2>4. row'[m] # "none" => row[m] # "none" \/ Current(m)
    <3>1. CASE m = <<s, at[s]>>
      <4>1. m[1] = s /\ m[2] = at[s]
        BY <3>1
      <4> QED BY <2>1, <4>1
    <3>2. CASE m # <<s, at[s]>>
      BY <2>1, <2>2, <3>2
    <3> QED BY <3>1, <3>2
  <2>5. point'[m] = point[m] /\ told' = told
    BY <2>1
  <2> HIDE DEF Current, Current2
  <2> QED BY <1>2, <1>3, <2>3, <2>4, <2>5, Zenon
<1>8. ASSUME NEW s \in Stores, StorePoint(s) PROVE StoredInOrder'
  <2> SUFFICES ASSUME NEW m \in Memories
               PROVE  /\ row'[m] # "none" \/ point'[m] => Settled(m)' \/ Current2(m)
                      /\ m \in told' => Settled(m)'
                      /\ Current2(m) => ~point'[m]
    BY <1>5
  <2> DEFINE mine == <<s, at[s]>>
  <2>1. /\ UNCHANGED row /\ spc[s] = "point" /\ Proceed(s)
        /\ told' \subseteq told \cup {mine}
        /\ \E stored \in BOOLEAN : point' = [point EXCEPT ![mine] = stored]
    BY <1>8 DEF StorePoint, ToldOf
  <2>2. /\ m[1] \in Stores /\ m[2] \in 0 .. MaxFacts /\ m = <<m[1], m[2]>>
        /\ spc \in [Stores -> {"idle", "row", "point", "extract", "done"}]
        /\ at \in [Stores -> 0 .. MaxFacts] /\ facts \in [Stores -> 0 .. MaxFacts]
        /\ point \in [Memories -> BOOLEAN]
    BY <1>1, MemoryShape DEF MemoryTypeOK
  <2>3. m = mine <=> m[1] = s /\ m[2] = at[s]
    BY <2>2
  <2>4. m # mine => point'[m] = point[m]
    BY <2>1, <2>2
  \* The memory it was at is settled, the one it turns to was not.
  <2>5. m = mine => Settled(m)'
    <3>1. CASE at[s] = 0
      BY <2>1, <2>2, <2>3, <3>1 DEF Proceed, Settled
    <3>2. CASE at[s] # 0
      BY <2>1, <2>2, <2>3, <3>2 DEF Proceed, Settled
    <3> QED BY <3>1, <3>2
  <2>6. m[1] # s => (Current(m) <=> Current2(m))
    BY <2>1, <2>2 DEF Proceed
  <2>7. m[1] = s /\ Current2(m) => m # mine /\ ~Settled(m) /\ ~Current(m)
    BY <2>1, <2>2, <2>3 DEF Proceed, Settled
  <2>8. Current(m) /\ m[1] = s => m = mine
    BY <2>3
  <2>9. m[1] # s => m # mine
    BY <2>3
  <2> HIDE DEF Current, Current2, mine
  <2>10. row'[m] # "none" \/ point'[m] => Settled(m)' \/ Current2(m)
    BY <1>2, <1>3, <2>1, <2>4, <2>5, <2>6, <2>8, Zenon
  <2>11. m \in told' => Settled(m)'
    BY <1>2, <1>3, <2>1, <2>5, Zenon
  <2>12. Current2(m) => ~point'[m]
    BY <1>3, <2>4, <2>6, <2>7, <2>9, Zenon
  <2> QED BY <2>10, <2>11, <2>12
<1>9. ASSUME NEW s \in Stores, Extract(s) PROVE StoredInOrder'
  <2> SUFFICES ASSUME NEW m \in Memories
               PROVE  /\ row'[m] # "none" \/ point'[m] => Settled(m)' \/ Current2(m)
                      /\ m \in told' => Settled(m)'
                      /\ Current2(m) => ~point'[m]
    BY <1>5
  <2>1. /\ UNCHANGED <<row, point, told>> /\ spc[s] = "extract"
        /\ \/ spc' = [spc EXCEPT ![s] = "done"] /\ at' = at
           \/ spc' = [spc EXCEPT ![s] = "row"] /\ at' = [at EXCEPT ![s] = 1]
    BY <1>9 DEF Extract
  <2>2. /\ m[1] \in Stores /\ m[2] \in 0 .. MaxFacts
        /\ spc \in [Stores -> {"idle", "row", "point", "extract", "done"}]
        /\ at \in [Stores -> 0 .. MaxFacts]
    BY <1>1, MemoryShape DEF MemoryTypeOK
  <2>3. m[1] # s => (Current(m) <=> Current2(m))
    BY <2>1, <2>2
  <2>4. m[1] = s => ~Current(m)
    BY <2>1
  <2>5. m[1] = s /\ Current2(m) => ~Settled(m)
    BY <2>1, <2>2 DEF Settled
  <2> HIDE DEF Current, Current2
  <2> QED BY <1>2, <1>3, <2>1, <2>3, <2>4, <2>5, Zenon
<1>10. CASE Crash
  <2> SUFFICES ASSUME NEW m \in Memories
               PROVE  /\ row'[m] # "none" \/ point'[m] => Settled(m)' \/ Current2(m)
                      /\ m \in told' => Settled(m)'
                      /\ Current2(m) => ~point'[m]
    BY <1>5
  <2>1. UNCHANGED <<row, point, told>>
        /\ spc' = [s \in Stores |-> IF spc[s] = "idle" THEN "idle" ELSE "done"]
    BY <1>10 DEF Crash
  <2>2. m[1] \in Stores
    BY MemoryShape
  <2>3. ~Current2(m) /\ (Current(m) => Settled(m)')
    BY <2>1, <2>2 DEF Settled
  <2> HIDE DEF Current, Current2
  <2> QED BY <1>2, <1>3, <2>1, <2>3, Zenon
<1>11. ASSUME NEW e \in Erasers, BeginErase(e) \/ EraseRows(e) \/ ErasePoints(e)
       PROVE  StoredInOrder'
  <2>1. UNCHANGED <<spc, at, told>>
    BY <1>11 DEF BeginErase, EraseRows, ErasePoints, store
  <2>2. \A m \in Memories : row'[m] # "none" => row[m] # "none"
    BY <1>11 DEF BeginErase, EraseRows, ErasePoints
  <2>3. \A m \in Memories : point'[m] => point[m]
    BY <1>11, Zenon DEF BeginErase, EraseRows, ErasePoints
  <2> QED BY <2>1, <2>2, <2>3, OrderKept
<1>12. CASE DecayReads \/ DecayCommits \/ DecayRollsBack \/ MemoriesAge
  <2>1. UNCHANGED <<spc, at, told, point>>
    BY <1>12 DEF DecayReads, DecayCommits, DecayRollsBack, MemoriesAge, store
  <2>2. \A m \in Memories : row'[m] # "none" => row[m] # "none"
    BY <1>12 DEF DecayReads, DecayCommits, DecayRollsBack, MemoriesAge, Rows
  <2> QED BY <2>1, <2>2, OrderKept
<1>13. CASE UNCHANGED memoryVars
  BY <1>13, OrderKept DEF memoryVars
<1> QED BY <1>6, <1>7, <1>8, <1>9, <1>10, <1>11, <1>12, <1>13 DEF NextMemory

\* What an eraser is after stays settled, and no row or point of it comes back.
LEMMA ErasureStep ==
    ASSUME MemoryInv, [NextMemory]_memoryVars
    PROVE  ErasureHolds' /\ ErasedForGood'
<1>1. /\ MemoryTypeOK /\ due \in [Erasers -> SUBSET Memories] /\ gone \subseteq Memories
      /\ epc \in [Erasers -> {"idle", "rows", "points"}]
      /\ seen \in [Erasers -> SUBSET Memories]
  BY DEF MemoryInv, MemoryTypeOK
<1>2. \A m \in Memories : Settled(m) => Settled(m)'
  BY <1>1, SettledStays
<1>3. /\ \A e \in Erasers : \A m \in due[e] :
            /\ Settled(m)
            /\ \/ epc[e] = "rows" /\ (row[m] = "none" \/ m \in seen[e])
               \/ epc[e] = "points" /\ row[m] = "none"
      /\ \A m \in gone : Settled(m) /\ row[m] = "none" /\ ~point[m]
  BY DEF MemoryInv, ErasureHolds, ErasedForGood
\* Neither a store nor the decay writes a settled memory that has no row.
<1>4. ASSUME UNCHANGED <<erase, gone>>,
             \A m \in Memories : Settled(m) => /\ row[m] = "none" => row'[m] = "none"
                                               /\ point'[m] => point[m]
      PROVE  ErasureHolds' /\ ErasedForGood'
  <2>1. UNCHANGED <<epc, seen, due, gone>>
    BY <1>4 DEF erase
  <2>2. \A m \in gone : m \in Memories
    BY <1>1
  <2>3. \A e \in Erasers : \A m \in due[e] : m \in Memories
    BY <1>1
  <2>4. ErasedForGood'
    BY <1>3, <1>4, <2>1, <2>2, Zenon DEF ErasedForGood
  <2>5. ErasureHolds'
    BY <1>2, <1>3, <1>4, <2>1, <2>2, <2>3, Zenon DEF ErasureHolds
  <2> QED BY <2>4, <2>5
<1>5. ASSUME NEW s \in Stores, Converse(s) \/ Extract(s)
      PROVE  ErasureHolds' /\ ErasedForGood'
  BY <1>4, <1>5 DEF Converse, Extract
<1>6. ASSUME NEW s \in Stores, StoreRow(s) \/ StorePoint(s)
      PROVE  ErasureHolds' /\ ErasedForGood'
  <2>1. spc[s] \in {"row", "point"} /\ UNCHANGED <<erase, gone>>
    BY <1>6 DEF StoreRow, StorePoint
  <2>2. ASSUME NEW m \in Memories, Settled(m)
        PROVE  row'[m] = row[m] /\ point'[m] = point[m]
    <3>1. m # <<s, at[s]>>
      <4>1. CASE m[1] = s
        <5>1. m[2] < at[s]
          BY <2>1, <2>2, <4>1 DEF Settled
        <5>2. m[2] \in Int /\ at[s] \in Int
          BY <1>1, <2>2, MemoryShape DEF MemoryTypeOK
        <5> QED BY <5>1, <5>2
      <4> QED BY <4>1
    <3>2. row'[m] = row[m]
      BY <1>1, <1>6, <3>1 DEF StoreRow, StorePoint, MemoryTypeOK
    <3>3. point'[m] = point[m]
      BY <1>1, <1>6, <3>1 DEF StoreRow, StorePoint, MemoryTypeOK
    <3> QED BY <3>2, <3>3
  <2> QED BY <1>4, <2>1, <2>2
<1>7. ASSUME NEW e \in Erasers, BeginErase(e) PROVE ErasureHolds' /\ ErasedForGood'
  <2>1. /\ UNCHANGED <<row, point, gone>>
        /\ epc' = [epc EXCEPT ![e] = "rows"]
        /\ seen' = [seen EXCEPT ![e] = Rows]
        /\ due' = [due EXCEPT ![e] = (Rows \cup Points) \ InFlight]
        /\ UNCHANGED store
    BY <1>7 DEF BeginErase
  <2>2. \A m \in due'[e] : m \in Memories /\ Settled(m) /\ (row[m] = "none" \/ m \in Rows)
    <3>1. due'[e] = (Rows \cup Points) \ InFlight
      BY <1>1, <2>1
    <3> QED BY <3>1 DEF MemoryInv, StoredInOrder, Rows, Points
  <2>3. ASSUME NEW f \in Erasers, NEW m \in due'[f]
        PROVE  /\ Settled(m)'
               /\ \/ epc'[f] = "rows" /\ (row'[m] = "none" \/ m \in seen'[f])
                  \/ epc'[f] = "points" /\ row'[m] = "none"
    <3>1. CASE f = e
      BY <1>1, <1>2, <2>1, <2>2, <2>3, <3>1
    <3>2. CASE f # e
      BY <1>1, <1>2, <1>3, <2>1, <2>3, <3>2
    <3> QED BY <3>1, <3>2
  <2>4. ErasedForGood'
    BY <1>3, <2>1, Zenon DEF ErasedForGood
  <2>5. \A m \in gone' : Settled(m)'
    BY <1>1, <1>2, <1>3, <2>1
  <2> QED BY <2>3, <2>4, <2>5 DEF ErasureHolds
<1>8. ASSUME NEW e \in Erasers, EraseRows(e) PROVE ErasureHolds' /\ ErasedForGood'
  <2>1. /\ UNCHANGED <<point, gone>> /\ epc[e] = "rows"
        /\ epc' = [epc EXCEPT ![e] = "points"]
        /\ seen' = [seen EXCEPT ![e] = {}]
        /\ \/ row' = [m \in Memories |-> IF m \in seen[e] THEN "none" ELSE row[m]]
              /\ due' = due
           \/ row' = row /\ due' = [due EXCEPT ![e] = {}]
    BY <1>8 DEF EraseRows
  <2>2. \A m \in Memories : row[m] = "none" => row'[m] = "none"
    BY <2>1
  <2>3. ASSUME NEW f \in Erasers, NEW m \in due'[f]
        PROVE  /\ Settled(m)'
               /\ \/ epc'[f] = "rows" /\ (row'[m] = "none" \/ m \in seen'[f])
                  \/ epc'[f] = "points" /\ row'[m] = "none"
    <3>1. CASE f = e
      <4>1. due' = due /\ row' = [n \in Memories |-> IF n \in seen[e] THEN "none" ELSE row[n]]
        BY <1>1, <2>1, <2>3, <3>1
      <4>2. m \in Memories /\ m \in due[e]
        BY <1>1, <2>3, <3>1, <4>1
      <4> QED BY <1>1, <1>2, <1>3, <2>1, <3>1, <4>1, <4>2
    <3>2. CASE f # e
      <4>1. m \in due[f] /\ m \in Memories /\ epc'[f] = epc[f] /\ seen'[f] = seen[f]
        BY <1>1, <2>1, <2>3, <3>2
      <4> QED BY <1>2, <1>3, <2>2, <4>1
    <3> QED BY <3>1, <3>2
  <2>4. ErasedForGood'
    BY <1>1, <1>3, <2>1, <2>2, Zenon DEF ErasedForGood
  <2>5. \A m \in gone' : Settled(m)'
    BY <1>1, <1>2, <1>3, <2>1
  <2> QED BY <2>3, <2>4, <2>5 DEF ErasureHolds
<1>9. ASSUME NEW e \in Erasers, ErasePoints(e) PROVE ErasureHolds' /\ ErasedForGood'
  <2>1. /\ UNCHANGED <<row, seen>> /\ epc[e] = "points"
        /\ epc' = [epc EXCEPT ![e] = "idle"]
        /\ due' = [due EXCEPT ![e] = {}]
    BY <1>9 DEF ErasePoints
  <2>2. \/ point' = [m \in Memories |-> FALSE] /\ gone' = gone \cup due[e]
        \/ point' = point /\ gone' = gone
    BY <1>9, Zenon DEF ErasePoints
  <2>3. ASSUME NEW f \in Erasers, NEW m \in due'[f]
        PROVE  /\ Settled(m)'
               /\ \/ epc'[f] = "rows" /\ (row'[m] = "none" \/ m \in seen'[f])
                  \/ epc'[f] = "points" /\ row'[m] = "none"
    BY <1>1, <1>2, <1>3, <2>1, <2>3
  <2>4. \A m \in due[e] : m \in Memories /\ Settled(m) /\ row[m] = "none"
    BY <1>1, <1>3, <2>1
  <2>5. \A m \in gone' : Settled(m)'
    BY <1>1, <1>2, <1>3, <2>2, <2>4
  <2>6. ErasedForGood'
    <3>1. CASE point' = [m \in Memories |-> FALSE] /\ gone' = gone \cup due[e]
      <4> SUFFICES ASSUME NEW m \in gone' PROVE row'[m] = "none" /\ ~point'[m]
        BY DEF ErasedForGood
      <4>1. m \in Memories
        BY <1>1, <2>4, <3>1
      <4>2. ~point'[m]
        BY <3>1, <4>1
      <4> QED BY <1>3, <2>1, <2>4, <3>1, <4>2
    <3>2. CASE point' = point /\ gone' = gone
      BY <1>3, <2>1, <3>2, Zenon DEF ErasedForGood
    <3> QED BY <2>2, <3>1, <3>2
  <2> QED BY <2>3, <2>5, <2>6 DEF ErasureHolds
<1>10. CASE DecayCommits
  <2>1. /\ Victims \subseteq Rows /\ UNCHANGED <<point, erase, gone>>
        /\ row' = [m \in Memories |-> IF m \in Victims THEN "faded" ELSE row[m]]
    BY <1>10 DEF DecayCommits
  <2>2. \A m \in Memories : row[m] = "none" => row'[m] = "none"
    BY <2>1 DEF Rows
  <2> QED BY <1>4, <2>1, <2>2
<1>11. CASE DecayReads \/ DecayRollsBack \/ MemoriesAge
  BY <1>4, <1>11 DEF DecayReads, DecayRollsBack, MemoriesAge
<1>12. CASE Crash
  <2>1. UNCHANGED <<row, point, gone>> /\ due' = [e \in Erasers |-> {}]
    BY <1>12 DEF Crash
  <2>2. ErasedForGood'
    BY <1>3, <2>1, Zenon DEF ErasedForGood
  <2>3. \A m \in gone' : Settled(m)'
    BY <1>1, <1>2, <1>3, <2>1
  <2> QED BY <2>1, <2>2, <2>3 DEF ErasureHolds
<1>13. CASE UNCHANGED memoryVars
  BY <1>4, <1>13 DEF memoryVars, erase
<1> QED BY <1>5, <1>6, <1>7, <1>8, <1>9, <1>10, <1>11, <1>12, <1>13 DEF NextMemory

THEOREM MemorySpecInv == MemorySpec => []MemoryInv
<1>1. MemoryInv /\ [NextMemory]_memoryVars => MemoryInv'
  BY MemoryTypeStep, OrderStep, ErasureStep DEF MemoryInv
<1> QED BY <1>1, InitMemoryInv, PTL DEF MemorySpec

\* What an erasure took of a user stays away from both stores, for any number of
\* conversations being stored, erasures and decays that overlap it (ErasedForGood;
\* delete_user_data, _store_in_db, _apply_decay_sync).
THEOREM ErasureIsFinal == MemorySpec => []ErasedForGood
<1>1. MemoryInv => ErasedForGood
  BY DEF MemoryInv
<1> QED BY <1>1, MemorySpecInv, PTL

\* What a caller was told is stored stays findable through every step that is not
\* an eraser's.
LEMMA KeptStep ==
    ASSUME MemoryInv, [NextMemory]_memoryVars, NEW m \in told'
    PROVE  \/ Findable(m)'
           \/ m \in told /\ (~Findable(m) \/ EraserRuns)
           \/ m \notin told /\ inDb[m[1]]
<1>1. /\ MemoryTypeOK /\ told \subseteq Memories
      /\ epc \in [Erasers -> {"idle", "rows", "points"}]
      /\ row \in [Memories -> {"none", "live", "faded"}]
      /\ point \in [Memories -> BOOLEAN]
      /\ inDb \in [Stores -> BOOLEAN]
  BY DEF MemoryInv, MemoryTypeOK
<1>2. ASSUME told' = told, row[m] # "none" => row'[m] # "none", point[m] => point'[m]
      PROVE  Findable(m)' \/ (m \in told /\ ~Findable(m))
  <2>1. m \in told
    BY <1>2
  <2>2. CASE Findable(m)
    BY <1>2, <2>2, Zenon DEF Findable
  <2> QED BY <2>1, <2>2
<1>3. ASSUME NEW s \in Stores, Converse(s) \/ StoreRow(s) \/ Extract(s)
      PROVE  Findable(m)' \/ (m \in told /\ ~Findable(m))
  <2>1. told' = told /\ point' = point
    BY <1>3 DEF Converse, StoreRow, Extract
  <2>2. row[m] # "none" => row'[m] # "none"
    BY <1>1, <1>3, <2>1 DEF Converse, StoreRow, Extract
  <2> QED BY <1>2, <2>1, <2>2
<1>4. ASSUME NEW s \in Stores, StorePoint(s)
      PROVE  \/ Findable(m)'
             \/ m \in told /\ ~Findable(m)
             \/ m \notin told /\ inDb[m[1]]
  <2> DEFINE mine == <<s, at[s]>>
  <2>1. PICK stored \in BOOLEAN : /\ point' = [point EXCEPT ![mine] = stored]
                                  /\ ToldOf(s, stored)
    BY <1>4 DEF StorePoint
  <2>2. row' = row /\ spc[s] = "point"
    BY <1>4 DEF StorePoint
  <2>3. mine \in Memories /\ mine[1] = s /\ mine[2] = at[s]
    BY <1>1, MemoryShape DEF MemoryTypeOK
  <2>4. mine \notin told
    <3>1. ~Settled(mine)
      <4>1. at[s] \in Int
        BY <1>1 DEF MemoryTypeOK
      <4> QED BY <2>2, <2>3, <4>1 DEF Settled
    <3> QED BY <3>1 DEF MemoryInv, StoredInOrder
  <2>5. CASE m \in told
    <3>1. m # mine /\ m \in Memories
      BY <1>1, <2>4, <2>5
    <3>2. point'[m] = point[m]
      BY <1>1, <2>1, <2>3, <3>1
    <3> QED BY <2>2, <2>5, <3>2, Zenon DEF Findable
  <2>6. CASE m \notin told
    <3>1. m = mine /\ (inDb[s] \/ stored)
      BY <2>1, <2>6 DEF ToldOf
    <3>2. stored => point'[m]
      BY <1>1, <2>1, <2>3, <3>1
    <3> QED BY <2>3, <2>6, <3>1, <3>2, Zenon DEF Findable
  <2> QED BY <2>5, <2>6
<1>5. ASSUME NEW e \in Erasers, BeginErase(e) \/ EraseRows(e) \/ ErasePoints(e)
      PROVE  EraserRuns /\ m \in told
  <2>1. told' = told /\ epc'[e] # epc[e]
    BY <1>1, <1>5 DEF BeginErase, EraseRows, ErasePoints
  <2> QED BY <2>1 DEF EraserRuns
<1>6. CASE DecayCommits
  <2>1. /\ told' = told /\ point' = point
        /\ row' = [n \in Memories |-> IF n \in Victims THEN "faded" ELSE row[n]]
    BY <1>6 DEF DecayCommits
  <2>2. row[m] # "none" => row'[m] # "none"
    BY <1>1, <2>1
  <2> QED BY <1>2, <2>1, <2>2
<1>7. CASE DecayReads \/ DecayRollsBack \/ MemoriesAge \/ Crash \/ UNCHANGED memoryVars
  <2>1. told' = told /\ point' = point /\ row' = row
    BY <1>7 DEF DecayReads, DecayRollsBack, MemoriesAge, Crash, memoryVars
  <2> QED BY <1>2, <2>1
<1> QED BY <1>3, <1>4, <1>5, <1>6, <1>7 DEF NextMemory

\* store_memory never loses what it reported as stored, except to an eraser
\* (StoredIsKept): neither the point that is written after the row, nor a decay,
\* nor a crash takes a memory whose id was returned out of both stores.
THEOREM ToldMemoriesAreKept == MemorySpec => StoredIsKept
<1>1. MemoryInv /\ [NextMemory]_memoryVars =>
        [\A m \in told' :
           \/ Findable(m)'
           \/ m \in told /\ (~Findable(m) \/ EraserRuns)
           \/ m \notin told /\ inDb[m[1]]]_memoryVars
  BY KeptStep
<1> QED BY <1>1, MemorySpecInv, PTL DEF MemorySpec, StoredIsKept
=============================================================================
