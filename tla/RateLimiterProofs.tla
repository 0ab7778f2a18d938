------------------------- MODULE RateLimiterProofs -------------------------
(***************************************************************************)
(* Proofs that hold for every number of requests, users, addresses and     *)
(* processes, every limit and every window: the limiter keeps its types,   *)
(* never grants a bucket more request ids than a limit that applies to it, *)
(* and implements SlidingWindow.                                           *)
(*                                                                         *)
(* The argument is that Redis never forgets an admission that still        *)
(* counts.  A script deletes an entry only if it is Window(b) older than   *)
(* the script's own stamp; that stamp is not ahead of the clock, and the   *)
(* entry's stamp is at most MaxDelay behind the time it was admitted.  The *)
(* key's expiry is renewed at each admission, so it comes no earlier.      *)
(* Every admission of the log is therefore in the sorted set, and the      *)
(* script compares the size of that set with the caller's limit.           *)
(***************************************************************************)
EXTENDS RateLimiter, FiniteSetTheorems, WellFoundedInduction, TLAPS

\* A request that is about to send its EVAL took its stamp at most MaxDelay ago.
StampsRecent ==
    \A r \in Requests : pc[r] = "eval" => /\ stamp[r] <= now
                                          /\ now <= stamp[r] + MaxDelay

\* What the log says of an admission: when it was stamped, that it still counts,
\* that its entry is in the sorted set, and that the key outlives it.
LogInZset ==
    \A b \in Buckets : \A e \in log[b] :
        /\ e.at <= now
        /\ e.at <= e.id[1] + MaxDelay
        /\ e.at > now - CountedFor(b)
        /\ e.id \in zset[b]
        /\ expires[b] > e.at + Window(b)

\* The script keeps the sorted set within a limit that applies to the bucket.
ZsetWithinLimit ==
    \A b \in Buckets :
        /\ IsFiniteSet(zset[b])
        /\ \E l \in LimitsOn(b) : Cardinality(zset[b]) <= l

IInv == TypeOK /\ StampsRecent /\ LogInZset /\ ZsetWithinLimit

----------------------------------------------------------------------------
USE UsersAssumption, SenderAssumption, LimitAssumption, TimeAssumption

LEMMA WindowType ==
    \A b \in Buckets : /\ Window(b) \in Nat
                        /\ CountedFor(b) \in Nat \ {0}
                        /\ CountedFor(b) = Window(b) - MaxDelay
  BY DEF Window, CountedFor

\* The bucket a request is checked against exists, its limit is among those
\* that apply to the bucket, and every bucket has a limit.
LEMMA BucketFacts ==
    ASSUME TypeOK, NEW r \in Requests
    PROVE  /\ Bucket(r) \in Buckets
           /\ MyLimit(r) \in LimitsOn(Bucket(r))
           /\ MyLimit(r) \in Nat
           /\ RequestId(r) \in Ids
  <1>1. Sender[r].user \in Users /\ Sender[r].ip \in IPs /\ Sender[r].proc \in Procs
    OBVIOUS
  <1>2. stage[r] \in {"user", "ip", "hour"} /\ stamp[r] \in 0 .. MaxTime
    BY DEF TypeOK
  <1>3. CASE stage[r] = "ip"
    BY <1>1, <1>2, <1>3
    DEF Bucket, BucketOf, Buckets, MyLimit, LimitOf, LimitsOn, RequestId, Ids
  <1>4. CASE stage[r] # "ip"
    BY <1>1, <1>2, <1>4
    DEF Bucket, BucketOf, Buckets, MyLimit, LimitOf, LimitsOn, RequestId, Ids
  <1> QED BY <1>3, <1>4

LEMMA LimitsNat ==
    ASSUME NEW b \in Buckets
    PROVE  LimitsOn(b) \in SUBSET Nat /\ LimitsOn(b) # {}
  <1>1. \A u \in Users, s \in {"user", "ip", "hour"} : LimitOf(u, s) \in Nat
    BY DEF LimitOf
  <1>2. CASE b[1] = "ip"
    BY <1>1, <1>2 DEF LimitsOn
  <1>3. CASE b[1] # "ip"
    <2>1. b[1] \in {"user", "hour"} /\ b[2] \in Users
      BY <1>3 DEF Buckets
    <2> QED BY <1>1, <1>3, <2>1 DEF LimitsOn
  <1> QED BY <1>2, <1>3

----------------------------------------------------------------------------
LEMMA InitInv == Init => IInv
  <1> SUFFICES ASSUME Init PROVE IInv
    OBVIOUS
  <1>1. TypeOK
    BY DEF Init, TypeOK
  <1>2. StampsRecent /\ LogInZset
    BY DEF Init, StampsRecent, LogInZset
  <1>3. ZsetWithinLimit
    <2> SUFFICES ASSUME NEW b \in Buckets
                 PROVE  /\ IsFiniteSet(zset[b])
                        /\ \E l \in LimitsOn(b) : Cardinality(zset[b]) <= l
      BY DEF ZsetWithinLimit
    <2>1. zset[b] = {}
      BY DEF Init
    <2>2. PICK l \in LimitsOn(b) : l \in Nat
      BY LimitsNat
    <2> QED BY <2>1, <2>2, FS_EmptySet
  <1> QED BY <1>1, <1>2, <1>3 DEF IInv

LEMMA TypeOKStep == TypeOK /\ [Next]_vars => TypeOK'
  <1> SUFFICES ASSUME TypeOK, [Next]_vars PROVE TypeOK'
    OBVIOUS
  <1> USE DEF TypeOK
  <1>1. ASSUME NEW r \in Requests, Lost(r)
        PROVE  /\ zset' \in [Buckets -> SUBSET Ids]
               /\ expires' \in [Buckets -> Nat]
               /\ log' \in [Buckets -> SUBSET [id : Ids, at : Nat]]
    <2>1. CASE UNCHANGED <<zset, expires, log>>
      BY <2>1
    <2>2. CASE RunScript(r)
      <3> DEFINE b == Bucket(r)
      <3>1. b \in Buckets /\ RequestId(r) \in Ids /\ Window(b) \in Nat
        BY BucketFacts, WindowType
      <3>2. Purged(b, stamp[r]) \in SUBSET Ids
        BY <3>1 DEF Purged
      <3>3. [id |-> RequestId(r), at |-> now] \in [id : Ids, at : Nat]
        BY <3>1
      <3> QED BY <2>2, <3>1, <3>2, <3>3, SMTT(30) DEF RunScript
    <2> QED BY <1>1, <2>1, <2>2 DEF Lost
  <1>2. ASSUME NEW r \in Requests,
               \/ \E s \in {"user", "ip", "hour"} : BeginCheck(r, s)
               \/ \E how \in {"served", "denied"} : Answer(r, how)
        PROVE  /\ pc' \in [Requests -> {"idle", "eval", "served", "denied"}]
               /\ stage' \in [Requests -> {"user", "ip", "hour"}]
               /\ stamp' \in [Requests -> 0 .. MaxTime]
               /\ tries' \in [Requests -> 0 .. MaxTries - 1]
    <2>1. 0 \in 0 .. MaxTries - 1 /\ 0 \in 0 .. MaxTime
      OBVIOUS
    <2>2. CASE \E s \in {"user", "ip", "hour"} : BeginCheck(r, s)
      BY <2>1, <2>2 DEF BeginCheck
    <2>3. CASE \E how \in {"served", "denied"} : Answer(r, how)
      BY <2>1, <2>3 DEF Answer
    <2> QED BY <1>2, <2>2, <2>3
  <1>3. ASSUME NEW r \in Requests, Proceed(r)
        PROVE  \/ \E s \in {"user", "ip", "hour"} : BeginCheck(r, s)
               \/ Answer(r, "served")
    BY <1>3 DEF Proceed, AfterCheck
  <1>4. ASSUME NEW r \in Requests, Arrive(r) PROVE TypeOK'
    BY <1>2, <1>4 DEF Arrive, redisVars
  <1>5. ASSUME NEW r \in Requests, EvalAllowed(r) PROVE TypeOK'
    BY <1>1, <1>2, <1>3, <1>5 DEF EvalAllowed, Lost
  <1>6. ASSUME NEW r \in Requests, EvalDenied(r) PROVE TypeOK'
    BY <1>1, <1>2, <1>6 DEF EvalDenied, Lost
  <1>7. ASSUME NEW r \in Requests, EvalResent(r) PROVE TypeOK'
    <2>1. tries' \in [Requests -> 0 .. MaxTries - 1]
      BY <1>7 DEF EvalResent, MayResend
    <2> QED BY <1>1, <1>7, <2>1 DEF EvalResent
  <1>8. ASSUME NEW r \in Requests, EvalGivenUp(r) PROVE TypeOK'
    BY <1>1, <1>2, <1>3, <1>8 DEF EvalGivenUp
  <1>9. ASSUME NEW r \in Requests, EvalUnreachable(r) PROVE TypeOK'
    BY <1>2, <1>3, <1>9 DEF EvalUnreachable, redisVars
  <1>10. ASSUME NEW u \in Users, Reset(u) PROVE TypeOK'
    BY <1>10 DEF Reset, requestVars
  <1>11. CASE Outage \/ Recovery
    BY <1>11 DEF Outage, Recovery, requestVars
  <1>12. CASE Tick
    BY <1>12 DEF Tick, requestVars
  <1>13. CASE UNCHANGED vars
    BY <1>13 DEF vars
  <1> QED
    BY <1>4, <1>5, <1>6, <1>7, <1>8, <1>9, <1>10, <1>11, <1>12, <1>13
    DEF Next, Step

----------------------------------------------------------------------------
(* The script, run by a request whose stamp is recent, keeps the log in the *)
(* sorted set and the sorted set within a limit.                            *)

LEMMA ScriptStep ==
    ASSUME IInv, now' = now, NEW r \in Requests, pc[r] = "eval", RunScript(r)
    PROVE  LogInZset' /\ ZsetWithinLimit'
  <1> DEFINE b    == Bucket(r)
             kept == Purged(b, stamp[r])
             grant == [id |-> RequestId(r), at |-> now]
  <1>1. /\ b \in Buckets /\ MyLimit(r) \in LimitsOn(b) /\ MyLimit(r) \in Nat
        /\ RequestId(r) \in Ids
    BY BucketFacts DEF IInv
  <1>2. /\ Window(b) \in Nat /\ CountedFor(b) \in Nat \ {0}
        /\ CountedFor(b) = Window(b) - MaxDelay
    BY <1>1, WindowType
  <1>3. /\ now \in Nat /\ stamp[r] \in Nat
        /\ stamp[r] <= now /\ now <= stamp[r] + MaxDelay
    BY DEF IInv, TypeOK, StampsRecent
  <1>4. kept \subseteq zset[b] /\ IsFiniteSet(zset[b]) /\ IsFiniteSet(kept)
    BY <1>1, FS_Subset DEF Purged, IInv, ZsetWithinLimit
  <1>5. Cardinality(kept) \in Nat /\ Cardinality(zset[b]) \in Nat
        /\ Cardinality(kept) <= Cardinality(zset[b])
    BY <1>4, FS_Subset, FS_CardinalityType
  <1>6. \A e \in log[b] : e.id \in kept
    <2> SUFFICES ASSUME NEW e \in log[b] PROVE e.id \in kept
      OBVIOUS
    <2>1. e \in [id : Ids, at : Nat]
      BY <1>1 DEF IInv, TypeOK
    <2>2. /\ e.id \in zset[b] /\ e.at \in Nat /\ e.id[1] \in Nat
          /\ e.at <= e.id[1] + MaxDelay
          /\ e.at > now - CountedFor(b)
      BY <1>1, <2>1 DEF IInv, LogInZset, Ids
    <2>3. e.id[1] > stamp[r] - Window(b)
      BY <1>2, <1>3, <2>2
    <2> QED BY <2>2, <2>3 DEF Purged
  <1>7. ASSUME NEW c \in Buckets, c # b
        PROVE  zset'[c] = zset[c] /\ log'[c] = log[c] /\ expires'[c] = expires[c]
    BY <1>1, <1>7 DEF RunScript, IInv, TypeOK
  <1>8. CASE HasRoom(kept, MyLimit(r))
    <2>1. /\ zset'[b] = kept \cup {RequestId(r)}
          /\ log'[b] = log[b] \cup {grant}
          /\ expires'[b] = now + Window(b) + Second
      BY <1>1, <1>8 DEF RunScript, IInv, TypeOK
    <2>2. /\ IsFiniteSet(zset'[b])
          /\ Cardinality(zset'[b]) <= MyLimit(r)
      <3>1. \/ Cardinality(zset'[b]) = Cardinality(kept)
            \/ Cardinality(zset'[b]) = Cardinality(kept) + 1
        BY <1>4, <2>1, FS_AddElement, ZenonT(60)
      <3>2. Cardinality(kept) < MyLimit(r)
        BY <1>8 DEF HasRoom
      <3>3. IsFiniteSet(zset'[b])
        <4> HIDE DEF kept, b
        <4>1. IsFiniteSet(kept \cup {RequestId(r)})
          BY <1>4, FS_AddElement
        <4> QED BY <2>1, <4>1
      <3>4. Cardinality(zset'[b]) <= MyLimit(r)
        <4> HIDE DEF kept, b
        <4> QED BY <1>1, <1>5, <3>1, <3>2
      <3> QED BY <3>3, <3>4
    <2>3. ZsetWithinLimit'
      <3> SUFFICES ASSUME NEW c \in Buckets
                   PROVE  /\ IsFiniteSet(zset'[c])
                          /\ \E l \in LimitsOn(c) : Cardinality(zset'[c]) <= l
        BY DEF ZsetWithinLimit
      <3>1. CASE c = b
        BY <1>1, <2>2, <3>1
      <3>2. CASE c # b
        BY <1>7, <3>2 DEF IInv, ZsetWithinLimit
      <3> QED BY <3>1, <3>2
    <2>4. LogInZset'
      <3> SUFFICES ASSUME NEW c \in Buckets, NEW e \in log'[c]
                   PROVE  /\ e.at <= now
                          /\ e.at <= e.id[1] + MaxDelay
                          /\ e.at > now - CountedFor(c)
                          /\ e.id \in zset'[c]
                          /\ expires'[c] > e.at + Window(c)
        BY DEF LogInZset
      <3>1. CASE c # b
        BY <1>7, <3>1 DEF IInv, LogInZset
      <3>2. CASE c = b /\ e = grant
        BY <1>2, <1>3, <2>1, <3>2 DEF RequestId
      <3>3. CASE c = b /\ e \in log[b]
        <4>1. e \in [id : Ids, at : Nat]
          BY <1>1, <3>3 DEF IInv, TypeOK
        <4>2. /\ e.at <= now /\ e.at <= e.id[1] + MaxDelay
              /\ e.at > now - CountedFor(b)
          BY <1>1, <3>3 DEF IInv, LogInZset
        <4>3. expires'[b] > e.at + Window(b)
          BY <1>2, <1>3, <2>1, <4>1, <4>2
        <4> QED BY <1>6, <2>1, <3>3, <4>2, <4>3
      <3> QED BY <2>1, <3>1, <3>2, <3>3
    <2> QED BY <2>3, <2>4
  <1>9. CASE ~HasRoom(kept, MyLimit(r))
    <2>1. zset'[b] = kept /\ log' = log /\ expires' = expires
      BY <1>1, <1>9 DEF RunScript, IInv, TypeOK
    <2>2. PICK l \in LimitsOn(b) : Cardinality(zset[b]) <= l
      BY <1>1 DEF IInv, ZsetWithinLimit
    <2>3. Cardinality(kept) <= l
      BY <1>1, <1>5, <2>2, LimitsNat
    <2>4. ZsetWithinLimit'
      <3> SUFFICES ASSUME NEW c \in Buckets
                   PROVE  /\ IsFiniteSet(zset'[c])
                          /\ \E m \in LimitsOn(c) : Cardinality(zset'[c]) <= m
        BY DEF ZsetWithinLimit
      <3>1. CASE c = b
        BY <1>4, <2>1, <2>3, <3>1
      <3>2. CASE c # b
        BY <1>7, <3>2 DEF IInv, ZsetWithinLimit
      <3> QED BY <3>1, <3>2
    <2>5. LogInZset'
      <3> SUFFICES ASSUME NEW c \in Buckets, NEW e \in log[c]
                   PROVE  e.id \in zset'[c]
        BY <2>1 DEF IInv, LogInZset
      <3>1. CASE c = b
        BY <1>6, <2>1, <3>1
      <3>2. CASE c # b
        BY <1>7, <3>2 DEF IInv, LogInZset
      <3> QED BY <3>1, <3>2
    <2> QED BY <2>4, <2>5
  <1> QED BY <1>8, <1>9

LEMMA LostStep ==
    ASSUME IInv, now' = now, NEW r \in Requests, pc[r] = "eval", Lost(r)
    PROVE  LogInZset' /\ ZsetWithinLimit'
  <1>1. CASE RunScript(r)
    BY <1>1, ScriptStep
  <1>2. CASE UNCHANGED <<zset, expires, log>>
    BY <1>2 DEF IInv, LogInZset, ZsetWithinLimit
  <1> QED BY <1>1, <1>2 DEF Lost

\* Whatever a request does next, a stamp it holds while its EVAL is pending is
\* the present time or one that was recent already.
LEMMA StampStep ==
    ASSUME IInv, now' = now, NEW r \in Requests,
           \/ \E s \in {"user", "ip", "hour"} : BeginCheck(r, s)
           \/ \E how \in {"served", "denied"} : Answer(r, how)
           \/ UNCHANGED <<pc, stamp>>
    PROVE  StampsRecent'
  <1> SUFFICES ASSUME NEW q \in Requests, pc'[q] = "eval"
               PROVE  stamp'[q] <= now /\ now <= stamp'[q] + MaxDelay
    BY DEF StampsRecent
  <1>1. now \in Nat
    BY DEF IInv, TypeOK
  <1>2. CASE \E s \in {"user", "ip", "hour"} : BeginCheck(r, s)
    BY <1>1, <1>2 DEF BeginCheck, IInv, TypeOK, StampsRecent
  <1>3. CASE \E how \in {"served", "denied"} : Answer(r, how)
    BY <1>1, <1>3 DEF Answer, IInv, TypeOK, StampsRecent
  <1>4. CASE UNCHANGED <<pc, stamp>>
    BY <1>4 DEF IInv, StampsRecent
  <1> QED BY <1>2, <1>3, <1>4

LEMMA ProceedShape ==
    ASSUME TypeOK, NEW r \in Requests, Proceed(r)
    PROVE  \/ \E s \in {"user", "ip", "hour"} : BeginCheck(r, s)
           \/ \E how \in {"served", "denied"} : Answer(r, how)
  BY DEF Proceed, AfterCheck, TypeOK

LEMMA ResetStep ==
    ASSUME IInv, NEW u \in Users, Reset(u)
    PROVE  StampsRecent' /\ LogInZset' /\ ZsetWithinLimit'
  <1>1. PICK found \in SUBSET {c \in {"user", "hour"} \X {u} : zset[c] # {}} :
              /\ zset' = [c \in Buckets |-> IF c \in found THEN {} ELSE zset[c]]
              /\ log'  = [c \in Buckets |-> IF c \in found THEN {} ELSE log[c]]
              /\ UNCHANGED <<now, redisUp, expires, requestVars>>
    BY DEF Reset
  <1>2. StampsRecent'
    BY <1>1 DEF IInv, StampsRecent, requestVars
  <1>3. LogInZset'
    BY <1>1 DEF IInv, LogInZset
  <1>4. ZsetWithinLimit'
    <2> SUFFICES ASSUME NEW b \in Buckets
                 PROVE  /\ IsFiniteSet(zset'[b])
                        /\ \E l \in LimitsOn(b) : Cardinality(zset'[b]) <= l
      BY DEF ZsetWithinLimit
    <2>1. CASE b \in found
      BY <1>1, <2>1, LimitsNat, FS_EmptySet
    <2>2. CASE b \notin found
      BY <1>1, <2>2 DEF IInv, ZsetWithinLimit
    <2> QED BY <2>1, <2>2
  <1> QED BY <1>2, <1>3, <1>4

\* Time passes only while every pending EVAL stays recent, and a key expires
\* only when no admission of its log counts any more.
LEMMA TickStep ==
    ASSUME IInv, Tick
    PROVE  StampsRecent' /\ LogInZset' /\ ZsetWithinLimit'
  <1>1. now \in Nat /\ now' = now + 1
    BY DEF IInv, TypeOK, Tick
  <1>2. StampsRecent'
    BY <1>1 DEF IInv, TypeOK, StampsRecent, Tick, requestVars
  <1>3. LogInZset'
    <2> SUFFICES ASSUME NEW b \in Buckets, NEW e \in log'[b]
                 PROVE  /\ e.at <= now'
                        /\ e.at <= e.id[1] + MaxDelay
                        /\ e.at > now' - CountedFor(b)
                        /\ e.id \in zset'[b]
                        /\ expires'[b] > e.at + Window(b)
      BY DEF LogInZset
    <2>1. e \in log[b] /\ e.at > now + 1 - CountedFor(b)
      BY DEF Tick
    <2>2. e \in [id : Ids, at : Nat] /\ expires[b] \in Nat
      BY <2>1 DEF IInv, TypeOK
    <2>3. /\ e.at <= now /\ e.at <= e.id[1] + MaxDelay
          /\ e.id \in zset[b] /\ expires[b] > e.at + Window(b)
      BY <2>1 DEF IInv, LogInZset
    <2>4. expires[b] > now + 1
      BY <1>1, <2>1, <2>2, <2>3, WindowType
    <2>5. zset'[b] = zset[b] /\ expires'[b] = expires[b]
      BY <1>1, <2>2, <2>4 DEF Tick
    <2>6. e.at \in Nat /\ CountedFor(b) \in Nat
      BY <2>2, WindowType
    <2>7. e.at <= now' /\ e.at > now' - CountedFor(b)
      BY <1>1, <2>1, <2>3, <2>6
    <2> QED BY <2>3, <2>5, <2>7
  <1>4. ZsetWithinLimit'
    <2> SUFFICES ASSUME NEW b \in Buckets
                 PROVE  /\ IsFiniteSet(zset'[b])
                        /\ \E l \in LimitsOn(b) : Cardinality(zset'[b]) <= l
      BY DEF ZsetWithinLimit
    <2>1. CASE zset'[b] = {}
      BY <2>1, LimitsNat, FS_EmptySet
    <2>2. CASE zset'[b] = zset[b]
      BY <2>2 DEF IInv, ZsetWithinLimit
    <2> QED BY <2>1, <2>2 DEF Tick
  <1> QED BY <1>2, <1>3, <1>4

LEMMA InvStep == IInv /\ [Next]_vars => IInv'
  <1> SUFFICES ASSUME IInv, [Next]_vars
               PROVE  StampsRecent' /\ LogInZset' /\ ZsetWithinLimit'
    BY TypeOKStep DEF IInv
  <1>1. ASSUME NEW r \in Requests, Arrive(r)
        PROVE  StampsRecent' /\ LogInZset' /\ ZsetWithinLimit'
    <2>1. StampsRecent'
      BY <1>1, StampStep DEF Arrive
    <2> QED BY <1>1, <2>1
            DEF Arrive, redisVars, IInv, LogInZset, ZsetWithinLimit
  <1>2. ASSUME NEW r \in Requests,
               EvalAllowed(r) \/ EvalDenied(r) \/ EvalGivenUp(r)
        PROVE  StampsRecent' /\ LogInZset' /\ ZsetWithinLimit'
    <2>1. now' = now /\ pc[r] = "eval" /\ Lost(r)
      BY <1>2 DEF EvalAllowed, EvalDenied, EvalGivenUp, Lost
    <2>2. \/ \E s \in {"user", "ip", "hour"} : BeginCheck(r, s)
          \/ \E how \in {"served", "denied"} : Answer(r, how)
      BY <1>2, ProceedShape DEF EvalAllowed, EvalDenied, EvalGivenUp, IInv
    <2> QED BY <2>1, <2>2, LostStep, StampStep
  <1>3. ASSUME NEW r \in Requests, EvalResent(r)
        PROVE  StampsRecent' /\ LogInZset' /\ ZsetWithinLimit'
    BY <1>3, LostStep, StampStep DEF EvalResent
  <1>4. ASSUME NEW r \in Requests, EvalUnreachable(r)
        PROVE  StampsRecent' /\ LogInZset' /\ ZsetWithinLimit'
    <2>1. StampsRecent'
      BY <1>4, ProceedShape, StampStep DEF EvalUnreachable, IInv
    <2> QED BY <1>4, <2>1
            DEF EvalUnreachable, redisVars, IInv, LogInZset, ZsetWithinLimit
  <1>5. CASE Outage \/ Recovery \/ UNCHANGED vars
    BY <1>5 DEF Outage, Recovery, vars, requestVars, IInv, StampsRecent,
                LogInZset, ZsetWithinLimit
  <1> QED
    BY <1>1, <1>2, <1>3, <1>4, <1>5, ResetStep, TickStep DEF Next, Step

THEOREM SpecInv == Spec => []IInv
  <1> QED BY InitInv, InvStep, PTL DEF Spec

\* The limiter's variables keep their types (TypeOK).
THEOREM TypeCorrect == Spec => []TypeOK
  <1>1. IInv => TypeOK
    BY DEF IInv
  <1> QED BY <1>1, SpecInv, PTL

----------------------------------------------------------------------------
\* The ids of the log are members of the sorted set, which is within a limit.
LEMMA LogWithinLimit == IInv => SlotsWithinLimit
  <1> SUFFICES ASSUME IInv, NEW b \in Buckets
               PROVE  \E l \in LimitsOn(b) :
                          Cardinality({e.id : e \in log[b]}) <= l
    BY DEF SlotsWithinLimit
  <1> DEFINE ids == {e.id : e \in log[b]}
  <1>1. IsFiniteSet(zset[b]) /\ ids \subseteq zset[b]
    BY DEF IInv, LogInZset, ZsetWithinLimit
  <1>2. /\ Cardinality(ids) \in Nat /\ Cardinality(zset[b]) \in Nat
        /\ Cardinality(ids) <= Cardinality(zset[b])
    BY <1>1, FS_Subset, FS_CardinalityType
  <1>3. PICK l \in LimitsOn(b) : Cardinality(zset[b]) <= l
    BY DEF IInv, ZsetWithinLimit
  <1>4. l \in Nat
    BY LimitsNat
  <1> HIDE DEF ids
  <1>5. Cardinality(ids) <= l
    BY <1>2, <1>3, <1>4
  <1> QED BY <1>5 DEF ids

\* No bucket admits more request ids during CountedFor(b) ticks than a limit
\* that applies to it (SlotsWithinLimit), for every number of threads,
\* processes and addresses and every pair of windows longer than MaxDelay.
THEOREM SlidingWindowHolds == Spec => []SlotsWithinLimit
  <1> QED BY SpecInv, LogWithinLimit, PTL

----------------------------------------------------------------------------
(* The time a denied request is told to wait.                                *)

LEMMA SmallestNat ==
    ASSUME NEW S \in SUBSET Nat, S # {}
    PROVE  \E x \in S : \A y \in S : x <= y
  <1>1. PICK less : /\ IsWellFoundedOn(less, Nat)
                    /\ \A x, y \in Nat : x < y => <<x, y>> \in less
    <2>1. \A x, y \in Nat : x < y => <<x, y>> \in OpToRel(<, Nat)
      BY DEF OpToRel
    <2> QED BY <2>1, NatLessThanWellFounded
  <1>2. S \subseteq Nat
    OBVIOUS
  <1>3. PICK x \in S : \A y \in S : ~(<<y, x>> \in less)
    <2>1. IsWellFoundedOn(less, Nat)
      BY <1>1
    <2> QED BY <1>2, <2>1, WFMin
  <1>4. ASSUME NEW y \in S PROVE x <= y
    <2>1. x \in Nat /\ y \in Nat
      BY <1>2
    <2>2. ~(y < x)
      BY <1>1, <1>3, <2>1
    <2> QED BY <2>1, <2>2
  <1> QED BY <1>4

LEMMA OldestIsMember ==
    ASSUME NEW S \in SUBSET Ids, S # {}
    PROVE  /\ Oldest(S) \in Nat
           /\ \E m \in S : m[1] = Oldest(S)
           /\ \A m \in S : Oldest(S) <= m[1]
  <1>1. {m[1] : m \in S} \in SUBSET Nat /\ {m[1] : m \in S} # {}
    BY DEF Ids
  <1>2. \E x \in {m[1] : m \in S} : \A y \in {m[1] : m \in S} : x <= y
    BY <1>1, SmallestNat
  <1>3. \E x \in {m[1] : m \in S} : \A m \in S : x <= m[1]
    BY <1>2
  <1>4. /\ Oldest(S) \in {m[1] : m \in S}
        /\ \A m \in S : Oldest(S) <= m[1]
    BY <1>3 DEF Oldest
  <1> QED BY <1>1, <1>4

\* What a division cuts off.
LEMMA Cut ==
    ASSUME NEW n \in Int
    PROVE  /\ n \div Second \in Int
           /\ Second * (n \div Second) <= n
           /\ n < Second * (n \div Second) + Second
  <1>1. Second \in Nat \ {0}
    BY TimeAssumption
  <1>2. /\ n \div Second \in Int /\ n % Second \in 0 .. Second - 1
        /\ n = Second * (n \div Second) + (n % Second)
    BY <1>1
  <1> QED BY <1>1, <1>2

\* The wait is longer than the rest of the window that the reply shows, and a second
\* longer at most, unless it is the shortest one can be told.
LEMMA WaitBounds ==
    ASSUME NEW S \in SUBSET Ids, S # {}, NEW w \in Nat, NEW t \in Nat
    PROVE  LET wait == Second * RetrySeconds(S, w, t)
           IN  /\ wait \in Int
               /\ t + wait + Second - w > Oldest(S)
               /\ \/ wait = Second
                  \/ t + wait - Second - w <= Oldest(S)
  <1> DEFINE told == OldestReplied(S)
             rest == told + w - t
             q    == rest \div Second
  <1>1. Second \in Nat \ {0}
    BY TimeAssumption
  <1>2. Oldest(S) \in Nat
    BY OldestIsMember
  <1>3. told \in Int /\ told <= Oldest(S) /\ Oldest(S) < told + Second
    <2> HIDE TimeAssumption
    <2> QED BY <1>1, <1>2, Cut DEF OldestReplied
  <1> HIDE DEF told
  <1>4. rest \in Int
    BY <1>3
  <1>5. q \in Int /\ Second * q <= rest /\ rest < Second * q + Second
    BY <1>4, Cut
  <1>6. RetrySeconds(S, w, t) = IF q > 0 THEN q + 1 ELSE 1
    BY DEF RetrySeconds, told
  <1> HIDE DEF q
  <1>7. CASE q > 0
    <2>1. Second * (q + 1) = Second * q + Second /\ Second * q \in Int
      BY <1>1, <1>5
    <2>2. Second * RetrySeconds(S, w, t) = Second * q + Second
      BY <1>6, <1>7, <2>1
    <2> QED BY <1>1, <1>2, <1>3, <1>5, <2>1, <2>2
  <1>8. CASE ~(q > 0)
    <2>1. Second * RetrySeconds(S, w, t) = Second
      BY <1>1, <1>6, <1>8
    <2>2. Second * q <= 0 /\ Second * q \in Int
      BY <1>1, <1>5, <1>8
    <2> QED BY <1>1, <1>2, <1>3, <1>5, <2>1, <2>2
  <1> QED BY <1>7, <1>8

\* Only the script's own refusal denies a request.
LEMMA DeniedByScript ==
    ASSUME IInv, [Next]_vars, NEW r \in Requests, pc[r] = "eval", pc'[r] = "denied"
    PROVE  EvalDenied(r)
  <1> USE DEF IInv, TypeOK
  <1>1. ASSUME NEW q \in Requests, \E s \in {"user", "ip", "hour"} : BeginCheck(q, s)
        PROVE  pc'[r] # "denied"
    BY <1>1 DEF BeginCheck
  <1>2. ASSUME NEW q \in Requests, Proceed(q) PROVE pc'[r] # "denied"
    <2>1. CASE AfterCheck(stage[q]) = "none"
      BY <1>2, <2>1 DEF Proceed, Answer
    <2>2. CASE AfterCheck(stage[q]) # "none"
      <3>1. BeginCheck(q, AfterCheck(stage[q]))
        BY <1>2, <2>2 DEF Proceed
      <3> QED BY <3>1 DEF BeginCheck
    <2> QED BY <2>1, <2>2
  <1>3. ASSUME NEW q \in Requests, Arrive(q) PROVE FALSE
    BY <1>1, <1>3 DEF Arrive
  <1>4. ASSUME NEW q \in Requests,
               EvalAllowed(q) \/ EvalGivenUp(q) \/ EvalUnreachable(q)
        PROVE  FALSE
    BY <1>2, <1>4 DEF EvalAllowed, EvalGivenUp, EvalUnreachable
  <1>5. ASSUME NEW q \in Requests, EvalResent(q) PROVE FALSE
    BY <1>5 DEF EvalResent
  <1>6. ASSUME NEW q \in Requests, EvalDenied(q), q # r PROVE FALSE
    BY <1>6 DEF EvalDenied, Answer
  <1>7. ASSUME NEW u \in Users, Reset(u) PROVE FALSE
    BY <1>7 DEF Reset, requestVars
  <1>8. CASE Outage \/ Recovery \/ Tick \/ UNCHANGED vars
    BY <1>8 DEF Outage, Recovery, Tick, vars, requestVars
  <1> QED BY <1>3, <1>4, <1>5, <1>6, <1>7, <1>8 DEF Next, Step

\* A second after the wait is over the oldest entry of the bucket, which was full and no
\* fuller than the caller's limit, has left the window; until a second before, no entry
\* has.
LEMMA DenialLeavesRoom ==
    ASSUME IInv, NEW r \in Requests, EvalDenied(r), stage[r] # "ip", MyLimit(r) > 0
    PROVE  /\ FreeAt(zset'[Bucket(r)], Window(Bucket(r)), BackAt(r) + Second, MyLimit(r))
           /\ ~FreeAt(zset'[Bucket(r)], Window(Bucket(r)), BackAt(r) - Second - 1, MyLimit(r))
  <1> DEFINE b    == Bucket(r)
             w    == Window(b)
             kept == Purged(b, stamp[r])
             old  == Oldest(kept)
             back == BackAt(r)
             later == {m \in kept : m[1] > (back + Second) - w}
             sooner == {m \in kept : m[1] > back - Second - 1 - w}
  <1>1. /\ b \in Buckets /\ MyLimit(r) \in Nat /\ w \in Nat
        /\ stamp[r] \in Nat /\ Second \in Nat \ {0}
    BY BucketFacts, WindowType DEF IInv, TypeOK
  <1>2. LimitsOn(b) = {MyLimit(r)}
    <2>1. stage[r] \in {"user", "hour"}
      BY DEF IInv, TypeOK
    <2>2. b = <<stage[r], Sender[r].user>>
      BY DEF Bucket, BucketOf
    <2> QED BY <2>1, <2>2 DEF LimitsOn, MyLimit
  <1>3. kept \subseteq zset[b] /\ IsFiniteSet(zset[b]) /\ IsFiniteSet(kept)
    BY <1>1, FS_Subset DEF Purged, IInv, ZsetWithinLimit
  <1>4. Cardinality(kept) \in Nat /\ Cardinality(kept) <= MyLimit(r)
    <2>1. Cardinality(zset[b]) <= MyLimit(r)
      BY <1>1, <1>2 DEF IInv, ZsetWithinLimit
    <2>2. /\ Cardinality(kept) \in Nat /\ Cardinality(zset[b]) \in Nat
          /\ Cardinality(kept) <= Cardinality(zset[b])
      BY <1>3, FS_Subset, FS_CardinalityType
    <2> QED BY <1>1, <2>1, <2>2
  <1>5. zset'[b] = kept /\ ~(Cardinality(kept) < MyLimit(r))
    BY <1>1 DEF EvalDenied, RunScript, InWindow, HasRoom, IInv, TypeOK
  <1>6. kept # {} /\ kept \in SUBSET Ids
    <2>1. kept # {}
      BY <1>1, <1>5, FS_EmptySet
    <2>2. zset[b] \in SUBSET Ids
      BY <1>1 DEF IInv, TypeOK
    <2> QED BY <1>3, <2>1, <2>2
  <1>7. old \in Nat /\ \A m \in kept : m[1] \in Nat /\ old <= m[1]
    BY <1>6, OldestIsMember DEF Ids
  <1>8. PICK oldest \in kept : oldest[1] = old
    BY <1>6, OldestIsMember
  <1>9. \A m \in kept : m[1] > stamp[r] - w
    BY DEF Purged
  <1>10. /\ back \in Int /\ back + Second - w > old
         /\ back - Second = stamp[r] \/ back - Second - w <= old
    <2>1. PICK wait : wait = Second * RetrySeconds(kept, w, stamp[r])
      OBVIOUS
    <2>2. /\ wait \in Int
          /\ stamp[r] + wait + Second - w > old
          /\ wait = Second \/ stamp[r] + wait - Second - w <= old
      <3> HIDE DEF kept, w
      <3> QED BY <1>1, <1>6, <2>1, WaitBounds
    <2>3. back = stamp[r] + wait
      BY <2>1 DEF BackAt, InWindow
    <2> HIDE DEF back, kept, w, old
    <2> QED BY <1>1, <1>7, <2>2, <2>3
  <1>11. /\ FreeAt(kept, w, back + Second, MyLimit(r)) <=> Cardinality(later) < MyLimit(r)
         /\ FreeAt(kept, w, back - Second - 1, MyLimit(r))
                <=> Cardinality(sooner) < MyLimit(r)
    <2> HIDE DEF kept, w, back
    <2> QED BY DEF FreeAt, HasRoom
  <1>12. Cardinality(later) < MyLimit(r)
    <2>1. later \in SUBSET (kept \ {oldest})
      <3> HIDE DEF back, kept, w, old
      <3> QED BY <1>1, <1>7, <1>8, <1>10
    <2> HIDE DEF kept, old, later
    <2>3. /\ IsFiniteSet(kept \ {oldest})
          /\ Cardinality(kept \ {oldest}) = Cardinality(kept) - 1
      BY <1>3, <1>8, FS_RemoveElement
    <2>4. /\ Cardinality(later) <= Cardinality(kept \ {oldest})
          /\ Cardinality(later) \in Nat
      BY <2>1, <2>3, FS_Subset, FS_CardinalityType
    <2> QED BY <1>1, <1>4, <2>3, <2>4
  <1>13. sooner = kept
    <2> SUFFICES ASSUME NEW m \in kept PROVE m[1] > back - Second - 1 - w
      OBVIOUS
    <2>1. m[1] \in Nat /\ old <= m[1] /\ m[1] > stamp[r] - w
      BY <1>7, <1>9
    <2> HIDE DEF back, kept, w, old
    <2> QED BY <1>1, <1>7, <1>10, <2>1
  <1> HIDE DEF later, sooner, kept, back
  <1> QED BY <1>5, <1>11, <1>12, <1>13 DEF back

\* A Retry-After is wrong by a second at most (RetryAfterHonest; _check_rate_limit's
\* retry_after, the script's oldest_score).  It rests on the bucket never being fuller
\* than the limit of the one caller that uses it, and on the reply cutting the oldest
\* stamp by less than a second.
THEOREM RetryAfterFreesASlot == Spec => RetryAfterHonest
  <1>1. ASSUME IInv, [Next]_vars, NEW r \in Requests, DeniedByOwn(r)
        PROVE  /\ FreeAt(zset'[Bucket(r)], Window(Bucket(r)), BackAt(r) + Second, MyLimit(r))
               /\ ~FreeAt(zset'[Bucket(r)], Window(Bucket(r)), BackAt(r) - Second - 1, MyLimit(r))
    BY <1>1, DeniedByScript, DenialLeavesRoom DEF DeniedByOwn
  <1>2. IInv /\ [Next]_vars =>
          [\A r \in Requests : DeniedByOwn(r) =>
              /\ FreeAt(zset'[Bucket(r)], Window(Bucket(r)), BackAt(r) + Second, MyLimit(r))
              /\ ~FreeAt(zset'[Bucket(r)], Window(Bucket(r)), BackAt(r) - Second - 1, MyLimit(r))]_vars
    BY <1>1
  <1> QED BY <1>2, SpecInv, PTL DEF Spec, RetryAfterHonest

----------------------------------------------------------------------------
(* Refinement: each step of the limiter is a step of SlidingWindow, or       *)
(* changes neither the clock nor the log.                                    *)

\* The instance has a copy of FiniteSets of its own.
LEMMA SameCardinality == \A S : Promise!Cardinality(S) = Cardinality(S)
  BY DEF Promise!Cardinality, Cardinality

LEMMA LostRefines ==
    ASSUME IInv, IInv', now' = now, NEW r \in Requests, Lost(r)
    PROVE  [Promise!Next]_<<now, log>>
  <1> DEFINE b == Bucket(r)
             grant == [id |-> RequestId(r), at |-> now]
  <1>1. b \in Buckets /\ RequestId(r) \in Ids
    BY BucketFacts DEF IInv
  <1>2. CASE log' = log
    BY <1>2
  <1>3. CASE log' = [log EXCEPT ![b] = @ \cup {grant}]
    <2>1. log'[b] = log[b] \cup {grant}
      BY <1>1, <1>3 DEF IInv, TypeOK
    <2>2. {e.id : e \in log'[b]} = {e.id : e \in log[b]} \cup {RequestId(r)}
      <3>1. grant.id = RequestId(r)
        OBVIOUS
      <3> HIDE DEF grant
      <3> QED BY <2>1, <3>1
    <2>3. PICK l \in LimitsOn(b) : Cardinality({e.id : e \in log'[b]}) <= l
      <3>1. SlotsWithinLimit'
        BY LogWithinLimit, PTL
      <3> QED BY <1>1, <3>1 DEF SlotsWithinLimit
    <2>4. \E m \in LimitsOn(b) :
             Cardinality({e.id : e \in log[b]} \cup {RequestId(r)}) <= m
      BY <2>2, <2>3
    <2>5. Promise!Admit(b, RequestId(r))
      <3>1. [c \in Buckets |-> LimitsOn(c)][b] = LimitsOn(b)
        BY <1>1
      <3>2. Promise!AdmittedIds(b) = {e.id : e \in log[b]}
        BY DEF Promise!AdmittedIds
      <3>3. \E m \in LimitsOn(b) :
               Cardinality(Promise!AdmittedIds(b) \cup {RequestId(r)}) <= m
        BY <2>4, <3>2
      <3> HIDE DEF b
      <3> QED BY <1>3, <3>1, <3>3, SameCardinality DEF Promise!Admit
    <2> QED BY <1>1, <2>5 DEF Promise!Next
  <1> QED BY <1>2, <1>3 DEF Lost, RunScript

LEMMA StepRefines ==
    ASSUME IInv, IInv', [Next]_vars
    PROVE  [Promise!Next]_<<now, log>>
  <1>1. ASSUME NEW r \in Requests, Arrive(r) \/ EvalUnreachable(r)
        PROVE  [Promise!Next]_<<now, log>>
    BY <1>1 DEF Arrive, EvalUnreachable
  <1>2. ASSUME NEW r \in Requests,
               EvalAllowed(r) \/ EvalDenied(r) \/ EvalResent(r) \/ EvalGivenUp(r)
        PROVE  [Promise!Next]_<<now, log>>
    <2>1. Lost(r) /\ now' = now
      BY <1>2 DEF EvalAllowed, EvalDenied, EvalResent, EvalGivenUp, Lost
    <2> QED BY <2>1, LostRefines
  <1>3. ASSUME NEW u \in Users, Reset(u)
        PROVE  [Promise!Next]_<<now, log>>
    <2>1. Promise!Clear
      BY <1>3 DEF Reset, Promise!Clear, IInv, TypeOK
    <2> QED BY <2>1 DEF Promise!Next
  <1>4. CASE Tick
    <2>1. Promise!Tick
      BY <1>4 DEF Tick, Promise!Tick
    <2> QED BY <2>1 DEF Promise!Next
  <1>5. CASE Outage \/ Recovery \/ UNCHANGED vars
    BY <1>5 DEF Outage, Recovery, vars
  <1> QED BY <1>1, <1>2, <1>3, <1>4, <1>5 DEF Next, Step

\* The limiter implements the abstract sliding window (PromiseSpec).
THEOREM Implementation == Spec => PromiseSpec
  <1>1. Init => Promise!Init
    BY DEF Init, Promise!Init
  <1>2. IInv /\ IInv' /\ [Next]_vars => [Promise!Next]_<<now, log>>
    BY StepRefines
  <1> QED BY <1>1, <1>2, SpecInv, PTL DEF Spec, PromiseSpec, Promise!Spec
=============================================================================
