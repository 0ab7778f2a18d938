------------------------- MODULE RedeliveryProofs -------------------------
(***************************************************************************)
(* Proofs about the two parts that are handed the same work more than once *)
(* and mark it by a key in Redis that expires: Stripe's webhook, for any   *)
(* events, threads and faults, and the rebuild task, for any number of     *)
(* tasks, workers, retries, crashes and outages.                           *)
(*                                                                         *)
(* StripeEvents.  HandledOncePerKey is inductive beside TypeOK: a step     *)
(* starts a handling only as it sets the key, ends one only as it commits  *)
(* or gives up, and a key that goes is counted.  An event that was         *)
(* answered is kept (NothingLost) because, without a fault, a key that was *)
(* set and not yet expired stands for a handling that is under way or      *)
(* committed.  A tier set by hand stands because an event that was over    *)
(* then has its key and no handler until the key expires.                  *)
(*                                                                         *)
(* RebuildTask.  RebuildsExclusive is not inductive: that a running task   *)
(* still holds its lock follows from its age, because the lock was set for *)
(* LockTimeout ticks when the task had some age already and the task       *)
(* cannot reach HardLimit.  NoTaskLost needs that a worker which has sent  *)
(* its retry no longer counts: another worker may have finished that retry *)
(* meanwhile.                                                              *)
(***************************************************************************)
EXTENDS StripeEvents, RebuildTask, FiniteSetTheorems, TLAPS

USE DEF stripe, user, history

LEMMA InitInv == Init => TypeOK /\ HandledOncePerKey
<1> SUFFICES ASSUME Init PROVE TypeOK /\ HandledOncePerKey
  OBVIOUS
<1>1. TypeOK
  <2>1. faults \in 0 .. MaxFaults /\ expired \in [Events -> 0 .. MaxExpiries]
    BY BoundsAssumption DEF Init
  <2>2. deleted \in BOOLEAN /\ redisUp \in BOOLEAN
    BY Zenon DEF Init
  <2>3. /\ pc \in [Threads -> {"idle", "checking", "handling"}]
        /\ ev \in [Threads -> happened \cup {NoEvent}]
        /\ \A h \in Threads : pc[h] = "idle" <=> ev[h] = NoEvent
    BY DEF Init
  <2> QED BY <2>1, <2>2, <2>3 DEF Init, TypeOK
<1>2. ASSUME NEW e \in Events PROVE Handling(e) = {}
  BY DEF Init, Handling
<1>3. Cardinality({}) = 0
  BY FS_EmptySet
<1>4. HandledOncePerKey
  BY <1>2, <1>3 DEF Init, HandledOncePerKey
<1> QED BY <1>1, <1>4

LEMMA TypeStep == TypeOK /\ [Next]_vars => TypeOK'
<1> SUFFICES ASSUME TypeOK, [Next]_vars PROVE TypeOK'
  OBVIOUS
<1> USE BoundsAssumption, EventsAssumption DEF TypeOK, Fault, Answer200
<1>1. ASSUME NEW e \in Events, Happen(e) PROVE TypeOK'
  BY <1>1 DEF Happen
<1>2. ASSUME NEW e \in Events, Expire(e) PROVE TypeOK'
  BY <1>2 DEF Expire
<1>3. ASSUME NEW h \in Threads, NEW e \in Events, Deliver(h, e) PROVE TypeOK'
  BY <1>3 DEF Deliver
<1>4. ASSUME NEW h \in Threads, IsNew(h) PROVE TypeOK'
  BY <1>4 DEF IsNew
<1>5. ASSUME NEW h \in Threads, AlreadyProcessed(h) PROVE TypeOK'
  BY <1>5 DEF AlreadyProcessed, KeyKept
<1>6. ASSUME NEW h \in Threads, IsNewReplyLost(h) PROVE TypeOK'
  BY <1>6 DEF IsNewReplyLost
<1>7. ASSUME NEW h \in Threads, UnknownIsProcessed(h) PROVE TypeOK'
  BY <1>7 DEF UnknownIsProcessed
<1>8. ASSUME NEW h \in Threads, Handle(h) PROVE TypeOK'
  BY <1>8 DEF Handle, TierAfter
<1>9. ASSUME NEW h \in Threads, HandleFails(h) PROVE TypeOK'
  BY <1>9 DEF HandleFails
<1>10. ASSUME NEW h \in Threads, Crash(h) PROVE TypeOK'
  BY <1>10 DEF Crash
<1>11. ASSUME NEW t \in {"free", "pro"}, SetTier(t) PROVE TypeOK'
  BY <1>11 DEF SetTier, Over
<1>12. CASE DeleteAccount \/ Outage \/ Recovery
  <2>1. deleted' \in BOOLEAN /\ redisUp' \in BOOLEAN
    BY <1>12, Zenon DEF DeleteAccount, Outage, Recovery
  <2>2. faults' \in 0 .. MaxFaults
    BY <1>12 DEF DeleteAccount, Outage, Recovery
  <2>3. UNCHANGED <<happened, acked, key, pc, ev, tier, expired, handled,
            overByHand>>
    BY <1>12 DEF DeleteAccount, Outage, Recovery
  <2> QED BY <2>1, <2>2, <2>3
<1>13. CASE UNCHANGED vars
  BY <1>13 DEF vars
<1> QED BY <1>1, <1>2, <1>3, <1>4, <1>5, <1>6, <1>7, <1>8, <1>9, <1>10, <1>11,
           <1>12, <1>13 DEF Next, Serve

\* The handlings of an event are finitely many, so counting them makes sense.
LEMMA HandlingFinite ==
    ASSUME NEW e \in Events
    PROVE  IsFiniteSet(Handling(e)) /\ Cardinality(Handling(e)) \in Nat
  BY ThreadsAssumption, FS_Subset, FS_CardinalityType DEF Handling

\* A thread that starts handling e adds one, a thread that stops removes one, and
\* other events' handlings do not change.
LEMMA HandlingGrows ==
    ASSUME TypeOK, NEW h \in Threads, NEW e \in Events,
           pc[h] = "checking", pc' = [pc EXCEPT ![h] = "handling"], ev' = ev
    PROVE  Cardinality(Handling(e)') =
               Cardinality(Handling(e)) + IF ev[h] = e THEN 1 ELSE 0
<1>1. h \notin Handling(e)
  BY DEF Handling
<1>2. CASE ev[h] = e
  <2>1. Handling(e)' = Handling(e) \cup {h}
    BY <1>2 DEF Handling, TypeOK
  <2> QED BY <2>1, <1>1, <1>2, HandlingFinite, FS_AddElement
<1>3. CASE ev[h] # e
  <2>1. Handling(e)' = Handling(e)
    BY <1>3 DEF Handling, TypeOK
  <2> QED BY <2>1, <1>3, HandlingFinite
<1> QED BY <1>2, <1>3

LEMMA HandlingShrinks ==
    ASSUME TypeOK, NEW h \in Threads, NEW e \in Events,
           pc' = [pc EXCEPT ![h] = "idle"], ev' = [ev EXCEPT ![h] = NoEvent]
    PROVE  Cardinality(Handling(e)') =
               Cardinality(Handling(e))
               - IF pc[h] = "handling" /\ ev[h] = e THEN 1 ELSE 0
<1>1. CASE pc[h] = "handling" /\ ev[h] = e
  <2>1. h \in Handling(e) /\ e # NoEvent
    BY <1>1, EventsAssumption DEF Handling
  <2>2. \A k \in Threads : k \in Handling(e)' <=> k \in Handling(e) /\ k # h
    BY <2>1 DEF Handling, TypeOK
  <2>3. Handling(e)' = Handling(e) \ {h}
    BY <2>2 DEF Handling
  <2>4. Cardinality(Handling(e) \ {h}) = Cardinality(Handling(e)) - 1
    BY <2>1, HandlingFinite, FS_RemoveElement
  <2> QED BY <2>3, <2>4, <1>1
<1>2. CASE ~(pc[h] = "handling" /\ ev[h] = e)
  <2>1. Handling(e)' = Handling(e)
    BY <1>2 DEF Handling, TypeOK
  <2> QED BY <2>1, <1>2, HandlingFinite
<1> QED BY <1>1, <1>2

LEMMA HandlingSame ==
    ASSUME UNCHANGED <<pc, ev>>, NEW e \in Events
    PROVE  Cardinality(Handling(e)') = Cardinality(Handling(e))
<1>1. Handling(e)' = Handling(e)
  BY DEF Handling
<1> QED BY <1>1

\* Every step keeps handlings within the keys that were set.
LEMMA OnceStep == TypeOK /\ HandledOncePerKey /\ [Next]_vars => HandledOncePerKey'
<1> SUFFICES ASSUME TypeOK, HandledOncePerKey, [Next]_vars, NEW e \in Events
             PROVE  handled[e]' + Cardinality(Handling(e)')
                        <= expired[e]' + (IF e \in key' THEN 1 ELSE 0)
  BY DEF HandledOncePerKey
<1> DEFINE n == Cardinality(Handling(e))
           Claim == handled[e]' + Cardinality(Handling(e)')
                        <= expired[e]' + (IF e \in key' THEN 1 ELSE 0)
<1>a. /\ n \in Nat /\ handled[e] \in Nat /\ expired[e] \in Nat
      /\ handled[e] + n <= expired[e] + (IF e \in key THEN 1 ELSE 0)
  BY HandlingFinite, BoundsAssumption DEF HandledOncePerKey, TypeOK
<1> HIDE DEF n
<1>1. ASSUME NEW f \in Events, Happen(f) PROVE Claim
  BY <1>a, <1>1, HandlingSame DEF Happen, n
<1>2. ASSUME NEW f \in Events, Expire(f) PROVE Claim
  BY <1>a, <1>2, HandlingSame, BoundsAssumption DEF Expire, TypeOK, n
<1>4. ASSUME NEW h \in Threads, IsNew(h) PROVE Claim
  <2>1. Cardinality(Handling(e)') = n + IF ev[h] = e THEN 1 ELSE 0
    BY <1>4, HandlingGrows DEF IsNew, n
  <2>2. /\ UNCHANGED <<handled, expired>>
        /\ key' = key \cup {ev[h]} /\ ev[h] \notin key
    BY <1>4 DEF IsNew, NotSet
  <2> QED BY <1>a, <2>1, <2>2
<1>8. ASSUME NEW h \in Threads, Handle(h) PROVE Claim
  <2>1. Cardinality(Handling(e)') = n - IF ev[h] = e THEN 1 ELSE 0
    BY <1>8, HandlingShrinks DEF Handle, Answer200, n
  <2>2. /\ UNCHANGED <<key, expired>>
        /\ handled'[e] = handled[e] + IF ev[h] = e THEN 1 ELSE 0
    BY <1>8, <1>a DEF Handle, TypeOK
  <2> QED BY <1>a, <2>1, <2>2
<1>9. ASSUME NEW h \in Threads,
             \/ AlreadyProcessed(h) \/ IsNewReplyLost(h) \/ UnknownIsProcessed(h)
             \/ HandleFails(h) \/ Crash(h)
      PROVE Claim
  BY <1>a, <1>9, HandlingShrinks
     DEF AlreadyProcessed, IsNewReplyLost, UnknownIsProcessed, HandleFails, Crash,
         Answer200, NotSet, KeyKept, n
<1>3. ASSUME NEW h \in Threads, NEW f \in Events, Deliver(h, f) PROVE Claim
  <2>1. Handling(e)' = Handling(e)
    BY <1>3 DEF Deliver, Handling, TypeOK
  <2> QED BY <1>a, <1>3, <2>1 DEF Deliver, n
<1>11. ASSUME NEW t \in {"free", "pro"}, SetTier(t) PROVE Claim
  BY <1>a, <1>11, HandlingSame DEF SetTier, n
<1>12. CASE DeleteAccount \/ Outage \/ Recovery \/ UNCHANGED vars
  BY <1>a, <1>12, HandlingSame DEF DeleteAccount, Outage, Recovery, vars, n
<1> QED BY <1>1, <1>2, <1>3, <1>4, <1>8, <1>9, <1>11, <1>12 DEF Next, Serve

\* The type invariant is an invariant.
THEOREM TypeCorrect == Spec => []TypeOK
  BY InitInv, TypeStep, PTL DEF Spec

\* No event is handled twice under one key, for any number of events, deliveries
\* and threads, and whatever crashes, fails or is lost.
THEOREM Idempotent == Spec => []HandledOncePerKey
<1>1. Init => TypeOK /\ HandledOncePerKey
  BY InitInv
<1>2. TypeOK /\ HandledOncePerKey /\ [Next]_vars => (TypeOK /\ HandledOncePerKey)'
  BY TypeStep, OnceStep
<1> QED BY <1>1, <1>2, PTL DEF Spec
----------------------------------------------------------------------------
\* While nothing has failed Redis is up, and every event whose key is set or that
\* Stripe got a 2xx for has been handled or is being handled.  The key is what an
\* acknowledgement without a handling relies on.
Taken(e) == handled[e] > 0 \/ \E h \in Threads : pc[h] = "handling" /\ ev[h] = e

NothingLost == faults = 0 => redisUp /\ \A e \in key \cup acked : Taken(e)

LEMMA LostInit == Init => NothingLost
  BY DEF Init, NothingLost

\* A step that counts a fault ends the promise; the others keep it.
LEMMA LostStep == TypeOK /\ NothingLost /\ [Next]_vars => NothingLost'
<1> SUFFICES ASSUME TypeOK, NothingLost, [Next]_vars, faults' = 0
             PROVE  redisUp' /\ \A e \in key' \cup acked' : Taken(e)'
  BY DEF NothingLost
<1> DEFINE Claim == redisUp' /\ \A e \in key' \cup acked' : Taken(e)'
<1> USE BoundsAssumption
<1>a. faults \in Nat /\ ~Fault
  BY DEF Fault, TypeOK
<1>b. faults = 0 => redisUp /\ \A e \in key \cup acked : Taken(e)
  BY DEF NothingLost
<1>1. ASSUME NEW f \in Events, Happen(f) PROVE Claim
  BY <1>b, <1>1 DEF Happen, Taken
<1>2. ASSUME NEW f \in Events, Expire(f) PROVE Claim
  BY <1>b, <1>2 DEF Expire, Taken
<1>3. ASSUME NEW h \in Threads, NEW f \in Events, Deliver(h, f) PROVE Claim
  BY <1>b, <1>3 DEF Deliver, Taken, TypeOK
<1>4. ASSUME NEW h \in Threads, IsNew(h) PROVE Claim
  BY <1>b, <1>4 DEF IsNew, Taken, TypeOK
<1>5. ASSUME NEW h \in Threads, AlreadyProcessed(h) PROVE Claim
  <2>1. \A e \in key \cup acked : Taken(e)
    BY <1>b, <1>5 DEF AlreadyProcessed
  <2>2. \A e \in key' \cup acked' : e \in key \cup acked
    BY <1>5 DEF AlreadyProcessed, KeySet, KeyKept, Answer200
  <2>3. \A g \in Threads : pc[g] = "handling" => pc'[g] = "handling" /\ ev'[g] = ev[g]
    BY <1>5 DEF AlreadyProcessed, Answer200, TypeOK
  <2> QED BY <2>1, <2>2, <2>3, <1>5 DEF AlreadyProcessed, Taken
<1>6. ASSUME NEW h \in Threads, UnknownIsProcessed(h) PROVE Claim
  BY <1>b, <1>6 DEF UnknownIsProcessed
<1>7. ASSUME NEW h \in Threads, Handle(h) PROVE Claim
  <2>1. ev[h] \in Events /\ handled \in [Events -> Nat]
    BY <1>7 DEF Handle, TypeOK
  <2>2. ASSUME NEW e \in Events, e = ev[h] PROVE Taken(e)'
    BY <1>7, <2>1, <2>2 DEF Handle, Taken
  <2>3. ASSUME NEW e \in key \cup acked, e # ev[h] PROVE Taken(e)'
    <3>1. e \in Events /\ Taken(e)
      BY <1>b, <1>7 DEF Handle, TypeOK
    <3>2. handled'[e] = handled[e]
      BY <1>7, <2>1, <2>3, <3>1 DEF Handle
    <3>3. \A g \in Threads : ev[g] = e /\ pc[g] = "handling"
                                => ev'[g] = e /\ pc'[g] = "handling"
      BY <1>7, <2>3 DEF Handle, Answer200, TypeOK
    <3> QED BY <3>1, <3>2, <3>3 DEF Taken
  <2>4. acked' = acked \cup {ev[h]} /\ UNCHANGED <<key, faults, redisUp>>
    BY <1>7 DEF Handle, Answer200
  <2> QED BY <1>b, <2>1, <2>2, <2>3, <2>4
<1>8. ASSUME NEW h \in Threads, IsNewReplyLost(h) \/ HandleFails(h) \/ Crash(h)
      PROVE  Claim
  BY <1>a, <1>8 DEF IsNewReplyLost, HandleFails, Crash
<1>9. ASSUME NEW t \in {"free", "pro"}, SetTier(t) PROVE Claim
  BY <1>b, <1>9 DEF SetTier, Taken
<1>10. CASE Outage
  BY <1>a, <1>10 DEF Outage
<1>11. CASE DeleteAccount \/ Recovery \/ UNCHANGED vars
  <2>1. UNCHANGED <<key, acked, pc, ev, handled, faults>>
    BY <1>11 DEF DeleteAccount, Recovery, vars
  <2>2. redisUp => redisUp'
    BY <1>11, Zenon DEF DeleteAccount, Recovery, vars
  <2>3. redisUp'
    BY <1>b, <2>2, <2>1, Zenon
  <2>4. \A e \in key' \cup acked' : Taken(e)'
    BY <1>b, <2>1 DEF Taken
  <2> QED BY <2>3, <2>4
<1> QED BY <1>1, <1>2, <1>3, <1>4, <1>5, <1>6, <1>7, <1>8, <1>9, <1>10, <1>11
        DEF Next, Serve

\* As long as nothing crashes, fails or is lost, no event is answered 200 that nobody
\* handles, for any number of deliveries at once.
THEOREM EventsAreKept == Spec => []OnlyFaultsLoseEvents
<1>1. Init => TypeOK /\ NothingLost
  BY InitInv, LostInit
<1>2. TypeOK /\ NothingLost /\ [Next]_vars => (TypeOK /\ NothingLost)'
  BY TypeStep, LostStep
<1>3. NothingLost => OnlyFaultsLoseEvents
  BY DEF NothingLost, OnlyFaultsLoseEvents, Taken, Handling
<1> QED BY <1>1, <1>2, <1>3, PTL DEF Spec

\* What was over when the administrator set the tier has its key and no handler.
StaysOver == \A e \in overByHand : e \in key /\ ~ \E h \in Threads : h \in Handling(e)

\* Only a thread that finds no key begins to handle an event, and only the key's expiry
\* takes it away, which ends what is claimed of the event.
LEMMA OverStep == TypeOK /\ StaysOver /\ [Next]_vars => StaysOver'
<1> SUFFICES ASSUME TypeOK, StaysOver, [Next]_vars, NEW e \in overByHand'
             PROVE  e \in key' /\ \A h \in Threads : ~(pc'[h] = "handling" /\ ev'[h] = e)
  BY DEF StaysOver, Handling
<1> DEFINE Claim == e \in key' /\ \A h \in Threads : ~(pc'[h] = "handling" /\ ev'[h] = e)
<1>a. e \in overByHand =>
          e \in key /\ \A h \in Threads : ~(pc[h] = "handling" /\ ev[h] = e)
  BY DEF StaysOver, Handling
<1>1. ASSUME NEW f \in Events, Happen(f) \/ Expire(f) PROVE Claim
  BY <1>a, <1>1 DEF Happen, Expire
<1>2. ASSUME NEW h \in Threads, NEW f \in Events, Deliver(h, f) PROVE Claim
  BY <1>a, <1>2 DEF Deliver, TypeOK
<1>3. ASSUME NEW h \in Threads, IsNew(h) PROVE Claim
  BY <1>a, <1>3 DEF IsNew, NotSet, TypeOK
<1>4. ASSUME NEW h \in Threads,
             \/ AlreadyProcessed(h) \/ IsNewReplyLost(h) \/ UnknownIsProcessed(h)
             \/ Handle(h) \/ HandleFails(h) \/ Crash(h)
      PROVE Claim
  <2>1. /\ pc' = [pc EXCEPT ![h] = "idle"] /\ ev' = [ev EXCEPT ![h] = NoEvent]
        /\ key \subseteq key' /\ overByHand' = overByHand
    BY <1>4 DEF AlreadyProcessed, IsNewReplyLost, UnknownIsProcessed, Handle, HandleFails,
                Crash, Answer200, KeyKept
  <2> QED BY <1>a, <2>1 DEF TypeOK
<1>5. ASSUME NEW t \in {"free", "pro"}, SetTier(t) PROVE Claim
  BY <1>5 DEF SetTier, Over, Handling
<1>6. CASE DeleteAccount \/ Outage \/ Recovery \/ UNCHANGED vars
  BY <1>a, <1>6 DEF DeleteAccount, Outage, Recovery, vars
<1> QED BY <1>1, <1>2, <1>3, <1>4, <1>5, <1>6 DEF Next, Serve

\* An administrator's tier is not undone by an event that was over by then, however often
\* it is delivered again while its key lives, for any number of threads and deliveries.
THEOREM TierStands == Spec => ByHandStands
<1>1. Init => TypeOK /\ StaysOver
  BY InitInv DEF Init, StaysOver
<1>2. TypeOK /\ StaysOver /\ [Next]_vars => (TypeOK /\ StaysOver)'
  BY TypeStep, OverStep
<1>3. StaysOver /\ [Next]_vars =>
          [\A h \in Threads :
             pc[h] = "handling" /\ tier' # tier /\ ev'[h] # ev[h]
             => ev[h] \notin overByHand]_vars
  BY DEF StaysOver, Handling
<1> QED BY <1>1, <1>2, <1>3, PTL DEF Spec, ByHandStands

----------------------------------------------------------------------------
\* While no reply was lost, a running task holds the lock and the lock's
\* remaining life covers the rest of the task's.
LockCovers ==
    lost = 0 => \A w \in Workers :
        Inside(w) => lockBy = w /\ ttl + age[w] >= LockTimeout

Final == {"success", "error", "skipped"}

\* Somebody still has to act for t: a queued message, or a worker that has not
\* handed t on to a retry.
Pending(t) ==
    \/ \E m \in Messages : m[1] = t /\ queue[m] > 0
    \/ \E w \in Workers : /\ phase[w] \notin {"idle", "retrying"}
                          /\ msg[w][1] = t

Accounted == \A t \in Tasks : Pending(t) \/ settled[t] \cap Final # {}

\* A busy worker has a message.
HasMessage == \A w \in Workers : Busy(w) => msg[w] \in Messages

IInv == TaskTypeOK /\ HasMessage /\ LockCovers /\ Accounted

USE DEF lock, mishaps, Results, Busy, Inside, Goto

LEMMA MessageFacts ==
    /\ \A m \in Messages : m[1] \in Tasks /\ m[2] \in Nat /\ m[2] <= MaxRetries
    /\ \A t \in Tasks : <<t, 0>> \in Messages
    /\ \A m \in Messages : MayRetry(m) => /\ Retried(m) \in Messages
                                          /\ Retried(m)[1] = m[1]
  BY LimitsAssumption DEF Messages, MayRetry, Retried

\* The initial states satisfy the inductive invariant.
LEMMA InitTasksInv == InitTasks => IInv
<1> SUFFICES ASSUME InitTasks PROVE IInv
  OBVIOUS
<1> USE DEF InitTasks
<1>1. TaskTypeOK
  <2>1. queue \in [Messages -> Nat] /\ msg \in [Workers -> Messages \cup {NoMessage}]
    BY MessageFacts
  <2>2. age \in [Workers -> 0 .. HardLimit - 1] /\ ttl \in 0 .. LockTimeout
    BY LimitsAssumption
  <2>3. crashes \in 0 .. MaxCrashes /\ lost \in 0 .. MaxLost
    BY LimitsAssumption
  <2> QED BY <2>1, <2>2, <2>3 DEF TaskTypeOK
<1>2. HasMessage /\ LockCovers
  BY DEF HasMessage, LockCovers
<1>3. ASSUME NEW t \in Tasks PROVE Pending(t)
  <2>1. <<t, 0>> \in Messages /\ <<t, 0>>[1] = t /\ queue[<<t, 0>>] = 1
    BY MessageFacts
  <2> QED BY <2>1 DEF Pending
<1> QED BY <1>1, <1>2, <1>3 DEF IInv, Accounted

\* Every step preserves the type invariant.
LEMMA TaskTypeStep == TaskTypeOK /\ HasMessage /\ [NextTask]_taskVars
                          => TaskTypeOK' /\ HasMessage'
<1> SUFFICES ASSUME TaskTypeOK, HasMessage, [NextTask]_taskVars
             PROVE  TaskTypeOK' /\ HasMessage'
  OBVIOUS
<1> USE LimitsAssumption DEF TaskTypeOK, HasMessage
<1>1. ASSUME NEW w \in Workers, Receive(w) PROVE TaskTypeOK' /\ HasMessage'
  BY <1>1 DEF Receive
<1>2. ASSUME NEW w \in Workers, Acquire(w) PROVE TaskTypeOK' /\ HasMessage'
  BY <1>2, MessageFacts DEF Acquire, SetLock, LockFree
<1>3. ASSUME NEW w \in Workers, AcquireReplyLost(w) PROVE TaskTypeOK' /\ HasMessage'
  BY <1>3, MessageFacts DEF AcquireReplyLost, SetLock, LockFree, Settle
<1>4. ASSUME NEW w \in Workers, Skip(w) PROVE TaskTypeOK' /\ HasMessage'
  BY <1>4, MessageFacts DEF Skip, Settle
<1>5. ASSUME NEW w \in Workers, Check(w) PROVE TaskTypeOK' /\ HasMessage'
  BY <1>5, MessageFacts DEF Check
<1>6. ASSUME NEW w \in Workers, Create(w) PROVE TaskTypeOK' /\ HasMessage'
  BY <1>6, MessageFacts DEF Create
<1>7. ASSUME NEW w \in Workers, BodyFailsAndRetries(w) PROVE TaskTypeOK' /\ HasMessage'
  BY <1>7, MessageFacts DEF BodyFailsAndRetries
<1>8. ASSUME NEW w \in Workers, BodyFailsForGood(w) PROVE TaskTypeOK' /\ HasMessage'
  BY <1>8, MessageFacts DEF BodyFailsForGood
<1>9. ASSUME NEW w \in Workers, Release(w) PROVE TaskTypeOK' /\ HasMessage'
  BY <1>9, MessageFacts DEF Release, Settle, DeleteLock, Result
<1>10. ASSUME NEW w \in Workers, ReleaseReplyLost(w) PROVE TaskTypeOK' /\ HasMessage'
  BY <1>10, MessageFacts DEF ReleaseReplyLost, DeleteLock
<1>11. ASSUME NEW w \in Workers, WorkerDies(w) PROVE TaskTypeOK' /\ HasMessage'
  BY <1>11, MessageFacts DEF WorkerDies, PutBack
<1>12. CASE LosesRedis
  BY <1>12, MessageFacts DEF LosesRedis
<1>13. CASE FindsRedis
  BY <1>13, MessageFacts DEF FindsRedis
<1>14. CASE Tick
  BY <1>14, MessageFacts DEF Tick, OverLimit, KeyExpires, LockFree
<1>15. CASE UNCHANGED taskVars
  BY <1>15 DEF taskVars
<1> QED BY <1>1, <1>2, <1>3, <1>4, <1>5, <1>6, <1>7, <1>8, <1>9, <1>10, <1>11, <1>12, <1>13, <1>14, <1>15
        DEF NextTask, Work

\* Every step keeps the lock with the running task.
LEMMA CoversStep == TaskTypeOK /\ LockCovers /\ [NextTask]_taskVars => LockCovers'
<1> SUFFICES ASSUME TaskTypeOK, LockCovers, [NextTask]_taskVars PROVE LockCovers'
  OBVIOUS
<1> USE LimitsAssumption, NoWorkerAssumption DEF TaskTypeOK, LockCovers
<1>1. ASSUME NEW w \in Workers, Receive(w) PROVE LockCovers'
  BY <1>1 DEF Receive
<1>2. ASSUME NEW w \in Workers, Acquire(w) PROVE LockCovers'
  BY <1>2 DEF Acquire, SetLock, LockFree
<1>3. ASSUME NEW w \in Workers, AcquireReplyLost(w) PROVE LockCovers'
  BY <1>3 DEF AcquireReplyLost, SetLock, LockFree, Settle
<1>4. ASSUME NEW w \in Workers, Skip(w) PROVE LockCovers'
  BY <1>4 DEF Skip, Settle
<1>5. ASSUME NEW w \in Workers, Check(w) PROVE LockCovers'
  BY <1>5 DEF Check
<1>6. ASSUME NEW w \in Workers, Create(w) PROVE LockCovers'
  BY <1>6 DEF Create
<1>7. ASSUME NEW w \in Workers, BodyFailsAndRetries(w) PROVE LockCovers'
  BY <1>7 DEF BodyFailsAndRetries
<1>8. ASSUME NEW w \in Workers, BodyFailsForGood(w) PROVE LockCovers'
  BY <1>8 DEF BodyFailsForGood
<1>9. ASSUME NEW w \in Workers, Release(w) PROVE LockCovers'
  BY <1>9 DEF Release, Settle, DeleteLock, Result
<1>10. ASSUME NEW w \in Workers, ReleaseReplyLost(w) PROVE LockCovers'
  BY <1>10 DEF ReleaseReplyLost, DeleteLock
<1>11. ASSUME NEW w \in Workers, WorkerDies(w) PROVE LockCovers'
  BY <1>11 DEF WorkerDies, PutBack
<1>12. CASE LosesRedis
  BY <1>12 DEF LosesRedis
<1>13. CASE FindsRedis
  BY <1>13 DEF FindsRedis
<1>14. CASE Tick
  BY <1>14 DEF Tick, OverLimit, KeyExpires, LockFree
<1>15. CASE UNCHANGED taskVars
  BY <1>15 DEF taskVars
<1> QED BY <1>1, <1>2, <1>3, <1>4, <1>5, <1>6, <1>7, <1>8, <1>9, <1>10, <1>11, <1>12, <1>13, <1>14, <1>15
        DEF NextTask, Work

\* The type invariant is an invariant.
THEOREM TaskTypeCorrect == TaskSpec => []TaskTypeOK
<1>1. InitTasks => TaskTypeOK /\ HasMessage
  BY InitTasksInv DEF IInv
<1>2. TaskTypeOK /\ HasMessage /\ [NextTask]_taskVars => (TaskTypeOK /\ HasMessage)'
  BY TaskTypeStep
<1> QED BY <1>1, <1>2, PTL DEF TaskSpec

\* At most one rebuild of the user runs, and it holds the lock, unless Redis lost
\* a reply: for any number of workers, crashes, redeliveries and outages.
THEOREM LockExcludes == TaskSpec => []RebuildsExclusive
<1>1. InitTasks => TaskTypeOK /\ HasMessage /\ LockCovers
  BY InitTasksInv DEF IInv
<1>2. TaskTypeOK /\ HasMessage /\ LockCovers /\ [NextTask]_taskVars
      => (TaskTypeOK /\ HasMessage /\ LockCovers)'
  BY TaskTypeStep, CoversStep
<1>3. LockCovers => RebuildsExclusive
  BY DEF LockCovers, RebuildsExclusive, AtMostOneInside
<1> QED BY <1>1, <1>2, <1>3, PTL DEF TaskSpec

\* A message that leaves the queue, or a worker that settles, is replaced by
\* another pending message or worker, or leaves a verdict.
LEMMA AccountedStep ==
    TaskTypeOK /\ HasMessage /\ Accounted /\ [NextTask]_taskVars => Accounted'
<1> SUFFICES ASSUME TaskTypeOK, HasMessage, [NextTask]_taskVars, NEW t \in Tasks,
                    Pending(t) \/ settled[t] \cap Final # {}
             PROVE  (Pending(t) \/ settled[t] \cap Final # {})'
  BY DEF Accounted
<1> DEFINE Queued == \E m \in Messages : m[1] = t /\ queue[m] > 0
           Worked == \E w \in Workers : /\ phase[w] \notin {"idle", "retrying"}
                                         /\ msg[w][1] = t
           Settled == settled[t] \cap Final # {}
<1>a. Queued \/ Worked \/ Settled
  BY DEF Pending
<1>b. SUFFICES Queued' \/ Worked' \/ Settled'
  BY DEF Pending
<1> USE LimitsAssumption DEF TaskTypeOK, HasMessage, Final
<1>1. ASSUME NEW w \in Workers, Receive(w) PROVE Queued' \/ Worked' \/ Settled'
  BY <1>a, <1>1, MessageFacts DEF Receive
<1>2. ASSUME NEW w \in Workers, Acquire(w) PROVE Queued' \/ Worked' \/ Settled'
  BY <1>a, <1>2, MessageFacts DEF Acquire, SetLock, LockFree
<1>3. ASSUME NEW w \in Workers, AcquireReplyLost(w) PROVE Queued' \/ Worked' \/ Settled'
  BY <1>a, <1>3, MessageFacts DEF AcquireReplyLost, SetLock, LockFree, Settle
<1>4. ASSUME NEW w \in Workers, Skip(w) PROVE Queued' \/ Worked' \/ Settled'
  BY <1>a, <1>4, MessageFacts DEF Skip, Settle
<1>5. ASSUME NEW w \in Workers, Check(w) PROVE Queued' \/ Worked' \/ Settled'
  BY <1>a, <1>5, MessageFacts DEF Check
<1>6. ASSUME NEW w \in Workers, Create(w) PROVE Queued' \/ Worked' \/ Settled'
  BY <1>a, <1>6, MessageFacts DEF Create
<1>7. ASSUME NEW w \in Workers, BodyFailsAndRetries(w) PROVE Queued' \/ Worked' \/ Settled'
  BY <1>a, <1>7, MessageFacts DEF BodyFailsAndRetries
<1>8. ASSUME NEW w \in Workers, BodyFailsForGood(w) PROVE Queued' \/ Worked' \/ Settled'
  BY <1>a, <1>8, MessageFacts DEF BodyFailsForGood
<1>9. ASSUME NEW w \in Workers, Release(w) PROVE Queued' \/ Worked' \/ Settled'
  BY <1>a, <1>9, MessageFacts DEF Release, Settle, DeleteLock, Result
<1>10. ASSUME NEW w \in Workers, ReleaseReplyLost(w) PROVE Queued' \/ Worked' \/ Settled'
  BY <1>a, <1>10, MessageFacts DEF ReleaseReplyLost, DeleteLock
<1>11. ASSUME NEW w \in Workers, WorkerDies(w) PROVE Queued' \/ Worked' \/ Settled'
  BY <1>a, <1>11, MessageFacts DEF WorkerDies, PutBack
<1>12. CASE LosesRedis
  BY <1>a, <1>12 DEF LosesRedis
<1>13. CASE FindsRedis
  BY <1>a, <1>13 DEF FindsRedis
<1>14. CASE Tick
  BY <1>a, <1>14 DEF Tick, OverLimit, KeyExpires, LockFree
<1>15. CASE UNCHANGED taskVars
  BY <1>a, <1>15 DEF taskVars
<1> HIDE DEF Queued, Worked, Settled
<1> QED BY <1>1, <1>2, <1>3, <1>4, <1>5, <1>6, <1>7, <1>8, <1>9, <1>10, <1>11, <1>12, <1>13, <1>14, <1>15
        DEF NextTask, Work

\* No task disappears without a verdict, however workers die.
THEOREM TasksKept == TaskSpec => []NoTaskLost
<1>1. InitTasks => TaskTypeOK /\ HasMessage /\ Accounted
  BY InitTasksInv DEF IInv
<1>2. TaskTypeOK /\ HasMessage /\ Accounted /\ [NextTask]_taskVars
      => (TaskTypeOK /\ HasMessage /\ Accounted)'
  BY TaskTypeStep, AccountedStep
<1>3. Accounted => NoTaskLost
  BY DEF Accounted, Pending, NoTaskLost, Waiting, Final
<1> QED BY <1>1, <1>2, <1>3, PTL DEF TaskSpec
=============================================================================
