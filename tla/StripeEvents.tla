---------------------------- MODULE StripeEvents ----------------------------
(***************************************************************************)
(* Stripe's events and one user's subscription tier: the idempotency check *)
(* and the handlers of webhook_handler.py, and the administrator who sets  *)
(* a tier by hand in admin_panel.py.                                       *)
(*                                                                         *)
(* Stripe is external.  It delivers an event again until it gets a 2xx,    *)
(* may deliver it twice or out of order, and the server handles several    *)
(* deliveries at once, in threads of one or more processes.                *)
(***************************************************************************)
EXTENDS Integers, FiniteSets

CONSTANTS
    Events,          \* Stripe events of one customer
    Kind,            \* Kind[e]: "checkout", "updated" or "deleted"
    Threads,         \* request threads serving deliveries
    MaxFaults,       \* bound on crashes, failed handlers, lost replies and outages
    MaxExpiries,     \* bound on keys that expire, a day after they were set
    NoEvent

ASSUME EventsAssumption ==
    /\ Kind \in [Events -> {"checkout", "updated", "deleted"}]
    /\ NoEvent \notin Events

ASSUME ThreadsAssumption == IsFiniteSet(Threads)

ASSUME BoundsAssumption == MaxFaults \in Nat /\ MaxExpiries \in Nat

VARIABLES
    happened,        \* events that occurred at Stripe
    acked,           \* events Stripe got a 2xx for
    key,             \* events whose stripe_event:<id> key is in Redis
    pc, ev,          \* pc[h], ev[h]: where thread h is, and the event it serves
    tier,            \* User.tier
    deleted,         \* User.is_deleted
    redisUp,
    faults,          \* faults so far
    expired,         \* expired[e]: history, times the key of e expired
    handled,         \* handled[e]: history, times a handler of e committed
    overByHand       \* history: events that were over when the administrator last set
                     \* the tier, and whose key has lived since

stripe == <<happened, acked>>
user == <<tier, deleted>>
history == <<expired, handled, overByHand>>
vars == <<happened, acked, key, pc, ev, tier, deleted, redisUp, faults,
          expired, handled, overByHand>>

----------------------------------------------------------------------------
Init ==
    /\ happened = {}
    /\ acked = {}
    /\ key = {}
    /\ pc = [h \in Threads |-> "idle"]
    /\ ev = [h \in Threads |-> NoEvent]
    /\ tier = "free"
    /\ deleted = FALSE
    /\ redisUp = TRUE
    /\ faults = 0
    /\ expired = [e \in Events |-> 0]
    /\ handled = [e \in Events |-> 0]
    /\ overByHand = {}

Fault == faults < MaxFaults /\ faults' = faults + 1

Happen(e) ==
    /\ e \notin happened
    /\ happened' = happened \cup {e}
    /\ UNCHANGED <<acked, key, pc, ev, user, redisUp, faults, history>>

\* A delivery of e, the first or another, with a valid signature.
Deliver(h, e) ==
    /\ pc[h] = "idle"
    /\ e \in happened
    /\ pc' = [pc EXCEPT ![h] = "checking"]
    /\ ev' = [ev EXCEPT ![h] = e]
    /\ UNCHANGED <<stripe, key, user, redisUp, faults, history>>

\* Mutation: the thread keeps the event it answered.
Answer200AndKeep(h) ==
    /\ acked' = acked \cup {ev[h]}
    /\ pc' = [pc EXCEPT ![h] = "idle"]
    /\ UNCHANGED <<happened, ev>>

\* Every path after the signature answers 200.
Answer200(h) ==
    /\ acked' = acked \cup {ev[h]}
    /\ pc' = [pc EXCEPT ![h] = "idle"]
    /\ ev' = [ev EXCEPT ![h] = NoEvent]
    /\ UNCHANGED happened

----------------------------------------------------------------------------
(* _is_event_processed: SET stripe_event:<id> 1 NX EX 86400.                *)

\* Mutation: EXISTS first, SET later: the key is not there when it is tested.
NeverSet(e) == TRUE

NotSet(e) == e \notin key

IsNew(h) ==
    /\ pc[h] = "checking"
    /\ redisUp
    /\ NotSet(ev[h])
    /\ key' = key \cup {ev[h]}
    /\ pc' = [pc EXCEPT ![h] = "handling"]
    /\ UNCHANGED <<stripe, ev, user, redisUp, faults, history>>

\* Mutation: the key does not name the event.
AnyKeySet(e) == key # {}

KeySet(e) == e \in key

\* Mutation: a finally clause deletes the key, also one that another delivery set.
KeyDropped(h) == key' = key \ {ev[h]}

KeyKept(h) == UNCHANGED key

AlreadyProcessed(h) ==
    /\ pc[h] = "checking"
    /\ redisUp
    /\ KeySet(ev[h])
    /\ KeyKept(h)
    /\ Answer200(h)
    /\ UNCHANGED <<user, redisUp, faults, history>>

\* redis-py resends a SET whose reply was lost, and it meets its own key.
IsNewReplyLost(h) ==
    /\ pc[h] = "checking"
    /\ redisUp
    /\ NotSet(ev[h])
    /\ Fault
    /\ key' = key \cup {ev[h]}
    /\ Answer200(h)
    /\ UNCHANGED <<user, redisUp, history>>

\* Redis is down: the facade's set() returns False, which reads as "processed".
\* The branches for a missing client and for an exception are never taken.
UnknownIsProcessed(h) ==
    /\ pc[h] = "checking"
    /\ ~redisUp
    /\ Answer200(h)
    /\ UNCHANGED <<key, user, redisUp, faults, history>>

----------------------------------------------------------------------------
(* The handlers.                                                            *)

\* _handle_checkout_completed looks the user up by client_reference_id.
\* _handle_subscription_updated and _cancelled look for a user whose id is the
\* Stripe customer's, since User has no stripe_customer_id, and find nobody.
TierAfter(e) == IF Kind[e] = "checkout" /\ ~deleted THEN "pro" ELSE tier

Handle(h) ==
    /\ pc[h] = "handling"
    /\ tier' = TierAfter(ev[h])
    /\ handled' = [handled EXCEPT ![ev[h]] = @ + 1]
    /\ Answer200(h)
    /\ UNCHANGED <<key, deleted, redisUp, faults, expired, overByHand>>

\* The database fails: rolled back, logged, and answered "error_handled".
HandleFails(h) ==
    /\ pc[h] = "handling"
    /\ Fault
    /\ Answer200(h)
    /\ UNCHANGED <<key, user, redisUp, history>>

----------------------------------------------------------------------------
Handling(e) == {h \in Threads : pc[h] = "handling" /\ ev[h] = e}

\* Events that are over: answered, no handler at work, the key still there.  (A second
\* delivery is answered while the first is still being handled.)
Over == {e \in acked \cap key : Handling(e) = {}}

\* update_user: an administrator sets the tier.
SetTier(t) ==
    /\ ~deleted
    /\ tier' = t
    /\ overByHand' = Over
    /\ UNCHANGED <<stripe, key, pc, ev, deleted, redisUp, faults, expired, handled>>

DeleteAccount ==
    /\ deleted' = TRUE
    /\ UNCHANGED <<stripe, key, pc, ev, tier, redisUp, faults, history>>

\* The process dies before it answers; Stripe sees no 2xx.
Crash(h) ==
    /\ pc[h] # "idle"
    /\ Fault
    /\ pc' = [pc EXCEPT ![h] = "idle"]
    /\ ev' = [ev EXCEPT ![h] = NoEvent]
    /\ UNCHANGED <<stripe, key, user, redisUp, history>>

Expire(e) ==
    /\ e \in key
    /\ expired[e] < MaxExpiries
    /\ key' = key \ {e}
    /\ expired' = [expired EXCEPT ![e] = @ + 1]
    /\ overByHand' = overByHand \ {e}
    /\ UNCHANGED <<stripe, pc, ev, user, redisUp, faults, handled>>

Outage ==
    /\ redisUp
    /\ Fault
    /\ redisUp' = FALSE
    /\ UNCHANGED <<stripe, key, pc, ev, user, history>>

Recovery ==
    /\ ~redisUp
    /\ redisUp' = TRUE
    /\ UNCHANGED <<stripe, key, pc, ev, user, faults, history>>

Serve(h) ==
    \/ IsNew(h) \/ AlreadyProcessed(h) \/ IsNewReplyLost(h) \/ UnknownIsProcessed(h)
    \/ Handle(h) \/ HandleFails(h)

Next ==
    \/ \E e \in Events : Happen(e) \/ Expire(e)
    \/ \E h \in Threads, e \in Events : Deliver(h, e)
    \/ \E h \in Threads : Serve(h) \/ Crash(h)
    \/ \E t \in {"free", "pro"} : SetTier(t)
    \/ DeleteAccount
    \/ Outage \/ Recovery

Spec == Init /\ [][Next]_vars

----------------------------------------------------------------------------
(* Properties.                                                              *)

TypeOK ==
    /\ happened \subseteq Events
    /\ acked \subseteq happened
    /\ key \subseteq happened
    /\ pc \in [Threads -> {"idle", "checking", "handling"}]
    /\ ev \in [Threads -> happened \cup {NoEvent}]
    /\ \A h \in Threads : pc[h] = "idle" <=> ev[h] = NoEvent
    /\ tier \in {"free", "pro"}
    /\ deleted \in BOOLEAN /\ redisUp \in BOOLEAN
    /\ faults \in 0 .. MaxFaults
    /\ expired \in [Events -> 0 .. MaxExpiries]
    /\ handled \in [Events -> Nat]
    /\ overByHand \subseteq Events

\* However its deliveries overlap, a Stripe event is handled at most once while
\* its key lives: the handlings that committed or are under way never exceed the
\* keys that were set (_is_event_processed).
HandledOncePerKey ==
    \A e \in Events :
        handled[e] + Cardinality(Handling(e))
            <= expired[e] + (IF e \in key THEN 1 ELSE 0)

\* Stripe is told 200 for an event nobody handled, or handles, only after a fault.
OnlyFaultsLoseEvents ==
    faults = 0 => \A e \in acked : handled[e] > 0 \/ Handling(e) # {}

\* The tier an administrator set is not undone by what was over by then: later
\* deliveries of such an event, delivered again after a crash, a lost reply or twice at
\* once, change it only after the event's key has expired.  An event that was answered
\* but whose first handler was still at work does undo it.
ByHandStands ==
    [][\A h \in Threads :
         pc[h] = "handling" /\ tier' # tier /\ ev'[h] # ev[h] => ev[h] \notin overByHand]_vars

\* "Handle subscription cancellation -- downgrade user to free."
CancellationDowngrades ==
    [][\A e \in Events :
         Kind[e] = "deleted" /\ handled'[e] > handled[e] => tier' = "free"]_vars
=============================================================================
