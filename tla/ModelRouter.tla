---------------------------- MODULE ModelRouter ----------------------------
(***************************************************************************)
(* The multi-provider router of model_router.py: the order in which models *)
(* are tried, the circuit breaker each provider has, the retries of a      *)
(* call, and the streaming entry that falls back to a plain route.         *)
(*                                                                         *)
(* Routes are coroutines of one event loop: what runs between two awaits   *)
(* is one step, and the calls of different routes interleave.  is_open is  *)
(* also called by request threads that report provider status, and there   *)
(* its read and its write are two steps.                                   *)
(***************************************************************************)
EXTENDS Selections, Sequences, SequencesExt

CONSTANTS
    Routes,          \* concurrent calls of route() or stream()
    Models,          \* keys of PROVIDER_CONFIGS
    Providers,       \* API providers; models share them, and their breakers
    ProviderOf,      \* ProviderOf[m]: PROVIDER_CONFIGS[m]["provider"]
    Enabled,         \* the models with an API key
    Chain,           \* DEFAULT_FALLBACK_CHAIN
    StreamModel,     \* the model stream() calls: gemini-flash
    Threshold,       \* failure_threshold
    Recovery,        \* recovery_timeout, in ticks
    MaxRetries       \* llm_max_retries

ASSUME ModelsAssumption ==
    /\ ProviderOf \in [Models -> Providers]
    /\ Enabled \subseteq Models
    /\ StreamModel \in Models
    /\ Chain \in Seq(Models)
    /\ ToSet(Chain) = Models /\ IsInjective(Chain)

ASSUME RoutesAssumption == IsFiniteSet(Routes)

ASSUME BreakerAssumption ==
    /\ Threshold \in Nat \ {0}
    /\ Recovery \in Nat
    /\ MaxRetries \in Nat \ {0}

VARIABLES
    reliable,        \* the providers that never fail in this behaviour
    failures,        \* failures[p]: CircuitBreaker._failures, 0 when absent
    age,             \* age[p]: ticks since _opened_at[p], capped past Recovery,
                     \* where an absent stamp also stands
    probes,          \* providers whose breaker a status read found expired,
                     \* and is about to half-open
    rpc,             \* rpc[r]: where route r is; "idle" again once it answered
    chain,           \* chain[r]: the list `available` of route r
    pos,             \* pos[r]: the index in it of the model being called
    attempt,         \* attempt[r]: failed attempts of the current call
    stamped          \* stamped[r]: history, the providers whose breaker a failure
                     \* found open since r, still calling, computed `available`

breaker == <<failures, age>>
routeVars == <<chain, pos, attempt>>
routerVars == <<reliable, failures, age, probes, rpc, chain, pos, attempt, stamped>>

----------------------------------------------------------------------------
(* The circuit breaker.                                                    *)

Tripped(p) == failures[p] >= Threshold

\* time.time() - opened > recovery_timeout
Expired(p) == age[p] > Recovery

\* Mutation: nothing looks at the recovery timeout.
IsOpenForGood(p) == Tripped(p)

\* The value is_open(provider) returns.
IsOpen(p) == Tripped(p) /\ ~Expired(p)

\* What is_open leaves behind: an expired breaker is one failure from open.
HalfOpened(p) == IF Tripped(p) /\ Expired(p) THEN Threshold - 1 ELSE failures[p]

RecordSuccess(p) ==
    /\ failures' = [failures EXCEPT ![p] = 0]
    /\ age' = [age EXCEPT ![p] = Recovery + 1]

RecordFailure(p) ==
    /\ failures' = [failures EXCEPT ![p] = @ + 1]
    /\ age' = IF failures'[p] >= Threshold THEN [age EXCEPT ![p] = 0] ELSE age

----------------------------------------------------------------------------
(* The order of a route.                                                   *)

\* The preferred model first, then the rest of the default chain.  The cost
\* router's choice and the caller's both have this form.
Preferring(m) == <<m>> \o AtIndices(Chain, {i \in DOMAIN Chain : Chain[i] # m})

Orders == {Chain} \cup {Preferring(m) : m \in Models}

\* Mutation: only the first model's breaker is asked.
AvailableFirst(order) ==
    AtIndices(order, {i \in DOMAIN order :
                         /\ order[i] \in Enabled
                         /\ i = 1 => ~IsOpen(ProviderOf[order[i]])})

\* Mutation: open breakers are not skipped.
AvailableWhenEnabled(order) ==
    AtIndices(order, {i \in DOMAIN order : order[i] \in Enabled})

Available(order) ==
    AtIndices(order, {i \in DOMAIN order :
                         order[i] \in Enabled /\ ~IsOpen(ProviderOf[order[i]])})

ProvidersAsked == {ProviderOf[m] : m \in Enabled}

Busy(r) == rpc[r] \in {"streaming", "calling"}

Current(r) == ProviderOf[chain[r][pos[r]]]

Finish(r, how) ==
    /\ rpc' = [rpc EXCEPT ![r] = how]
    /\ chain' = [chain EXCEPT ![r] = <<>>]
    /\ pos' = [pos EXCEPT ![r] = 1]
    /\ attempt' = [attempt EXCEPT ![r] = 0]

\* route(): filter the order, which half-opens the expired breakers it asks,
\* and call the first model left.
BeginRoute(r) ==
    \E order \in Orders :
        LET available == Available(order)
        IN  /\ failures' = [p \in Providers |-> IF p \in ProvidersAsked
                                                THEN HalfOpened(p) ELSE failures[p]]
            /\ UNCHANGED <<age, probes, reliable>>
            /\ stamped' = [stamped EXCEPT ![r] = {}]
            /\ IF available = <<>>
               THEN Finish(r, "unavailable")
               ELSE /\ rpc' = [rpc EXCEPT ![r] = "calling"]
                    /\ chain' = [chain EXCEPT ![r] = available]
                    /\ pos' = [pos EXCEPT ![r] = 1]
                    /\ attempt' = [attempt EXCEPT ![r] = 0]

----------------------------------------------------------------------------
InitRouter ==
    /\ reliable \in SUBSET Providers
    /\ failures = [p \in Providers |-> 0]
    /\ age = [p \in Providers |-> Recovery + 1]
    /\ probes = {}
    /\ rpc = [r \in Routes |-> "idle"]
    /\ chain = [r \in Routes |-> <<>>]
    /\ pos = [r \in Routes |-> 1]
    /\ attempt = [r \in Routes |-> 0]
    /\ stamped = [r \in Routes |-> {}]

\* A request the cost router rejects has an empty order: it gets the error of
\* "unavailable" and leaves no trace here.
Route(r) == ~Busy(r) /\ BeginRoute(r)

\* stream() calls the model whatever its breaker says, and tells the breaker
\* nothing.
Stream(r) ==
    /\ ~Busy(r)
    /\ StreamModel \in Enabled
    /\ rpc' = [rpc EXCEPT ![r] = "streaming"]
    /\ UNCHANGED <<breaker, probes, reliable, routeVars, stamped>>

StreamEnds(r) ==
    /\ rpc[r] = "streaming"
    /\ Finish(r, "idle")
    /\ UNCHANGED <<breaker, probes, reliable, stamped>>

\* The stream raises, perhaps after some chunks: the prompt is routed anew.
StreamBreaks(r) ==
    /\ rpc[r] = "streaming"
    /\ ProviderOf[StreamModel] \notin reliable
    /\ BeginRoute(r)

CallSucceeds(r) ==
    /\ rpc[r] = "calling"
    /\ RecordSuccess(Current(r))
    /\ Finish(r, "idle")
    /\ stamped' = [stamped EXCEPT ![r] = {}]
    /\ UNCHANGED <<probes, reliable>>

Retryable(r) == attempt[r] + 1 < MaxRetries

\* A timeout, a 429 or a 503: wait, then call again.
AttemptFails(r) ==
    /\ rpc[r] = "calling"
    /\ Current(r) \notin reliable
    /\ Retryable(r)
    /\ attempt' = [attempt EXCEPT ![r] = @ + 1]
    /\ UNCHANGED <<breaker, probes, reliable, rpc, chain, pos, stamped>>

\* Mutation: the last model of the list is never tried.
GoToNextButLast(r) ==
    IF pos[r] + 1 < Len(chain[r])
    THEN /\ pos' = [pos EXCEPT ![r] = @ + 1]
         /\ attempt' = [attempt EXCEPT ![r] = 0]
         /\ UNCHANGED <<rpc, chain>>
    ELSE Finish(r, "exhausted")

\* `continue`: the next model of the list, whatever its breaker says by now.
GoToNext(r) ==
    IF pos[r] < Len(chain[r])
    THEN /\ pos' = [pos EXCEPT ![r] = @ + 1]
         /\ attempt' = [attempt EXCEPT ![r] = 0]
         /\ UNCHANGED <<rpc, chain>>
    ELSE Finish(r, "exhausted")

\* The last attempt failed, or an error that is not retried (a 4xx, a
\* Retry-After that is no number).
CallFails(r) ==
    /\ rpc[r] = "calling"
    /\ Current(r) \notin reliable
    /\ RecordFailure(Current(r))
    /\ GoToNext(r)
    /\ stamped' = [q \in Routes |->
                     IF rpc'[q] # "calling" THEN {}
                     ELSE stamped[q] \cup {p \in {Current(r)} : Tripped(p)'}]
    /\ UNCHANGED <<probes, reliable>>

----------------------------------------------------------------------------
\* get_available_providers on a request thread: is_open reads an expired
\* breaker ...
ProbeReads(p) ==
    /\ Tripped(p) /\ Expired(p)
    /\ probes' = probes \cup {p}
    /\ UNCHANGED <<breaker, rpc, routeVars, stamped, reliable>>

\* ... and half-opens it, whatever happened to it meanwhile.
ProbeWrites(p) ==
    /\ p \in probes
    /\ failures' = [failures EXCEPT ![p] = Threshold - 1]
    /\ probes' = probes \ {p}
    /\ UNCHANGED <<age, rpc, routeVars, stamped, reliable>>

BreakersAge ==
    /\ age' = [p \in Providers |-> IF Expired(p) THEN age[p] ELSE age[p] + 1]
    /\ UNCHANGED <<failures, probes, reliable, rpc, routeVars, stamped>>

Outcome(r) == CallSucceeds(r) \/ AttemptFails(r) \/ CallFails(r)

StreamOutcome(r) == StreamEnds(r) \/ StreamBreaks(r)

NextRoute ==
    \/ \E r \in Routes :
        \/ Route(r) \/ Stream(r) \/ Outcome(r) \/ StreamOutcome(r)
    \/ \E p \in Providers : ProbeReads(p) \/ ProbeWrites(p)
    \/ BreakersAge

RouterSpec == InitRouter /\ [][NextRoute]_routerVars

\* Every attempt ends: asyncio.wait_for gives it llm_timeout seconds.  Time passes.
FairRouterSpec ==
    /\ RouterSpec
    /\ \A r \in Routes : WF_routerVars(Outcome(r))
    /\ WF_routerVars(BreakersAge)

----------------------------------------------------------------------------
(* Properties.                                                             *)

\* The most calls of p that may be in flight or still to come when its breaker
\* trips.
CallsAhead(p) == Cardinality(Routes) * Cardinality({m \in Enabled : ProviderOf[m] = p})

RouterTypes ==
    /\ reliable \subseteq Providers
    /\ failures \in [Providers -> Nat]
    /\ age \in [Providers -> 0 .. Recovery + 1]
    /\ probes \subseteq Providers
    /\ rpc \in [Routes -> {"idle", "streaming", "calling", "exhausted", "unavailable"}]
    /\ chain \in [Routes -> Seq(Enabled)]
    /\ pos \in [Routes -> Nat \ {0}]
    /\ attempt \in [Routes -> 0 .. MaxRetries - 1]
    /\ stamped \in [Routes -> SUBSET Providers]

\* The types.  The failure count is bounded although an open breaker keeps counting:
\* only routes that computed `available` before it opened can add to it.
RouterTypeOK ==
    /\ RouterTypes
    /\ \A p \in Providers : failures[p] < Threshold + CallsAhead(p)

\* A provider whose breaker is open is called only by routes that filtered
\* their models before it opened: no later route() reaches it until
\* recovery_timeout passes (tests/test_fallback.py:108-111).
OpenOnlyForEarlierRoutes ==
    \A r \in Routes : rpc[r] = "calling" /\ IsOpen(Current(r))
                      => Current(r) \in stamped[r]

\* As long as one provider with a key works, route() answers or the cost router
\* refused: the fallback reaches it behind any failures of the others.
ReliableAnswers ==
    (\E m \in Enabled : ProviderOf[m] \in reliable)
        => \A r \in Routes : rpc[r] \notin {"exhausted", "unavailable"}

\* An open breaker lets calls through again, although routes that began before
\* it opened go on failing and stamping it.
BreakerRecovers == \A p \in Providers : IsOpen(p) ~> ~IsOpen(p)
=============================================================================
