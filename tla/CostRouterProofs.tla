-------------------------- MODULE CostRouterProofs --------------------------
(***************************************************************************)
(* Theorems of CostRouter, and of the choice ModelCatalog makes.           *)
(***************************************************************************)
EXTENDS CostRouter, FiniteSetTheorems, TLAPS

----------------------------------------------------------------------------
(* The choice of a model.                                                   *)

Names == {"gemini-flash", "gemini-pro", "gpt-4o-mini", "gpt-4o", "claude-haiku",
          "claude-sonnet", "ollama-llama3"}

LEMMA ModelNames == Models = Names
BY DEF Models, Catalog, Names

LEMMA Entries ==
    ASSUME NEW m \in Models
    PROVE  /\ Catalog[m].input \in Nat /\ Catalog[m].output \in Nat
           /\ Catalog[m].quality \in Nat
           /\ Catalog[m].tier \in {"cheap", "standard", "premium", "local"}
<1>1. m \in Names
  BY ModelNames
<1>2. CASE m = "gemini-flash"
  BY <1>2 DEF Catalog, Entry
<1>3. CASE m = "gemini-pro"
  BY <1>3 DEF Catalog, Entry
<1>4. CASE m = "gpt-4o-mini"
  BY <1>4 DEF Catalog, Entry
<1>5. CASE m = "gpt-4o"
  BY <1>5 DEF Catalog, Entry
<1>6. CASE m = "claude-haiku"
  BY <1>6 DEF Catalog, Entry
<1>7. CASE m = "claude-sonnet"
  BY <1>7 DEF Catalog, Entry
<1>8. CASE m = "ollama-llama3"
  BY <1>8 DEF Catalog, Entry
<1> QED BY <1>1, <1>2, <1>3, <1>4, <1>5, <1>6, <1>7, <1>8 DEF Names

LEMMA Qualities ==
    /\ Catalog["gpt-4o"].quality = 95 /\ Catalog["claude-sonnet"].quality = 93
    /\ Catalog["gemini-pro"].quality = 92 /\ Catalog["gpt-4o-mini"].quality = 82
    /\ Catalog["claude-haiku"].quality = 78 /\ Catalog["gemini-flash"].quality = 75
    /\ Catalog["ollama-llama3"].quality = 70
BY DEF Catalog, Entry

\* Among any models one is best, and BestOf takes such a one.
LEMMA BestIsThere ==
    ASSUME NEW models, models \subseteq Models, models # {}
    PROVE  /\ BestOf(models) \in models
           /\ \A n \in models : Catalog[n].quality <= Catalog[BestOf(models)].quality
<1>1. \E m \in models : \A n \in models : Catalog[n].quality <= Catalog[m].quality
  <2>1. models \subseteq Names
    BY ModelNames
  <2>2. CASE "gpt-4o" \in models
    BY <2>1, <2>2, Qualities DEF Names
  <2>3. CASE "gpt-4o" \notin models /\ "claude-sonnet" \in models
    BY <2>1, <2>3, Qualities DEF Names
  <2>4. CASE /\ {"gpt-4o", "claude-sonnet"} \cap models = {} /\ "gemini-pro" \in models
    BY <2>1, <2>4, Qualities DEF Names
  <2>5. CASE /\ {"gpt-4o", "claude-sonnet", "gemini-pro"} \cap models = {}
             /\ "gpt-4o-mini" \in models
    BY <2>1, <2>5, Qualities DEF Names
  <2>6. CASE /\ {"gpt-4o", "claude-sonnet", "gemini-pro", "gpt-4o-mini"} \cap models = {}
             /\ "claude-haiku" \in models
    BY <2>1, <2>6, Qualities DEF Names
  <2>7. CASE models \subseteq {"gemini-flash", "ollama-llama3"} /\ "gemini-flash" \in models
    BY <2>7, Qualities
  <2>8. CASE models = {"ollama-llama3"}
    BY <2>8, Qualities
  <2> QED BY <2>1, <2>2, <2>3, <2>4, <2>5, <2>6, <2>7, <2>8 DEF Names
<1> QED BY <1>1 DEF BestOf

LEMMA SomeLeast ==
    ASSUME NEW some, some \subseteq 1 .. 5, some # {}
    PROVE  \E i \in some : \A j \in some : i <= j
<1>1. CASE 1 \in some
  BY <1>1
<1>2. CASE 1 \notin some /\ 2 \in some
  BY <1>2
<1>3. CASE 1 \notin some /\ 2 \notin some /\ 3 \in some
  BY <1>3
<1>4. CASE 1 \notin some /\ 2 \notin some /\ 3 \notin some /\ 4 \in some
  BY <1>4
<1>5. CASE some = {5}
  BY <1>5
<1>6. some \subseteq {1, 2, 3, 4, 5}
  OBVIOUS
<1> QED BY <1>1, <1>2, <1>3, <1>4, <1>5, <1>6

LEMMA SelectedIsThere ==
    ASSUME NEW score, NEW models, models \subseteq Models, models # {}
    PROVE  SelectByComplexity(score, models) \in models
<1> DEFINE tiers == <<TargetTier(score), "standard", "cheap", "premium", "local">>
           some == {i \in 1 .. 5 : InTier(models, tiers[i]) # {}}
           least == CHOOSE i \in some : \A j \in some : i <= j
<1>1. some # {}
  <2>1. PICK m \in models : TRUE
    OBVIOUS
  <2>2. /\ tiers[2] = "standard" /\ tiers[3] = "cheap" /\ tiers[4] = "premium"
        /\ tiers[5] = "local"
    OBVIOUS
  <2>3. \E i \in 1 .. 5 : tiers[i] = Catalog[m].tier
    <3>1. Catalog[m].tier \in {"cheap", "standard", "premium", "local"}
      BY <2>1, Entries
    <3>2. 2 \in 1 .. 5 /\ 3 \in 1 .. 5 /\ 4 \in 1 .. 5 /\ 5 \in 1 .. 5
      OBVIOUS
    <3> HIDE DEF tiers
    <3> QED BY <2>2, <3>1, <3>2
  <2> HIDE DEF tiers
  <2> QED BY <2>1, <2>3 DEF InTier
<1>2. some \subseteq 1 .. 5
  OBVIOUS
<1>3. least \in some
  <2> HIDE DEF some
  <2> QED BY <1>1, <1>2, SomeLeast
<1>4. InTier(models, tiers[least]) # {}
  BY <1>3
<1>5. InTier(models, tiers[least]) \subseteq models
  BY DEF InTier
<1>6. SelectByComplexity(score, models) = BestOf(InTier(models, tiers[least]))
  BY DEF SelectByComplexity
<1> HIDE DEF tiers, least
<1> QED BY <1>4, <1>5, <1>6, BestIsThere

LEMMA CostIsNat ==
    ASSUME NEW m \in Models, NEW tokens \in Nat
    PROVE  EstimateCost(m, tokens) \in Nat
<1> DEFINE a == (tokens * 7) \div 10
           b == (tokens * 3) \div 10
<1>1. a \in Nat /\ b \in Nat
  OBVIOUS
<1>2. Catalog[m].input \in Nat /\ Catalog[m].output \in Nat
  BY Entries
<1>3. EstimateCost(m, tokens) = (Catalog[m].input * a + Catalog[m].output * b) \div 1250
  BY DEF EstimateCost
<1> HIDE DEF a, b
<1>4. ASSUME NEW x \in Nat, NEW y \in Nat PROVE x * y \in Nat
  BY <1>4
<1>5. Catalog[m].input * a \in Nat /\ Catalog[m].output * b \in Nat
  BY <1>1, <1>2, <1>4
<1> DEFINE u == Catalog[m].input * a
           v == Catalog[m].output * b
<1>6. u \in Nat /\ v \in Nat /\ EstimateCost(m, tokens) = (u + v) \div 1250
  BY <1>3, <1>5
<1> HIDE DEF u, v
<1> QED BY <1>6

\* The decision of route(), whatever the question, the models at hand, the budget
\* and the estimate: it rejects exactly when no model fits, chooses one that does,
\* and the model the question asks for when that fits.
THEOREM DecisionSound ==
    ASSUME NEW score, NEW models, models \subseteq Models,
           NEW budget \in Int, NEW tokens \in Nat
    PROVE  LET decision == Decision(score, models, budget, tokens)
               affordable == Affordable(models, budget, tokens)
               wanted == SelectByComplexity(score, models)
           IN  /\ decision.rejected <=> affordable = {}
               /\ ~decision.rejected => decision.model \in affordable
               /\ wanted \in affordable => decision = Chosen(wanted)
<1> DEFINE decision == Decision(score, models, budget, tokens)
           affordable == Affordable(models, budget, tokens)
           wanted == SelectByComplexity(score, models)
<1>1. /\ Rejected.rejected = TRUE
      /\ \A m : Chosen(m).rejected = FALSE /\ Chosen(m).model = m
  BY DEF Rejected, Chosen
<1>2. affordable \subseteq models
  BY DEF Affordable
<1>3. CASE models = {}
  <2>1. decision = Rejected /\ affordable = {}
    BY <1>2, <1>3 DEF Decision
  <2> QED BY <2>1, <1>1
<1>4. CASE models # {} /\ EstimateCost(wanted, tokens) <= budget
  <2>1. decision = Chosen(wanted)
    BY <1>4 DEF Decision
  <2>2. wanted \in affordable
    BY <1>4, SelectedIsThere DEF Affordable
  <2> QED BY <1>1, <2>1, <2>2
<1>5. CASE models # {} /\ ~(EstimateCost(wanted, tokens) <= budget) /\ affordable # {}
  <2>1. decision = Chosen(BestOf(affordable))
    BY <1>5 DEF Decision
  <2>2. BestOf(affordable) \in affordable
    BY <1>2, <1>5, BestIsThere
  <2>3. wanted \notin affordable
    BY <1>5 DEF Affordable
  <2> QED BY <1>1, <1>5, <2>1, <2>2, <2>3
<1>6. CASE models # {} /\ ~(EstimateCost(wanted, tokens) <= budget) /\ affordable = {}
  <2>1. decision = Rejected
    BY <1>6 DEF Decision
  <2> QED BY <1>1, <1>6, <2>1
<1> QED BY <1>3, <1>4, <1>5, <1>6

\* RouteSound is DecisionSound for the models and the budget of this moment.
LEMMA AvailableAreModels == AvailableModels(Configured) \subseteq Models
BY DEF AvailableModels

LEMMA LimitIsNat ==
    ASSUME NEW u
    PROVE  LimitOf(u) \in Nat
<1>1. LimitOf(u) \in {MonthlyBudget[t] : t \in {"free", "pro", "enterprise", "anonymous"}}
  BY DEF LimitOf, MonthlyBudget
<1>2. \A t \in {"free", "pro", "enterprise", "anonymous"} : MonthlyBudget[t] \in Nat
  BY DEF MonthlyBudget
<1> QED BY <1>1, <1>2

----------------------------------------------------------------------------
(* The state is well typed.                                                 *)

LEMMA NoKeyIsNone == \A v \in Int \cup {NoKey} : v # NoKey => v \in Int
OBVIOUS

\* The types of a request's variables, and of the books.
RequestTyped ==
    /\ pc \in [Requests -> Places] /\ kind \in [Requests -> Kinds]
    /\ tier \in [Requests -> Tiers \cup {"free"}]
    /\ charge \in [Requests -> 0 .. MaxCharge]

BooksTyped ==
    made \in Nat /\ spent \in Nat /\ resent \in Nat /\ raced \in BOOLEAN

LEMMA TypeParts ==
    TypeOK <=> /\ RequestTyped /\ BooksTyped
               /\ value \in Int \cup {NoKey} /\ ttl \in (Nat \ {0}) \cup {NoTTL}
               /\ now \in Nat /\ redisUp \in BOOLEAN /\ faults \in Nat /\ blind \in Nat
               /\ fresh \in [Requests -> BOOLEAN]
BY Zenon DEF TypeOK, RequestTyped, BooksTyped

LEMMA InitTypeOK == Init => TypeOK
<1>1. Init => now \in Nat
  BY DEF Init
<1>2. Init => charge \in [Requests -> 0 .. MaxCharge]
  BY AmountsAssumption DEF Init
<1>3. Init => /\ pc \in [Requests -> Places] /\ kind \in [Requests -> Kinds]
              /\ tier \in [Requests -> Tiers \cup {"free"}]
  BY DEF Init, Places, Kinds, Chatting
<1>4. Init => fresh \in [Requests -> BOOLEAN] /\ raced \in BOOLEAN /\ redisUp \in BOOLEAN
  BY DEF Init
<1>5. Init => /\ value \in Int \cup {NoKey} /\ ttl \in (Nat \ {0}) \cup {NoTTL}
              /\ faults \in Nat /\ made \in Nat /\ spent \in Nat /\ resent \in Nat
              /\ blind \in Nat
  BY DEF Init
<1> QED BY <1>1, <1>2, <1>3, <1>4, <1>5 DEF TypeOK

LEMMA HoursAreNat == ASSUME now \in Nat PROVE HoursToKeep \in Nat \ {0}
<1> DEFINE day == now \div DayLength
           hours == (Days - day - 1) * DayLength
<1>1. day \in Nat
  BY TimesAssumption
<1>2. Days - day - 1 \in Int
  BY <1>1, TimesAssumption
<1> DEFINE k == Days - day - 1
<1>3. k * DayLength \in Int
  <2> HIDE DEF k
  <2> QED BY <1>2, TimesAssumption DEF k
<1>4. hours \in Int
  BY <1>3
<1>5. HoursToKeep = IF hours < 1 THEN 1 ELSE hours
  BY DEF HoursToKeep
<1> HIDE DEF hours
<1> QED BY <1>4, <1>5

\* Where Decide leaves a request.
LEMMA DecideIsTyped ==
    ASSUME TypeOK, NEW r \in Requests, NEW budget, Decide(r, budget)
    PROVE  RequestTyped'
<1>1. Goto(r, Onward(r)) \/ Answer(r)
  BY DEF Decide
<1>2. Onward(r) \in Places
  BY DEF Onward, Places
<1>3. CASE Goto(r, Onward(r))
  BY <1>2, <1>3 DEF Goto, TypeOK, RequestTyped
<1>4. CASE Answer(r)
  BY <1>4, AmountsAssumption DEF Answer, TypeOK, RequestTyped, Places, Kinds, Chatting
<1> QED BY <1>1, <1>3, <1>4

LEMMA AfterReplyIsTyped ==
    ASSUME TypeOK, NEW r \in Requests, AfterReply(r)
    PROVE  RequestTyped'
BY AmountsAssumption
   DEF AfterReply, Extract, Answer, TypeOK, RequestTyped, Places, Kinds, Chatting

LEMMA GotoIsTyped ==
    ASSUME TypeOK, NEW r \in Requests, NEW p \in Places, Goto(r, p)
    PROVE  RequestTyped'
BY DEF Goto, TypeOK, RequestTyped

LEMMA FreshIsTyped ==
    ASSUME TypeOK, NEW r \in Requests, NEW others, Knows(r) \/ Moved(others)
    PROVE  fresh' \in [Requests -> BOOLEAN]
BY DEF TypeOK, Knows, Moved

LEMMA SetBudgetIsTyped ==
    ASSUME TypeOK, NEW r \in Requests, SetBudget(r)
    PROVE  value' \in Int /\ ttl' \in Nat \ {0} /\ BooksTyped'
<1>1. value' \in Int /\ ttl' \in Nat \ {0}
  BY LimitIsNat, HoursAreNat DEF SetBudget, Limit, TypeOK
<1>2. spent' \in Nat /\ resent' \in Nat
  BY DEF SetBudget, TypeOK
<1>3. raced' \in BOOLEAN
  BY DEF SetBudget, TypeOK
<1>4. made' \in Nat
  BY LimitIsNat DEF SetBudget, Limit
<1> QED BY <1>1, <1>2, <1>3, <1>4 DEF BooksTyped

LEMMA DeductIsTyped ==
    ASSUME TypeOK, NEW r \in Requests, Deduct(r)
    PROVE  /\ value' \in Int /\ ttl' = ttl /\ fresh' \in [Requests -> BOOLEAN]
           /\ charge[r] \in Nat /\ made' \in Nat /\ raced' \in BOOLEAN
<1>1. charge[r] \in Nat
  BY AmountsAssumption DEF TypeOK
<1>2. value' \in Int /\ ttl' = ttl
  BY <1>1 DEF Deduct, TypeOK
<1>3. fresh' \in [Requests -> BOOLEAN]
  BY FreshIsTyped DEF Deduct
<1>4. raced' \in BOOLEAN
  BY DEF Deduct, TypeOK
<1>5. made' \in Nat
  BY DEF Deduct, TypeOK
<1> QED BY <1>1, <1>2, <1>3, <1>4, <1>5

\* A step of r that leaves Redis and the books alone.
LEMMA QuietIsTyped ==
    ASSUME TypeOK, RequestTyped', fresh' \in [Requests -> BOOLEAN],
           UNCHANGED <<key, now, redisUp, faults, books, blind>>
    PROVE  TypeOK'
BY TypeParts DEF TypeOK, RequestTyped, BooksTyped, key, books

\* One step per action.
LEMMA NextTypeOK == TypeOK /\ [Next]_vars => TypeOK'
<1> SUFFICES ASSUME TypeOK, [Next]_vars PROVE TypeOK'
  OBVIOUS
<1>0. /\ fresh \in [Requests -> BOOLEAN] /\ faults \in Nat /\ blind \in Nat
      /\ faults + 1 \in Nat /\ blind + 1 \in Nat
  BY DEF TypeOK
<1>1. ASSUME NEW r \in Requests, Start(r) PROVE TypeOK'
  <2>1. RequestTyped'
    <3>1. PICK k \in Chatting \cup {"agent"} :
              /\ kind' = [kind EXCEPT ![r] = k]
              /\ pc' = [pc EXCEPT ![r] = IF k = "agent" THEN "route" ELSE "admit"]
      BY <1>1 DEF Start
    <3>2. PICK t \in Tiers : tier' = [tier EXCEPT ![r] = t]
      BY <1>1 DEF Start
    <3>3. charge' = charge
      BY <1>1 DEF Start
    <3> QED BY <3>1, <3>2, <3>3 DEF TypeOK, RequestTyped, Places, Kinds, Deducting
  <2> QED BY <1>0, <1>1, <2>1, QuietIsTyped DEF Start
<1>2. ASSUME NEW r \in Requests, Look(r) PROVE TypeOK'
  <2>1. RequestTyped'
    <3>1. CASE redisUp /\ value # NoKey
      BY <1>2, <3>1, DecideIsTyped DEF Look
    <3>2. CASE ~(redisUp /\ value # NoKey)
      BY <1>2, <3>2, GotoIsTyped DEF Look, Places
    <3> QED BY <3>1, <3>2
  <2>2. fresh' \in [Requests -> BOOLEAN]
    BY <1>2, FreshIsTyped DEF Look
  <2> QED BY <1>2, <2>1, <2>2, QuietIsTyped DEF Look
<1>3. ASSUME NEW r \in Requests, Create(r) PROVE TypeOK'
  <2>1. RequestTyped'
    BY <1>3, DecideIsTyped DEF Create
  <2>2. CASE redisUp /\ SetBudget(r) /\ Moved(Ignorant \ {r}) /\ UNCHANGED blind
    <3>1. fresh' \in [Requests -> BOOLEAN]
      BY <2>2, FreshIsTyped
    <3>2. value' \in Int /\ ttl' \in Nat \ {0} /\ BooksTyped'
      BY <2>2, SetBudgetIsTyped
    <3>3. UNCHANGED <<now, redisUp, faults>>
      BY <1>3 DEF Create
    <3> QED BY <2>1, <2>2, <3>1, <3>2, <3>3, TypeParts DEF TypeOK, RequestTyped, BooksTyped
  <2>3. CASE ~redisUp /\ blind' = blind + 1 /\ Knows(r) /\ UNCHANGED <<key, books>>
    <3>1. fresh' \in [Requests -> BOOLEAN]
      BY <2>3, FreshIsTyped
    <3>2. UNCHANGED <<now, redisUp, faults>>
      BY <1>3 DEF Create
    <3> QED BY <1>0, <2>1, <2>3, <3>1, <3>2
            DEF TypeOK, RequestTyped, key, books
  <2> QED BY <1>3, <2>2, <2>3 DEF Create
<1>4. ASSUME NEW r \in Requests, CallFails(r) PROVE TypeOK'
  <2>1. RequestTyped'
    BY <1>4, AmountsAssumption
       DEF CallFails, Answer, TypeOK, RequestTyped, Places, Kinds, Chatting
  <2> QED BY <1>0, <1>4, <2>1, QuietIsTyped DEF CallFails
<1>5. ASSUME NEW r \in Requests, CallSucceeds(r) PROVE TypeOK'
  <2>1. CASE AfterReply(r)
    BY <2>1, <1>0, <1>5, AfterReplyIsTyped, QuietIsTyped DEF CallSucceeds
  <2>2. CASE \E c \in Charges : /\ pc' = [pc EXCEPT ![r] = "exists"]
                                /\ charge' = [charge EXCEPT ![r] = c]
                                /\ UNCHANGED <<kind, tier>>
    <3>1. RequestTyped'
      BY <2>2, AmountsAssumption DEF TypeOK, RequestTyped, Places, Deducting
    <3> QED BY <1>0, <1>5, <3>1, QuietIsTyped DEF CallSucceeds
  <2> QED BY <1>5, <2>1, <2>2 DEF CallSucceeds
<1>6. ASSUME NEW r \in Requests, Exists(r) PROVE TypeOK'
  <2>1. RequestTyped'
    BY <1>6, GotoIsTyped DEF Exists, Places, Deducting
  <2>2. fresh' \in [Requests -> BOOLEAN]
    BY <1>6, FreshIsTyped DEF Exists
  <2> QED BY <1>6, <2>1, <2>2, QuietIsTyped DEF Exists
<1>7. ASSUME NEW r \in Requests, CreateFirst(r) PROVE TypeOK'
  <2>1. RequestTyped'
    BY <1>7, GotoIsTyped DEF CreateFirst, Places, Deducting
  <2>2. CASE redisUp
    <3>1. value' \in Int /\ ttl' \in Nat \ {0} /\ BooksTyped'
      BY <1>7, <2>2, SetBudgetIsTyped DEF CreateFirst
    <3>2. fresh' \in [Requests -> BOOLEAN]
      BY <1>7, <2>2, FreshIsTyped DEF CreateFirst
    <3>3. UNCHANGED <<now, redisUp, faults, blind>>
      BY <1>7 DEF CreateFirst
    <3> QED BY <2>1, <3>1, <3>2, <3>3 DEF TypeOK, RequestTyped, BooksTyped
  <2>3. CASE ~redisUp
    <3>1. UNCHANGED <<key, now, redisUp, faults, books, fresh, blind>>
      BY <1>7, <2>3 DEF CreateFirst
    <3> QED BY <1>0, <2>1, <3>1, QuietIsTyped
  <2> QED BY <2>2, <2>3
<1>8. ASSUME NEW r \in Requests, Incr(r) PROVE TypeOK'
  <2>1. RequestTyped' /\ UNCHANGED <<now, redisUp, faults, resent, blind>>
    BY <1>8, AfterReplyIsTyped DEF Incr
  <2>2. CASE redisUp
    <3>1. Deduct(r) /\ spent' = IF raced' THEN 0 ELSE spent + charge[r]
      BY <1>8, <2>2 DEF Incr
    <3>2. /\ value' \in Int /\ ttl' = ttl /\ fresh' \in [Requests -> BOOLEAN]
          /\ charge[r] \in Nat /\ made' \in Nat /\ raced' \in BOOLEAN
      BY <3>1, DeductIsTyped
    <3>3. spent' \in Nat
      BY <3>1, <3>2 DEF TypeOK
    <3> QED BY <2>1, <3>2, <3>3 DEF TypeOK, RequestTyped
  <2>3. CASE ~redisUp
    <3>1. /\ raced' = TRUE /\ made' = 0 /\ spent' = 0 /\ UNCHANGED key
          /\ fresh' \in [Requests -> BOOLEAN]
      BY <1>8, <2>3, FreshIsTyped DEF Incr
    <3> QED BY <2>1, <3>1 DEF TypeOK, RequestTyped, key
  <2> QED BY <2>2, <2>3
<1>9. ASSUME NEW r \in Requests, ReplyEnds(r) PROVE TypeOK'
  <2>1. UNCHANGED <<key, now, redisUp, faults, books, fresh, blind>>
    BY <1>9 DEF ReplyEnds
  <2>2. RequestTyped'
    <3>1. CASE Answer(r)
      BY <3>1, AmountsAssumption DEF Answer, TypeOK, RequestTyped, Places, Kinds, Chatting
    <3> QED BY <1>9, <3>1, AfterReplyIsTyped, GotoIsTyped DEF ReplyEnds, Places
  <2> QED BY <1>0, <2>1, <2>2, QuietIsTyped
<1>10. ASSUME NEW r \in Requests, CreateAgain(r) PROVE TypeOK'
  <2>1. value' \in Int /\ ttl' \in Nat \ {0} /\ BooksTyped'
    BY <1>10, SetBudgetIsTyped DEF CreateAgain
  <2>2. fresh' \in [Requests -> BOOLEAN]
    BY <1>10, FreshIsTyped DEF CreateAgain
  <2>3. faults' = faults + 1 /\ UNCHANGED <<now, redisUp, request, blind>>
    BY <1>10 DEF CreateAgain
  <2> QED BY <1>0, <2>1, <2>2, <2>3 DEF TypeOK, BooksTyped, request
<1>11. ASSUME NEW r \in Requests, IncrAgain(r) PROVE TypeOK'
  <2>1. /\ value' \in Int /\ ttl' = ttl /\ fresh' \in [Requests -> BOOLEAN]
        /\ charge[r] \in Nat /\ made' \in Nat /\ raced' \in BOOLEAN
    BY <1>11, DeductIsTyped DEF IncrAgain
  <2>2. /\ faults' = faults + 1 /\ UNCHANGED <<now, redisUp, request, blind>>
        /\ resent' = resent + charge[r] /\ spent' = IF raced' THEN 0 ELSE spent
    BY <1>11 DEF IncrAgain
  <2>3. resent' \in Nat /\ spent' \in Nat
    BY <2>1, <2>2 DEF TypeOK
  <2> QED BY <1>0, <2>1, <2>2, <2>3 DEF TypeOK, request
<1>12. ASSUME Tick PROVE TypeOK'
  <2>1. now' \in Nat
    <3> DEFINE hours == Days * DayLength
    <3>1. hours \in Nat \ {0}
      BY TimesAssumption
    <3>2. now' = (now + 1) % hours
      BY <1>12 DEF Tick
    <3> HIDE DEF hours
    <3> QED BY <3>1, <3>2 DEF TypeOK
  <2>2. CASE ttl = NoTTL
    <3>1. ttl # 1
      BY <2>2, KeyAssumption
    <3> QED BY <3>1, <1>12, <2>1, <2>2 DEF Tick, TypeOK, key, books, request
  <2>3. CASE ttl = 1
    <3>1. ttl # NoTTL
      BY <2>3, KeyAssumption
    <3>2. Expire
      BY <1>12, <2>3, <3>1 DEF Tick
    <3> QED BY <1>12, <2>1, <3>2 DEF Tick, Expire, Moved, TypeOK, request
  <2>4. CASE ttl # NoTTL /\ ttl # 1
    <3>1. ttl - 1 \in Nat \ {0}
      BY <2>4 DEF TypeOK
    <3> QED BY <3>1, <1>12, <2>1, <2>4 DEF Tick, TypeOK, key, books, request
  <2> QED BY <2>2, <2>3, <2>4
<1>13. ASSUME RedisFlips PROVE TypeOK'
  <2>1. faults' \in Nat /\ redisUp' \in BOOLEAN
    BY <1>0, <1>13 DEF RedisFlips, TypeOK
  <2>2. fresh' \in [Requests -> BOOLEAN]
    BY <1>13 DEF RedisFlips, Moved
  <2> QED BY <1>13, <2>1, <2>2 DEF RedisFlips, TypeOK, key, books, request
<1>14. ASSUME UNCHANGED vars PROVE TypeOK'
  BY <1>14 DEF vars, TypeOK, key, books, request
<1> QED BY <1>1, <1>2, <1>3, <1>4, <1>5, <1>6, <1>7, <1>8, <1>9, <1>10, <1>11, <1>12,
           <1>13, <1>14 DEF Next

\* Every reachable state has its type.
THEOREM TypeCorrect == Spec => []TypeOK
BY InitTypeOK, NextTypeOK, PTL DEF Spec

\* Every decision on the budget of a reachable state is sound.
THEOREM RoutesSoundly == Spec => []RouteSound
<1>1. TypeOK => RouteSound
  <2> SUFFICES ASSUME TypeOK PROVE RouteSound
    OBVIOUS
  <2> DEFINE budget(t) == IF value = NoKey THEN LimitOf(t) ELSE value
  <2>1. \A t \in Tiers : budget(t) \in Int
    BY LimitIsNat DEF TypeOK
  <2> HIDE DEF budget
  <2>2. QED
    BY <2>1, DecisionSound, AvailableAreModels, SetsAssumption DEF RouteSound, budget
<1> QED BY <1>1, TypeCorrect, PTL

----------------------------------------------------------------------------
(* The budget is overspent by no more than what was pending.               *)

LEMMA SettledIsFinite ==
    ASSUME NEW S, S \subseteq Requests \X (1 .. 2)
    PROVE  IsFiniteSet(S) /\ Cardinality(S) \in Nat
<1>1. IsFiniteSet(1 .. 2)
  <2>1. 1 \in Int /\ 2 \in Int
    OBVIOUS
  <2> QED BY <2>1, FS_Interval
<1>2. IsFiniteSet(Requests \X (1 .. 2))
  BY <1>1, SetsAssumption, FS_Product
<1> QED BY <1>2, FS_Subset, FS_CardinalityType

LEMMA PendingIsFew ==
    ASSUME NEW r \in Requests
    PROVE  Pending(r) \in 0 .. 2
BY DEF Pending

\* A request that has no more pending than before takes nothing from Settled.
LEMMA SettledGrows ==
    ASSUME NEW r \in Requests, TypeOK,
           \A q \in Requests \ {r} : pc'[q] = pc[q] /\ kind'[q] = kind[q],
           Pending(r)' <= Pending(r)
    PROVE  Settled \subseteq Settled' /\ Settled' \subseteq Requests \X (1 .. 2)
<1>1. \A q \in Requests \ {r} : Pending(q)' = Pending(q)
  BY DEF Pending
<1>2. Pending(r) \in 0 .. 2 /\ Pending(r)' \in 0 .. 2
  BY PendingIsFew DEF Pending
<1>3. ASSUME NEW x \in Settled PROVE x \in Settled'
  <2>1. x \in Requests \X (1 .. 2) /\ x[2] > Pending(x[1])
    BY DEF Settled
  <2>2. x[2] > Pending(x[1])'
    <3>1. CASE x[1] = r
      BY <1>2, <2>1, <3>1
    <3>2. CASE x[1] # r
      BY <1>1, <2>1, <3>2
    <3> QED BY <3>1, <3>2
  <2> QED BY <2>1, <2>2 DEF Settled
<1> QED BY <1>3 DEF Settled

LEMMA TimesMonotone ==
    ASSUME NEW a \in Nat, NEW x \in Int, NEW y \in Int, x <= y
    PROVE  a * x \in Int /\ a * y \in Int /\ a * x <= a * y
OBVIOUS

LEMMA HigherIsBounded ==
    /\ \A x, y \in Int, a \in Nat : x + y >= 0 => x + y >= - a
    /\ \A x, y, a, b \in Int : a <= b /\ x + y >= - a => x + y >= - b
OBVIOUS

\* A value at or above 0 is above the bound.
LEMMA PositiveIsBounded ==
    ASSUME TypeOK', value' # NoKey => value' + resent' >= 0
    PROVE  OverspendBounded'
<1>1. Settled' \subseteq Requests \X (1 .. 2)
  BY DEF Settled
<1>2. Cardinality(Settled') \in Nat
  BY <1>1, SettledIsFinite
<1> DEFINE n == Cardinality(Settled') + 2 * blind'
<1>3. n \in Nat
  BY <1>2 DEF TypeOK
<1>4. value' \in Int \cup {NoKey} /\ resent' \in Nat
  BY DEF TypeOK
<1>5. MaxCharge * n \in Nat
  <2> HIDE DEF n
  <2> QED BY <1>3, AmountsAssumption
<1>6. OverspendBounded' <=> (value' # NoKey => value' + resent' >= - (MaxCharge * n))
  BY DEF OverspendBounded
<1> DEFINE a == MaxCharge * n
<1> HIDE DEF n
<1>7. a \in Nat /\ (OverspendBounded' <=> (value' # NoKey => value' + resent' >= - a))
  BY <1>5, <1>6
<1> HIDE DEF a
<1>8. ASSUME value' # NoKey PROVE value' + resent' >= - a
  <2>1. value' \in Int /\ resent' \in Int
    BY <1>4, <1>8, NoKeyIsNone
  <2>2. value' + resent' >= 0
    BY <1>8, Zenon
  <2> QED BY <1>7, <2>1, <2>2, HigherIsBounded
<1> QED BY <1>7, <1>8

\* With the value as it was, but for what was deducted again, Settled must not shrink.
LEMMA BoundIsKept ==
    ASSUME TypeOK, TypeOK', OverspendBounded,
           value' # NoKey => value # NoKey /\ value' + resent' = value + resent,
           blind' >= blind,
           Cardinality(Settled') + 2 * blind' >= Cardinality(Settled) + 2 * blind
    PROVE  OverspendBounded'
<1>1. Settled \subseteq Requests \X (1 .. 2) /\ Settled' \subseteq Requests \X (1 .. 2)
  BY DEF Settled
<1>2. Cardinality(Settled) \in Nat /\ Cardinality(Settled') \in Nat
  BY <1>1, SettledIsFinite
<1> DEFINE m == Cardinality(Settled) + 2 * blind
           n == Cardinality(Settled') + 2 * blind'
<1>3. m \in Nat /\ n \in Nat /\ m <= n
  BY <1>2 DEF TypeOK
<1>4. /\ OverspendBounded <=> (value # NoKey => value + resent >= - (MaxCharge * m))
      /\ OverspendBounded' <=> (value' # NoKey => value' + resent' >= - (MaxCharge * n))
  BY DEF OverspendBounded
<1>5. /\ value \in Int \cup {NoKey} /\ resent \in Nat
      /\ value' \in Int \cup {NoKey} /\ resent' \in Nat
  BY DEF TypeOK
<1> HIDE DEF m, n
<1> DEFINE a == MaxCharge * m
           b == MaxCharge * n
<1>6. a \in Int /\ b \in Int /\ a <= b
  BY <1>3, AmountsAssumption, TimesMonotone
<1>7. /\ value # NoKey => value + resent >= - a
      /\ OverspendBounded' <=> (value' # NoKey => value' + resent' >= - b)
  BY <1>4
<1> HIDE DEF a, b
<1>8. ASSUME value' # NoKey PROVE value' + resent' >= - b
  <2>1. value # NoKey /\ value' + resent' = value + resent
    BY <1>8, Zenon
  <2>2. value \in Int /\ resent \in Int /\ value' \in Int /\ resent' \in Int
    BY <1>5, <1>8, <2>1, NoKeyIsNone
  <2>3. value' + resent' >= - a
    BY <1>7, <2>1
  <2> QED BY <1>6, <2>2, <2>3, HigherIsBounded
<1> QED BY <1>7, <1>8

\* A step of r that leaves the value alone and gives r nothing to deduct.
LEMMA QuietStep ==
    ASSUME TypeOK, TypeOK', OverspendBounded, NEW r \in Requests,
           UNCHANGED <<value, resent, blind>>,
           \A q \in Requests \ {r} : pc'[q] = pc[q] /\ kind'[q] = kind[q],
           Pending(r)' <= Pending(r)
    PROVE  OverspendBounded'
<1>1. Settled \subseteq Settled' /\ Settled' \subseteq Requests \X (1 .. 2)
  BY SettledGrows
<1>2. IsFiniteSet(Settled') /\ Cardinality(Settled') \in Nat
  BY <1>1, SettledIsFinite
<1>3. Cardinality(Settled) <= Cardinality(Settled') /\ Cardinality(Settled) \in Nat
  BY <1>1, <1>2, FS_Subset, FS_CardinalityType
<1> QED BY <1>2, <1>3, BoundIsKept DEF TypeOK

\* What a decision does: with a budget below 0 no request is admitted.
LEMMA Decides ==
    ASSUME TypeOK, NEW r \in Requests, NEW budget \in Int, Decide(r, budget)
    PROVE  /\ \A q \in Requests \ {r} : pc'[q] = pc[q] /\ kind'[q] = kind[q]
           /\ Pending(r)' = 0 \/ budget >= 0
<1>1. PICK q \in Questions :
          LET order == RoutingOrder(Decision(Score(q), AvailableModels(Configured),
                                             budget, Tokens))
          IN  IF order = <<>> THEN Answer(r) ELSE Goto(r, Onward(r))
  BY DEF Decide
<1> DEFINE decision == Decision(Score(q), AvailableModels(Configured), budget, Tokens)
           affordable == Affordable(AvailableModels(Configured), budget, Tokens)
<1>2. Answer(r) \/ (Goto(r, Onward(r)) /\ RoutingOrder(decision) # <<>>)
  BY <1>1
<1>3. CASE Answer(r)
  <2>1. pc'[r] = "idle"
    BY <1>3 DEF Answer, TypeOK
  <2>2. Pending(r)' = 0
    BY <2>1 DEF Pending, Deducting
  <2> QED BY <1>3, <2>2 DEF Answer, TypeOK
<1>4. CASE Goto(r, Onward(r)) /\ RoutingOrder(decision) # <<>>
  <2>1. ~decision.rejected
    BY <1>4 DEF RoutingOrder
  <2>2. decision.rejected <=> affordable = {}
    BY AvailableAreModels, SetsAssumption, DecisionSound
  <2>3. PICK m \in AvailableModels(Configured) : EstimateCost(m, Tokens) <= budget
    BY <2>1, <2>2 DEF Affordable
  <2>4. EstimateCost(m, Tokens) \in Nat
    BY AvailableAreModels, CostIsNat, SetsAssumption
  <2>5. budget >= 0
    BY <2>3, <2>4
  <2> QED BY <1>4, <2>5 DEF Goto, TypeOK
<1> QED BY <1>2, <1>3, <1>4

LEMMA AfterReplyMoves ==
    ASSUME TypeOK, NEW r \in Requests, AfterReply(r)
    PROVE  /\ \A q \in Requests \ {r} : pc'[q] = pc[q] /\ kind'[q] = kind[q]
           /\ Pending(r)' = IF kind[r] \in Chatting THEN 1 ELSE 0
BY DEF AfterReply, Extract, Answer, TypeOK, Pending, Chatting, Deducting

LEMMA AnswerMoves ==
    ASSUME TypeOK, NEW r \in Requests, Answer(r)
    PROVE  /\ \A q \in Requests \ {r} : pc'[q] = pc[q] /\ kind'[q] = kind[q]
           /\ Pending(r)' = 0
BY DEF Answer, TypeOK, Pending, Deducting

\* An increment takes one deduction from what r had pending.
LEMMA IncrIsBounded ==
    ASSUME TypeOK, TypeOK', OverspendBounded, NEW r \in Requests, Incr(r), redisUp
    PROVE  OverspendBounded'
<1>1. /\ pc[r] = "incr" /\ blind' = blind /\ resent' = resent
      /\ value' = (IF value = NoKey THEN 0 ELSE value) - charge[r]
  BY DEF Incr, Deduct
<1>2. /\ \A q \in Requests \ {r} : pc'[q] = pc[q] /\ kind'[q] = kind[q]
      /\ Pending(r)' = IF kind[r] \in Chatting THEN 1 ELSE 0
  BY AfterReplyMoves DEF Incr
<1>3. Pending(r) = Pending(r)' + 1 /\ Pending(r)' \in 0 .. 1
  BY <1>1, <1>2 DEF Pending, Deducting
<1>4. Settled \subseteq Settled' /\ Settled' \subseteq Requests \X (1 .. 2)
  BY <1>2, <1>3, SettledGrows
<1> DEFINE x == <<r, Pending(r)>>
<1>5. x \in Settled' /\ x \notin Settled
  BY <1>3 DEF Settled
<1>6. IsFiniteSet(Settled) /\ IsFiniteSet(Settled')
  BY <1>4, SettledIsFinite DEF Settled
<1>7. Cardinality(Settled \cup {x}) = Cardinality(Settled) + 1
  BY <1>5, <1>6, FS_AddElement
<1>8. /\ Cardinality(Settled) + 1 <= Cardinality(Settled')
      /\ Cardinality(Settled) \in Nat /\ Cardinality(Settled') \in Nat
  <2>1. Settled \cup {x} \subseteq Settled'
    BY <1>4, <1>5
  <2> QED BY <1>6, <1>7, <2>1, FS_Subset, FS_CardinalityType
<1> DEFINE m == Cardinality(Settled) + 2 * blind
           n == Cardinality(Settled') + 2 * blind'
<1>9. m \in Nat /\ n \in Nat /\ m + 1 <= n
  BY <1>1, <1>8 DEF TypeOK
<1>10. /\ OverspendBounded <=> (value # NoKey => value + resent >= - (MaxCharge * m))
       /\ OverspendBounded' <=> (value' # NoKey => value' + resent' >= - (MaxCharge * n))
  BY DEF OverspendBounded
<1>11. charge[r] \in 0 .. MaxCharge /\ value \in Int \cup {NoKey} /\ resent \in Nat
  BY DEF TypeOK
<1> HIDE DEF m, n
<1>12. /\ MaxCharge * (m + 1) = MaxCharge * m + MaxCharge
       /\ MaxCharge * (m + 1) <= MaxCharge * n
       /\ MaxCharge * m \in Nat /\ MaxCharge * n \in Int
  <2>1. MaxCharge * (m + 1) \in Int /\ MaxCharge * n \in Int
        /\ MaxCharge * (m + 1) <= MaxCharge * n
    BY <1>9, AmountsAssumption, TimesMonotone
  <2> QED BY <1>9, <2>1, AmountsAssumption
<1> DEFINE a == MaxCharge * m
           b == MaxCharge * n
<1>13. a \in Nat /\ b \in Int /\ a + MaxCharge <= b
  BY <1>12
<1>14. /\ OverspendBounded => (value # NoKey => value + resent >= - a)
       /\ value' + resent' >= - b => OverspendBounded'
  BY <1>10
<1> HIDE DEF a, b
<1> QED BY <1>1, <1>11, <1>13, <1>14, AmountsAssumption

\* What is deducted again pays for itself.
LEMMA AgainIsBounded ==
    ASSUME TypeOK, TypeOK', OverspendBounded, NEW r \in Requests, IncrAgain(r)
    PROVE  OverspendBounded'
<1>1. /\ value' = (IF value = NoKey THEN 0 ELSE value) - charge[r]
      /\ resent' = resent + charge[r] /\ blind' = blind /\ UNCHANGED <<pc, kind>>
  BY DEF IncrAgain, Deduct, request
<1>2. /\ charge[r] \in Nat /\ value \in Int \cup {NoKey} /\ resent \in Nat
      /\ blind \in Nat
  BY AmountsAssumption DEF TypeOK
<1>3. CASE value = NoKey
  <2>1. value' + resent' = resent
    BY <1>1, <1>2, <1>3
  <2> QED BY <1>2, <2>1, PositiveIsBounded
<1>4. CASE value # NoKey
  <2>1. value' + resent' = value + resent
    BY <1>1, <1>2, <1>4
  <2>2. Settled' = Settled
    BY <1>1 DEF Settled, Pending
  <2>3. Settled \subseteq Requests \X (1 .. 2)
    BY DEF Settled
  <2>4. Cardinality(Settled) \in Nat
    BY <2>3, SettledIsFinite
  <2>5. Cardinality(Settled') + 2 * blind' >= Cardinality(Settled) + 2 * blind
    BY <1>1, <1>2, <2>2, <2>4
  <2>6. blind' >= blind
    BY <1>1, <1>2
  <2> QED BY <1>4, <2>1, <2>5, <2>6, BoundIsKept
<1> QED BY <1>3, <1>4

LEMMA OneMore ==
    ASSUME NEW S, IsFiniteSet(S), NEW x
    PROVE  Cardinality(S \cup {x}) <= Cardinality(S) + 1
<1>1. Cardinality(S) \in Nat
  BY FS_CardinalityType
<1>2. CASE x \in S
  <2>1. S \cup {x} = S
    BY <1>2
  <2> QED BY <1>1, <2>1
<1>3. CASE x \notin S
  <2>1. Cardinality(S \cup {x}) = Cardinality(S) + 1
    BY <1>3, FS_AddElement
  <2> QED BY <1>1, <2>1
<1> QED BY <1>2, <1>3

\* Without Redis a request is admitted that may deduct twice.
LEMMA BlindIsBounded ==
    ASSUME TypeOK, TypeOK', OverspendBounded, NEW r \in Requests,
           \A q \in Requests \ {r} : pc'[q] = pc[q] /\ kind'[q] = kind[q],
           blind' = blind + 1, UNCHANGED <<value, resent>>
    PROVE  OverspendBounded'
<1> DEFINE x == <<r, 1>>
           y == <<r, 2>>
<1>1. \A q \in Requests \ {r} : Pending(q)' = Pending(q)
  BY DEF Pending
<1>2. Settled \subseteq (Settled' \cup {x}) \cup {y}
  <2> SUFFICES ASSUME NEW z \in Settled PROVE z \in (Settled' \cup {x}) \cup {y}
    OBVIOUS
  <2>1. z \in Requests \X (1 .. 2) /\ z[2] > Pending(z[1])
    BY DEF Settled
  <2>2. CASE z[1] = r
    <3>1. z[2] = 1 \/ z[2] = 2
      BY <2>1
    <3> QED BY <2>1, <2>2, <3>1
  <2>3. CASE z[1] # r
    BY <1>1, <2>1, <2>3 DEF Settled
  <2> QED BY <2>2, <2>3
<1>3. /\ Settled \subseteq Requests \X (1 .. 2) /\ Settled' \subseteq Requests \X (1 .. 2)
      /\ (Settled' \cup {x}) \cup {y} \subseteq Requests \X (1 .. 2)
  BY DEF Settled
<1>4. /\ IsFiniteSet(Settled) /\ IsFiniteSet(Settled') /\ IsFiniteSet(Settled' \cup {x})
      /\ IsFiniteSet((Settled' \cup {x}) \cup {y})
  BY <1>3, SettledIsFinite
<1>5. Cardinality(Settled' \cup {x}) <= Cardinality(Settled') + 1
  BY <1>4, OneMore
<1>6. Cardinality((Settled' \cup {x}) \cup {y}) <= Cardinality(Settled' \cup {x}) + 1
  BY <1>4, OneMore
<1>7. Cardinality(Settled) <= Cardinality((Settled' \cup {x}) \cup {y})
  BY <1>2, <1>4, FS_Subset
<1>8. /\ Cardinality(Settled) \in Nat /\ Cardinality(Settled') \in Nat
      /\ Cardinality(Settled' \cup {x}) \in Nat
      /\ Cardinality((Settled' \cup {x}) \cup {y}) \in Nat
  BY <1>4, FS_CardinalityType
<1>9. Cardinality(Settled') + 2 * blind' >= Cardinality(Settled) + 2 * blind
  BY <1>5, <1>6, <1>7, <1>8 DEF TypeOK
<1> QED BY <1>9, BoundIsKept DEF TypeOK

LEMMA SetIsBounded ==
    ASSUME TypeOK', NEW r \in Requests, SetBudget(r)
    PROVE  OverspendBounded'
<1>1. value' = Limit(r) /\ Limit(r) \in Nat
  BY LimitIsNat DEF SetBudget, Limit
<1>2. value' + resent' >= 0
  BY <1>1 DEF TypeOK
<1> QED BY <1>2, PositiveIsBounded

\* One step per action.
LEMMA NextOverspend == TypeOK /\ OverspendBounded /\ [Next]_vars => OverspendBounded'
<1> SUFFICES ASSUME TypeOK, OverspendBounded, [Next]_vars PROVE OverspendBounded'
  OBVIOUS
<1>0. TypeOK'
  BY NextTypeOK
<1>1. ASSUME NEW r \in Requests, Start(r) PROVE OverspendBounded'
  <2>1. pc'[r] \in {"admit", "route"}
    BY <1>1 DEF Start, TypeOK
  <2>2. Pending(r)' = 0 /\ Pending(r) \in 0 .. 2
    BY <2>1, PendingIsFew DEF Pending, Deducting
  <2> QED BY <1>0, <1>1, <2>2, QuietStep DEF Start, TypeOK, key, books
<1>2. ASSUME NEW r \in Requests, Look(r) PROVE OverspendBounded'
  <2>1. Pending(r) \in 0 .. 2 /\ UNCHANGED <<value, resent, blind>>
    BY <1>2, PendingIsFew DEF Look, key, books
  <2>2. CASE redisUp /\ value # NoKey
    <3>1. value \in Int /\ Decide(r, value)
      BY <1>2, <2>2 DEF Look, TypeOK
    <3>2. CASE value >= 0
      <4>1. value' + resent' >= 0
        BY <2>1, <3>1, <3>2 DEF TypeOK
      <4> QED BY <1>0, <4>1, PositiveIsBounded
    <3>3. CASE Pending(r)' = 0
      BY <1>0, <2>1, <3>1, <3>3, Decides, QuietStep
    <3> QED BY <3>1, <3>2, <3>3, Decides
  <2>3. CASE ~(redisUp /\ value # NoKey)
    <3>1. pc'[r] \in {"admitNew", "routeNew"}
          /\ \A q \in Requests \ {r} : pc'[q] = pc[q] /\ kind'[q] = kind[q]
      BY <1>2, <2>3 DEF Look, Goto, TypeOK
    <3>2. Pending(r)' = 0
      BY <3>1 DEF Pending, Deducting
    <3> QED BY <1>0, <2>1, <3>1, <3>2, QuietStep
  <2> QED BY <2>2, <2>3
<1>3. ASSUME NEW r \in Requests, Create(r) PROVE OverspendBounded'
  <2>1. CASE SetBudget(r)
    BY <1>0, <2>1, SetIsBounded
  <2>2. CASE blind' = blind + 1 /\ UNCHANGED <<key, books>>
    <3>1. Decide(r, Limit(r))
      BY <1>3 DEF Create
    <3>2. Limit(r) \in Int
      BY LimitIsNat DEF Limit
    <3> QED BY <1>0, <2>2, <3>1, <3>2, Decides, BlindIsBounded DEF key, books
  <2> QED BY <1>3, <2>1, <2>2 DEF Create
<1>4. ASSUME NEW r \in Requests, CallFails(r) PROVE OverspendBounded'
  <2>1. Pending(r) \in 0 .. 2
    BY PendingIsFew
  <2> QED BY <1>0, <1>4, <2>1, AnswerMoves, QuietStep DEF CallFails, key, books
<1>5. ASSUME NEW r \in Requests, CallSucceeds(r) PROVE OverspendBounded'
  <2>1. pc[r] = "call" /\ UNCHANGED <<value, resent, blind>>
    BY <1>5 DEF CallSucceeds, key, books
  <2>2. Pending(r) = IF kind[r] \in Chatting THEN 2 ELSE 1
    BY <2>1 DEF Pending
  <2>3. CASE AfterReply(r)
    BY <1>0, <2>1, <2>2, <2>3, AfterReplyMoves, QuietStep
  <2>4. CASE pc' = [pc EXCEPT ![r] = "exists"] /\ UNCHANGED <<kind, tier>>
    <3>1. /\ pc'[r] = "exists" /\ kind'[r] = kind[r]
          /\ \A q \in Requests \ {r} : pc'[q] = pc[q] /\ kind'[q] = kind[q]
      BY <2>4 DEF TypeOK
    <3>2. Pending(r)' = Pending(r)
      BY <2>2, <3>1 DEF Pending, Deducting
    <3> QED BY <1>0, <2>1, <2>2, <3>1, <3>2, QuietStep
  <2> QED BY <1>5, <2>3, <2>4 DEF CallSucceeds
<1>6. ASSUME NEW r \in Requests, Exists(r) PROVE OverspendBounded'
  <2>1. /\ pc[r] = "exists" /\ pc'[r] \in {"incr", "create"} /\ kind'[r] = kind[r]
        /\ \A q \in Requests \ {r} : pc'[q] = pc[q] /\ kind'[q] = kind[q]
    BY <1>6 DEF Exists, Goto, TypeOK
  <2>2. Pending(r)' = Pending(r) /\ Pending(r) \in 0 .. 2
    BY <2>1, PendingIsFew DEF Pending, Deducting
  <2> QED BY <1>0, <1>6, <2>1, <2>2, QuietStep DEF Exists, key, books
<1>7. ASSUME NEW r \in Requests, CreateFirst(r) PROVE OverspendBounded'
  <2>1. CASE redisUp
    BY <1>0, <1>7, <2>1, SetIsBounded DEF CreateFirst
  <2>2. CASE ~redisUp
    <3>1. /\ pc[r] = "create" /\ pc'[r] = "incr" /\ kind'[r] = kind[r]
          /\ \A q \in Requests \ {r} : pc'[q] = pc[q] /\ kind'[q] = kind[q]
      BY <1>7 DEF CreateFirst, Goto, TypeOK
    <3>2. Pending(r)' = Pending(r) /\ Pending(r) \in 0 .. 2
      BY <3>1, PendingIsFew DEF Pending, Deducting
    <3> QED BY <1>0, <1>7, <2>2, <3>1, <3>2, QuietStep DEF CreateFirst, key, books
  <2> QED BY <2>1, <2>2
<1>8. ASSUME NEW r \in Requests, Incr(r) PROVE OverspendBounded'
  <2>1. CASE redisUp
    BY <1>0, <1>8, <2>1, IncrIsBounded
  <2>2. CASE ~redisUp
    <3>1. pc[r] = "incr" /\ AfterReply(r) /\ UNCHANGED <<value, resent, blind>>
      BY <1>8, <2>2 DEF Incr, key
    <3>2. Pending(r) = IF kind[r] \in Chatting THEN 2 ELSE 1
      BY <3>1 DEF Pending, Deducting
    <3> QED BY <1>0, <3>1, <3>2, AfterReplyMoves, QuietStep
  <2> QED BY <2>1, <2>2
<1>9. ASSUME NEW r \in Requests, ReplyEnds(r) PROVE OverspendBounded'
  <2>1. pc[r] \in {"stream", "direct"} /\ UNCHANGED <<value, resent, blind>>
    BY <1>9 DEF ReplyEnds, key, books
  <2>2. Pending(r) = 1
    BY <2>1 DEF Pending, Deducting
  <2>3. CASE AfterReply(r)
    BY <1>0, <2>1, <2>2, <2>3, AfterReplyMoves, QuietStep
  <2>4. CASE Answer(r)
    BY <1>0, <2>1, <2>2, <2>4, AnswerMoves, QuietStep
  <2>5. CASE Goto(r, "route")
    <3>1. /\ pc'[r] = "route"
          /\ \A q \in Requests \ {r} : pc'[q] = pc[q] /\ kind'[q] = kind[q]
      BY <2>5 DEF Goto, TypeOK
    <3>2. Pending(r)' = 0
      BY <3>1 DEF Pending, Deducting
    <3> QED BY <1>0, <2>1, <2>2, <3>1, <3>2, QuietStep
  <2> QED BY <1>9, <2>3, <2>4, <2>5 DEF ReplyEnds
<1>10. ASSUME NEW r \in Requests, CreateAgain(r) PROVE OverspendBounded'
  BY <1>0, <1>10, SetIsBounded DEF CreateAgain
<1>11. ASSUME NEW r \in Requests, IncrAgain(r) PROVE OverspendBounded'
  BY <1>0, <1>11, AgainIsBounded
<1>12. ASSUME Tick PROVE OverspendBounded'
  <2>1. CASE value' = NoKey
    BY <1>0, <2>1, PositiveIsBounded
  <2>2. CASE UNCHANGED <<value, resent, blind, pc, kind>>
    <3>1. Settled' = Settled
      BY <2>2 DEF Settled, Pending
    <3> QED BY <2>2, <3>1 DEF OverspendBounded
  <2>3. value' = NoKey \/ UNCHANGED <<value, resent, blind, pc, kind>>
    <3>1. CASE ttl = 1
      <4>1. ttl # NoTTL
        BY <3>1, KeyAssumption
      <4> QED BY <1>12, <3>1, <4>1 DEF Tick, Expire
    <3>2. CASE ttl # 1
      BY <1>12, <3>2 DEF Tick, key, request, books
    <3> QED BY <3>1, <3>2
  <2> QED BY <2>1, <2>2, <2>3
<1>13. CASE RedisFlips \/ UNCHANGED vars
  <2>1. UNCHANGED <<value, resent, blind, pc, kind>>
    BY <1>13 DEF RedisFlips, vars, key, request, books
  <2>2. Settled' = Settled
    BY <2>1 DEF Settled, Pending
  <2> QED BY <2>1, <2>2 DEF OverspendBounded
<1> QED BY <1>1, <1>2, <1>3, <1>4, <1>5, <1>6, <1>7, <1>8, <1>9, <1>10, <1>11, <1>12,
           <1>13 DEF Next

\* However many requests overlap, and with a fact extraction behind each chat, the
\* budget falls below 0 by no more than the charges that were pending and those that
\* lost replies had the client make again.
THEOREM OverspendIsBounded == Spec => []OverspendBounded
<1>1. Init => OverspendBounded
  BY DEF Init, OverspendBounded
<1> QED BY <1>1, TypeCorrect, NextOverspend, PTL DEF Spec

----------------------------------------------------------------------------
(* The books balance.                                                       *)

\* A request that is fresh knows whether the key is there.
FreshKnows ==
    redisUp =>
        \A r \in Requests : fresh[r] =>
            /\ pc[r] \in {"admitNew", "routeNew", "create"} => value = NoKey
            /\ pc[r] = "incr" => value # NoKey

BooksInv == TypeOK /\ BooksBalance /\ FreshKnows

LEMMA DecideLeaves ==
    ASSUME TypeOK, NEW r \in Requests, NEW budget, Decide(r, budget)
    PROVE  /\ pc'[r] \notin {"admitNew", "routeNew", "create", "incr"}
           /\ \A q \in Requests \ {r} : pc'[q] = pc[q]
<1>1. Goto(r, Onward(r)) \/ Answer(r)
  BY DEF Decide
<1>2. Onward(r) \notin {"admitNew", "routeNew", "create", "incr"}
  BY DEF Onward
<1>3. CASE Goto(r, Onward(r))
  BY <1>2, <1>3 DEF Goto, TypeOK
<1>4. CASE Answer(r)
  BY <1>4 DEF Answer, TypeOK
<1> QED BY <1>1, <1>3, <1>4

\* A step of r that leaves the key alone.
LEMMA QuietBooks ==
    ASSUME BooksInv, NEW r \in Requests, UNCHANGED <<value, redisUp, books>>,
           \A q \in Requests \ {r} : pc'[q] = pc[q] /\ fresh'[q] = fresh[q],
           pc'[r] \notin {"admitNew", "routeNew", "create", "incr"}
    PROVE  BooksBalance' /\ FreshKnows'
<1>1. BooksBalance'
  BY DEF BooksInv, BooksBalance, books
<1>2. FreshKnows'
  BY DEF BooksInv, FreshKnows
<1> QED BY <1>1, <1>2

\* A write of the key leaves those ignorant who looked before.
LEMMA WriteIsKnown ==
    ASSUME BooksInv, NEW r \in Requests, redisUp, value' # NoKey,
           NEW others, Moved(others), Ignorant \ {r} \subseteq others,
           \A q \in Requests \ {r} : pc'[q] = pc[q],
           fresh'[r] => pc'[r] \notin {"admitNew", "routeNew", "create"}
    PROVE  FreshKnows'
<1> SUFFICES ASSUME NEW q \in Requests, fresh'[q]
             PROVE  pc'[q] \notin {"admitNew", "routeNew", "create"}
  BY DEF FreshKnows
<1>1. CASE q = r
  BY <1>1
<1>2. CASE q # r
  <2>1. q \notin Ignorant /\ pc'[q] = pc[q]
    BY <1>2 DEF Moved
  <2>2. CASE value = NoKey
    BY <2>1, <2>2 DEF Ignorant, Stale
  <2>3. CASE value # NoKey
    <3>1. fresh[q]
      BY <2>1, <2>3 DEF Ignorant
    <3> QED BY <2>1, <2>3, <3>1 DEF BooksInv, FreshKnows
  <2> QED BY <2>2, <2>3
<1> QED BY <1>1, <1>2

\* SETEX by a request that finds the key missing, or that another overtook.
LEMMA SetBudgetBalances ==
    ASSUME BooksInv, NEW r \in Requests, redisUp, SetBudget(r),
           pc[r] \in {"admitNew", "routeNew", "create"}
    PROVE  BooksBalance' /\ value' # NoKey
<1>1. value' = Limit(r) /\ Limit(r) \in Nat
  BY LimitIsNat DEF SetBudget, Limit
<1>2. value' # NoKey
  BY <1>1, KeyAssumption
<1>3. spent \in Nat /\ resent \in Nat
  BY DEF BooksInv, TypeOK
<1>4. ASSUME ~raced' PROVE made' = Limit(r) /\ spent' = 0 /\ resent' = 0
  <2>1. made' = Limit(r)
    BY <1>4 DEF SetBudget
  <2>2. CASE value = NoKey
    BY <2>1, <2>2 DEF SetBudget
  <2>3. CASE value # NoKey
    <3>1. ~fresh[r]
      BY <2>3 DEF BooksInv, FreshKnows
    <3>2. ~(spent + resent > 0) /\ spent' = spent /\ resent' = resent
      BY <1>4, <2>3, <3>1 DEF SetBudget
    <3> QED BY <1>3, <2>1, <3>2
  <2> QED BY <2>2, <2>3
<1>5. BooksBalance'
  BY <1>1, <1>4 DEF BooksBalance
<1> QED BY <1>2, <1>5

\* INCRBYFLOAT: what it leaves of the books, unless it met the key missing.
LEMMA DeductBalances ==
    ASSUME BooksInv, NEW r \in Requests, redisUp, pc[r] = "incr", Deduct(r)
    PROVE  /\ value' # NoKey /\ charge[r] \in Nat
           /\ ~raced' => value' = (made' - (spent + resent)) - charge[r]
<1>1. charge[r] \in Nat /\ value \in Int \cup {NoKey} /\ spent \in Nat
      /\ resent \in Nat /\ made \in Nat
  BY AmountsAssumption DEF BooksInv, TypeOK
<1>2. value' \in Int
  BY <1>1 DEF Deduct
<1>3. value' # NoKey
  BY <1>2, KeyAssumption
<1>4. ASSUME ~raced' PROVE value' = (made' - (spent + resent)) - charge[r]
  <2>1. value # NoKey
    <3>1. value = NoKey => ~fresh[r]
      BY DEF BooksInv, FreshKnows
    <3> QED BY <1>4, <3>1 DEF Deduct
  <2>2. ~raced /\ made' = made /\ value' = value - charge[r]
    BY <1>4, <2>1 DEF Deduct
  <2>3. value = made - (spent + resent)
    BY <2>1, <2>2 DEF BooksInv, BooksBalance
  <2> QED BY <1>1, <2>2, <2>3
<1> QED BY <1>1, <1>3, <1>4

LEMMA IncrBalances ==
    ASSUME BooksInv, NEW r \in Requests, Incr(r)
    PROVE  BooksBalance' /\ FreshKnows'
<1>1. pc[r] = "incr" /\ redisUp' = redisUp /\ resent' = resent
  BY DEF Incr
<1>2. /\ \A q \in Requests \ {r} : pc'[q] = pc[q]
      /\ pc'[r] \notin {"admitNew", "routeNew", "create", "incr"}
  BY DEF Incr, AfterReply, Extract, Answer, BooksInv, TypeOK
<1>3. CASE ~redisUp
  BY <1>1, <1>3 DEF Incr, BooksBalance, FreshKnows
<1>4. CASE redisUp
  <2>1. Deduct(r) /\ spent' = IF raced' THEN 0 ELSE spent + charge[r]
    BY <1>4 DEF Incr
  <2>2. /\ value' # NoKey /\ charge[r] \in Nat
        /\ ~raced' => value' = (made' - (spent + resent)) - charge[r]
    BY <1>1, <1>4, <2>1, DeductBalances
  <2>3. spent \in Nat /\ resent \in Nat /\ (~raced' => made' \in Nat)
    BY <2>1 DEF Deduct, BooksInv, TypeOK
  <2>4. BooksBalance'
    BY <1>1, <2>1, <2>2, <2>3 DEF BooksBalance
  <2>5. FreshKnows'
    BY <1>2, <1>4, <2>1, <2>2, WriteIsKnown DEF Deduct
  <2> QED BY <2>4, <2>5
<1> QED BY <1>3, <1>4

LEMMA IncrAgainBalances ==
    ASSUME BooksInv, NEW r \in Requests, IncrAgain(r)
    PROVE  BooksBalance' /\ FreshKnows'
<1>1. /\ pc[r] = "incr" /\ redisUp /\ Deduct(r) /\ pc' = pc
      /\ resent' = resent + charge[r] /\ spent' = IF raced' THEN 0 ELSE spent
  BY DEF IncrAgain, request
<1>2. /\ value' # NoKey /\ charge[r] \in Nat
      /\ ~raced' => value' = (made' - (spent + resent)) - charge[r]
  BY <1>1, DeductBalances
<1>3. spent \in Nat /\ resent \in Nat /\ (~raced' => made' \in Nat)
  BY <1>1 DEF Deduct, BooksInv, TypeOK
<1>4. BooksBalance'
  BY <1>1, <1>2, <1>3 DEF BooksBalance
<1>5. FreshKnows'
  BY <1>1, <1>2, WriteIsKnown DEF Deduct
<1> QED BY <1>4, <1>5

\* One step per action.
LEMMA NextBooks == BooksInv /\ [Next]_vars => BooksInv'
<1> SUFFICES ASSUME BooksInv, [Next]_vars PROVE BooksBalance' /\ FreshKnows'
  BY NextTypeOK DEF BooksInv
<1> USE DEF key, books
<1>1. ASSUME NEW r \in Requests, Start(r) PROVE BooksBalance' /\ FreshKnows'
  BY <1>1, QuietBooks DEF Start, BooksInv, TypeOK
<1>2. ASSUME NEW r \in Requests, Look(r) PROVE BooksBalance' /\ FreshKnows'
  <2>1. /\ UNCHANGED <<value, redisUp, books>>
        /\ \A q \in Requests \ {r} : fresh'[q] = fresh[q]
    BY <1>2 DEF Look, Knows, BooksInv, TypeOK
  <2>2. CASE redisUp /\ value # NoKey
    <3>1. Decide(r, value)
      BY <1>2, <2>2 DEF Look
    <3>2. /\ pc'[r] \notin {"admitNew", "routeNew", "create", "incr"}
          /\ \A q \in Requests \ {r} : pc'[q] = pc[q]
      BY <3>1, DecideLeaves DEF BooksInv
    <3> QED BY <2>1, <3>2, QuietBooks
  <2>3. CASE ~(redisUp /\ value # NoKey)
    <3>1. pc'[r] \in {"admitNew", "routeNew"} /\ \A q \in Requests \ {r} : pc'[q] = pc[q]
      BY <1>2, <2>3 DEF Look, Goto, BooksInv, TypeOK
    <3> QED BY <2>1, <2>3, <3>1 DEF BooksInv, BooksBalance, FreshKnows
  <2> QED BY <2>2, <2>3
<1>3. ASSUME NEW r \in Requests, Create(r) PROVE BooksBalance' /\ FreshKnows'
  <2>1. /\ pc'[r] \notin {"admitNew", "routeNew", "create", "incr"}
        /\ \A q \in Requests \ {r} : pc'[q] = pc[q]
    BY <1>3, DecideLeaves DEF Create, BooksInv
  <2>2. CASE redisUp /\ SetBudget(r) /\ Moved(Ignorant \ {r})
    <3>1. BooksBalance' /\ value' # NoKey
      BY <1>3, <2>2, SetBudgetBalances DEF Create
    <3> QED BY <2>1, <2>2, <3>1, WriteIsKnown
  <2>3. CASE Knows(r) /\ UNCHANGED <<key, books>>
    <3>1. \A q \in Requests \ {r} : fresh'[q] = fresh[q]
      BY <2>3 DEF Knows, BooksInv, TypeOK
    <3> QED BY <1>3, <2>1, <2>3, <3>1, QuietBooks DEF Create
  <2> QED BY <1>3, <2>2, <2>3 DEF Create
<1>4. ASSUME NEW r \in Requests, CallFails(r) PROVE BooksBalance' /\ FreshKnows'
  BY <1>4, QuietBooks DEF CallFails, Answer, BooksInv, TypeOK
<1>5. ASSUME NEW r \in Requests, CallSucceeds(r) PROVE BooksBalance' /\ FreshKnows'
  <2>1. /\ pc'[r] \notin {"admitNew", "routeNew", "create", "incr"}
        /\ \A q \in Requests \ {r} : pc'[q] = pc[q]
    BY <1>5 DEF CallSucceeds, AfterReply, Extract, Answer, BooksInv, TypeOK
  <2> QED BY <1>5, <2>1, QuietBooks DEF CallSucceeds
<1>6. ASSUME NEW r \in Requests, Exists(r) PROVE BooksBalance' /\ FreshKnows'
  <2>1. /\ \A q \in Requests \ {r} : pc'[q] = pc[q] /\ fresh'[q] = fresh[q]
        /\ pc'[r] = IF redisUp /\ value # NoKey THEN "incr" ELSE "create"
    BY <1>6 DEF Exists, Goto, Knows, BooksInv, TypeOK
  <2> QED BY <1>6, <2>1 DEF Exists, BooksInv, BooksBalance, FreshKnows
<1>7. ASSUME NEW r \in Requests, CreateFirst(r) PROVE BooksBalance' /\ FreshKnows'
  <2>1. pc[r] = "create" /\ pc'[r] = "incr" /\ \A q \in Requests \ {r} : pc'[q] = pc[q]
    BY <1>7 DEF CreateFirst, Goto, BooksInv, TypeOK
  <2>2. CASE redisUp
    <3>1. SetBudget(r) /\ Moved(Ignorant \ {r})
      BY <1>7, <2>2 DEF CreateFirst
    <3>2. BooksBalance' /\ value' # NoKey
      BY <2>1, <2>2, <3>1, SetBudgetBalances
    <3> QED BY <2>1, <2>2, <3>1, <3>2, WriteIsKnown
  <2>3. CASE ~redisUp
    BY <1>7, <2>3 DEF CreateFirst, BooksInv, BooksBalance, FreshKnows
  <2> QED BY <2>2, <2>3
<1>8. ASSUME NEW r \in Requests, Incr(r) PROVE BooksBalance' /\ FreshKnows'
  BY <1>8, IncrBalances
<1>9. ASSUME NEW r \in Requests, ReplyEnds(r) PROVE BooksBalance' /\ FreshKnows'
  <2>1. /\ pc'[r] \notin {"admitNew", "routeNew", "create", "incr"}
        /\ \A q \in Requests \ {r} : pc'[q] = pc[q]
    BY <1>9 DEF ReplyEnds, AfterReply, Extract, Answer, Goto, BooksInv, TypeOK
  <2> QED BY <1>9, <2>1, QuietBooks DEF ReplyEnds
<1>10. ASSUME NEW r \in Requests, CreateAgain(r) PROVE BooksBalance' /\ FreshKnows'
  <2>1. /\ pc[r] \in {"admitNew", "routeNew", "create"} /\ redisUp /\ pc' = pc
        /\ SetBudget(r) /\ Moved(Ignorant \cup {r})
    BY <1>10 DEF CreateAgain, request
  <2>2. BooksBalance' /\ value' # NoKey
    BY <2>1, SetBudgetBalances
  <2>3. ~fresh'[r]
    BY <2>1 DEF Moved
  <2> QED BY <2>1, <2>2, <2>3, WriteIsKnown
<1>11. ASSUME NEW r \in Requests, IncrAgain(r) PROVE BooksBalance' /\ FreshKnows'
  BY <1>11, IncrAgainBalances
<1>12. ASSUME Tick PROVE BooksBalance' /\ FreshKnows'
  <2>1. CASE Expire
    <3>1. value' = NoKey /\ \A q \in Requests : fresh'[q] => q \notin Stale
      BY <2>1 DEF Expire, Moved
    <3>2. pc' = pc
      BY <1>12 DEF Tick, request
    <3> QED BY <3>1, <3>2 DEF BooksBalance, FreshKnows, Stale
  <2>2. CASE UNCHANGED <<value, books, fresh>>
    BY <1>12, <2>2 DEF Tick, request, BooksInv, BooksBalance, FreshKnows
  <2>3. Expire \/ UNCHANGED <<value, books, fresh>>
    <3>1. CASE ttl = 1
      <4>1. ttl # NoTTL
        BY <3>1, KeyAssumption
      <4> QED BY <1>12, <3>1, <4>1 DEF Tick
    <3>2. CASE ttl # 1
      BY <1>12, <3>2 DEF Tick
    <3> QED BY <3>1, <3>2
  <2> QED BY <2>1, <2>2, <2>3
<1>13. ASSUME RedisFlips PROVE BooksBalance' /\ FreshKnows'
  <2>1. \A q \in Requests : fresh'[q] => q \notin Stale
    BY <1>13 DEF RedisFlips, Moved
  <2> QED BY <1>13, <2>1
          DEF RedisFlips, request, BooksInv, BooksBalance, FreshKnows, Stale
<1>14. ASSUME UNCHANGED vars PROVE BooksBalance' /\ FreshKnows'
  BY <1>14 DEF vars, request, BooksInv, BooksBalance, FreshKnows
<1> QED BY <1>1, <1>2, <1>3, <1>4, <1>5, <1>6, <1>7, <1>8, <1>9, <1>10, <1>11, <1>12,
           <1>13, <1>14
        DEF Next

\* While Redis answers and nobody overtakes, the key holds the limit of the tier it was
\* made with, less all that was deducted, once or, after a lost reply, again.
THEOREM BooksAreBalanced == Spec => []BooksBalance
<1>1. Init => BooksInv
  BY InitTypeOK DEF Init, BooksInv, BooksBalance, FreshKnows
<1>2. BooksInv => BooksBalance
  BY DEF BooksInv
<1> QED BY <1>1, <1>2, NextBooks, PTL DEF Spec
=============================================================================
