---------------------------- MODULE ModelCatalog ----------------------------
(***************************************************************************)
(* The routing algorithm of ai/cost_router.py: the models it knows, how    *)
(* hard a question is taken to be, which model that asks for, and what the *)
(* remaining budget still allows.                                          *)
(*                                                                         *)
(* Money is counted in units of 1250 nano-dollars, the largest in which    *)
(* every estimate is whole; scores and qualities are in hundredths.        *)
(***************************************************************************)
EXTENDS Integers, Sequences, FiniteSets

Entry(provider, tier, input, output, quality) ==
    [provider |-> provider, tier |-> tier, input |-> input, output |-> output,
     quality |-> quality]

\* Prices in micro-dollars per 1000 tokens.
Catalog ==
    LET entry(m) ==
        CASE m = "gemini-flash"  -> Entry("gemini", "cheap", 75, 300, 75)
          [] m = "gemini-pro"    -> Entry("gemini", "premium", 1250, 5000, 92)
          [] m = "gpt-4o-mini"   -> Entry("openai", "standard", 150, 600, 82)
          [] m = "gpt-4o"        -> Entry("openai", "premium", 2500, 10000, 95)
          [] m = "claude-haiku"  -> Entry("anthropic", "cheap", 250, 1250, 78)
          [] m = "claude-sonnet" -> Entry("anthropic", "standard", 3000, 15000, 93)
          [] m = "ollama-llama3" -> Entry("ollama", "local", 0, 0, 70)
    IN  [m \in {"gemini-flash", "gemini-pro", "gpt-4o-mini", "gpt-4o", "claude-haiku",
                "claude-sonnet", "ollama-llama3"} |-> entry(m)]

Models == DOMAIN Catalog
Providers == {Catalog[m].provider : m \in Models}

\* TIER_MONTHLY_BUDGETS, in units.
MonthlyBudget ==
    [t \in {"free", "pro", "enterprise", "anonymous"} |->
        CASE t = "free"       -> 1600000
          [] t = "pro"        -> 40000000
          [] t = "enterprise" -> 400000000
          [] t = "anonymous"  -> 80000]

\* TIER_MONTHLY_BUDGETS.get(tier, ... ["free"])
LimitOf(tier) ==
    IF tier \in DOMAIN MonthlyBudget THEN MonthlyBudget[tier] ELSE MonthlyBudget["free"]

AvailableModels(configured) == {m \in Models : Catalog[m].provider \in configured}

----------------------------------------------------------------------------
(* How hard a question is: the features score() looks at, each added up.   *)

Least(a, b) == IF a < b THEN a ELSE b

LengthScore(q) ==
    CASE q.length > 500 -> 20
      [] q.length > 200 /\ q.length <= 500 -> 10
      [] q.length < 30 -> -10
      [] OTHER -> 0

\* "SELECT " is looked for in the lowercased question and never found.
KeywordScore(q) ==
    Least(30, 10 * q.complex) + Least(25, 8 * q.code)
    + (IF q.simple /\ q.complex = 0 THEN -15 ELSE 0)
    + (IF q.snippet THEN 20 ELSE 0)

ShapeScore(q) ==
    (IF q.words > 50 THEN 15 ELSE 0) + (IF q.questions > 2 THEN 10 ELSE 0)
    + (CASE q.context > 10000 -> 15 [] q.context \in 3001 .. 10000 -> 5 [] OTHER -> 0)

Score(q) ==
    LET sum == LengthScore(q) + KeywordScore(q) + ShapeScore(q)
    IN  IF q.length = 0 \/ sum < 0 THEN 0 ELSE Least(100, sum)

----------------------------------------------------------------------------
(* The choice of a model.                                                  *)

TargetTier(score) ==
    IF score < 30 THEN "cheap" ELSE IF score < 65 THEN "standard" ELSE "premium"

InTier(models, tier) == {m \in models : Catalog[m].tier = tier}

BestOf(models) ==
    CHOOSE m \in models : \A n \in models : Catalog[n].quality <= Catalog[m].quality

SelectByComplexity(score, models) ==
    LET tiers == <<TargetTier(score), "standard", "cheap", "premium", "local">>
        some == {i \in 1 .. 5 : InTier(models, tiers[i]) # {}}
    IN  BestOf(InTier(models, tiers[CHOOSE i \in some : \A j \in some : i <= j]))

\* 70 % of the tokens in, 30 % out.
EstimateCost(m, tokens) ==
    (Catalog[m].input * ((tokens * 7) \div 10)
     + Catalog[m].output * ((tokens * 3) \div 10)) \div 1250

Affordable(models, budget, tokens) == {m \in models : EstimateCost(m, tokens) <= budget}

Rejected == [model |-> "none", rejected |-> TRUE]
Chosen(m) == [model |-> m, rejected |-> FALSE]

\* Mutation: the downgrade takes the cheapest tier without looking at the budget.
DecisionByTier(score, models, budget, tokens) ==
    IF models = {} THEN Rejected
    ELSE LET wanted == SelectByComplexity(score, models)
         IN  IF EstimateCost(wanted, tokens) <= budget THEN Chosen(wanted)
             ELSE Chosen(SelectByComplexity(0, models))

\* The decision of route() on a question of the given score.
Decision(score, models, budget, tokens) ==
    IF models = {} THEN Rejected
    ELSE LET wanted == SelectByComplexity(score, models)
             cheaper == Affordable(models, budget, tokens)
         IN  IF EstimateCost(wanted, tokens) <= budget THEN Chosen(wanted)
             ELSE IF cheaper # {} THEN Chosen(BestOf(cheaper))
             ELSE Rejected

----------------------------------------------------------------------------
(* What ModelRouter makes of the decision: the order in which it tries.    *)

FallbackChain == <<"gemini-flash", "gpt-4o-mini", "claude-haiku", "gemini-pro", "gpt-4o",
                   "claude-sonnet", "ollama">>

ProviderConfigs == {FallbackChain[i] : i \in DOMAIN FallbackChain}

\* A model PROVIDER_CONFIGS does not list (the catalogue's "ollama-llama3" is
\* "ollama" there) leaves the default order.
RoutingOrder(decision) ==
    IF decision.rejected THEN <<>>
    ELSE IF decision.model \in ProviderConfigs
         THEN LET other(m) == m # decision.model
              IN  <<decision.model>> \o SelectSeq(FallbackChain, other)
         ELSE FallbackChain
=============================================================================
