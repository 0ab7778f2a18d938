--------------------------- MODULE MCModelRouter ---------------------------
(* Values of ModelRouter's constants for TLC: two models of one provider    *)
(* with another provider's model between them, as in the default chain.     *)
EXTENDS ModelRouter, TLC

CONSTANTS flash, mini, pro, gemini, openai, r1, r2

MCChain == <<flash, mini, pro>>

MCProviderOf == flash :> gemini @@ mini :> openai @@ pro :> gemini
=============================================================================
