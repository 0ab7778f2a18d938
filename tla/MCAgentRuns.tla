----------------------------- MODULE MCAgentRuns -----------------------------
(* Values of AgentRuns' constants for TLC. *)
EXTENDS AgentRuns, TLC

CONSTANTS a1, a2, u1, search, bogus

MCUserOf == [a \in {a1, a2} |-> u1]
MCAllowed == [a \in {a1, a2} |-> {search}]
MCRateLimit == search :> 2
=============================================================================
