---------------------------- MODULE MCCostRouter ----------------------------
(* Values of CostRouter's constants for TLC. *)
EXTENDS CostRouter, TLC

CONSTANTS q1, q2

Question(length, words, complex, code) ==
    [length |-> length, words |-> words, questions |-> 0, context |-> 0,
     complex |-> complex, code |-> code, simple |-> FALSE, snippet |-> FALSE]

\* One question for each of the cheap, the standard and the premium tier.
MCQuestions ==
    {Question(40, 8, 0, 0), Question(250, 60, 1, 1), Question(600, 60, 3, 3)}

MCConfigured == {"gemini", "openai", "ollama"}

\* Of a pro budget one charge leaves enough for the cheapest models only, of a free one
\* nothing.
MCCharges == {39999800}
=============================================================================
