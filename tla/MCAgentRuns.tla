----------------------------- MODULE MCAgentRuns ----------------------------
(* Instances of AgentRuns for TLC: a planner that decides the same Fuck    *)
(* with confidence, without it, and with an error beside it.               *)
EXTENDS AgentRuns

CONSTANTS a, b

Fucks(confidence, info) ==
  [action |-> "Fuck", component |-> b, confidence |-> confidence,
   errorInfo |-> info]

MCDecisions == {Fucks("high", FALSE), Fucks("low", FALSE), Fucks("high", TRUE)}
=============================================================================
