--------------------------- MODULE MCServiceRecovery --------------------------
(***************************************************************************)
(* Two failed calls at a time: a network error beside an unavailability    *)
(* with a fallback, another error beside an unavailability without one,    *)
(* and a rate limit beside a network error of a service nobody probes.     *)
(***************************************************************************)
EXTENDS ServiceRecovery, TLC

CONSTANTS a, b

Pair(k, f, l, g) == a :> [kind |-> k, fallback |-> f] @@ b :> [kind |-> l, fallback |-> g]

MCCases ==
  {[job |-> Pair("network", FALSE, "unavailable", TRUE), checked |-> TRUE],
   [job |-> Pair("other", TRUE, "unavailable", FALSE), checked |-> TRUE],
   [job |-> Pair("limit", FALSE, "network", FALSE), checked |-> FALSE]}
=============================================================================
