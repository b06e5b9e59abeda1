--------------------------- MODULE BreakerPromise ---------------------------
(***************************************************************************)
(* What a circuit breaker promises its callers, whatever its counters and  *)
(* locks look like: an open circuit is left only through a recovery test   *)
(* or an operator's reset, a recovery test admits a bounded number of      *)
(* probes, and it ends in the closed state only on the evidence of a       *)
(* successful call.                                                        *)
(***************************************************************************)
EXTENDS Naturals

CONSTANT MaxProbes   \* probes one recovery test may admit

VARIABLES
  mode,      \* what the circuit is: CLOSED, OPEN or HALF_OPEN
  probes,    \* probes admitted by the latest recovery test
  proven     \* has a call succeeded during the latest recovery test?

vars == <<mode, probes, proven>>

Modes == {"CLOSED", "OPEN", "HALF_OPEN"}

Init == /\ mode = "CLOSED"
        /\ probes = 0
        /\ proven = FALSE

\* Too many failures: stop calling.
Trip == /\ mode = "CLOSED"
        /\ mode' = "OPEN"
        /\ UNCHANGED <<probes, proven>>

\* The cooling-off period is over: a recovery test starts from nothing.
StartTest == /\ mode = "OPEN"
             /\ mode' = "HALF_OPEN"
             /\ probes' = 0
             /\ proven' = FALSE

Probe == /\ mode = "HALF_OPEN"
         /\ probes < MaxProbes
         /\ probes' = probes + 1
         /\ UNCHANGED <<mode, proven>>

\* A success counts as evidence and may, or may not yet, close the circuit.
Succeed == /\ mode = "HALF_OPEN"
           /\ proven' = TRUE
           /\ mode' \in {"HALF_OPEN", "CLOSED"}
           /\ UNCHANGED probes

FailTest == /\ mode = "HALF_OPEN"
            /\ mode' = "OPEN"
            /\ UNCHANGED <<probes, proven>>

\* An operator closes the circuit by hand, from any mode.
ForceClose == /\ mode' = "CLOSED"
              /\ probes' = 0
              /\ proven' = FALSE

Next == Trip \/ StartTest \/ Probe \/ Succeed \/ FailTest \/ ForceClose

Spec == Init /\ [][Next]_vars
=============================================================================
