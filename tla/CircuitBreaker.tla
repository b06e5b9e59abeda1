--------------------------- MODULE CircuitBreaker ---------------------------
(***************************************************************************)
(* The CircuitBreaker of src/retry_strategy.py and the threads that use it *)
(* the way circuit_wrapped does: ask allow_request, make the call, report  *)
(* its outcome, and after a failure ask allow_request once more.           *)
(*                                                                         *)
(* A step is one critical section of the breaker's lock.  allow_request    *)
(* has two: it reads the `state' property under the lock, releases it, and *)
(* in the half-open case takes it again to claim a slot without looking at *)
(* the state a second time.                                                *)
(*                                                                         *)
(* Time: only "now - _last_failure_time > recovery_timeout" is ever asked, *)
(* so the model keeps `age', the seconds since the last counted failure,   *)
(* and stops counting one second past the timeout.  `_failures' is only    *)
(* compared with the threshold, and only while CLOSED; the model stops     *)
(* counting at FailureCap.  Both cuts are exact.                           *)
(*                                                                         *)
(* A call is one step however often tenacity tries it: the check of the    *)
(* circuit between two tries hangs on an attribute of tenacity's decorator *)
(* (lines 671-697), and when it cannot be attached the code goes on        *)
(* without it.  It is left out.                                            *)
(***************************************************************************)
EXTENDS Integers

CONSTANTS
  Threads,            \* the callers sharing the breaker
  FailureThreshold,   \* failures that open the circuit
  RecoveryTimeout,    \* seconds an open circuit waits before testing
  HalfOpenMaxCalls,   \* half_open_max_calls
  FailureCap,         \* failures beyond this are not told apart
  BreaksCap,          \* circuit_breaks beyond this are not told apart
  Outcomes            \* how a call may end: "ok", "monitored", "unmonitored"

ASSUME BreakerAssumption ==
  /\ FailureThreshold \in Nat \ {0}
  /\ RecoveryTimeout \in Nat
  /\ HalfOpenMaxCalls \in Nat \ {0}
  /\ FailureCap \in Nat /\ FailureCap >= FailureThreshold
  /\ BreaksCap \in Nat
  /\ Outcomes \subseteq {"ok", "monitored", "unmonitored"}

VARIABLES
  state,          \* _state
  failures,       \* _failures
  age,            \* time.time() - _last_failure_time, saturating
  halfOpenCalls,  \* _half_open_calls
  circuitBreaks,  \* _retry_metrics["circuit_breaks"], saturating
  pc,             \* where each thread is
  probes,         \* history: slots granted since the circuit turned half-open
  wins            \* history: successes recorded since then

breaker == <<state, failures, age, halfOpenCalls, circuitBreaks>>
history == <<probes, wins>>
vars    == <<breaker, pc, history>>

States == {"CLOSED", "OPEN", "HALF_OPEN"}

(* idle: outside the wrapper; slot: allow_request has read HALF_OPEN and   *)
(* wants a slot; refused: allow_request said no, the error message is yet  *)
(* to be formatted; calling: the call is under way; gate: the failure is   *)
(* recorded, _check_circuit_breaker calls allow_request next; gateSlot:    *)
(* that call has read HALF_OPEN and wants a slot.                          *)
Places == {"idle", "slot", "refused", "calling", "gate", "gateSlot"}

AgeCap == RecoveryTimeout + 1

Init == /\ state = "CLOSED"
        /\ failures = 0
        /\ age = AgeCap          \* _last_failure_time = 0, the epoch
        /\ halfOpenCalls = 0
        /\ circuitBreaks = 0
        /\ pc = [t \in Threads |-> "idle"]
        /\ probes = 0
        /\ wins = 0
-----------------------------------------------------------------------------
(* The critical sections of the breaker.                                   *)

Goto(t, place) == pc' = [pc EXCEPT ![t] = place]

Expired == state = "OPEN" /\ age > RecoveryTimeout

\* Defect: the raw field is read in place of the property.
StaleObserved == state

\* What reading the `state' property returns ...
Observed == IF Expired THEN "HALF_OPEN" ELSE state

\* ... and what it does: an expired OPEN turns HALF_OPEN with no slot used.
ReadState ==
  /\ state' = Observed
  /\ IF Expired THEN halfOpenCalls' = 0 /\ probes' = 0 /\ wins' = 0
                ELSE UNCHANGED <<halfOpenCalls, probes, wins>>
  /\ UNCHANGED <<failures, age, circuitBreaks>>

\* Defect: one slot too many.
SlotFreeInclusive == halfOpenCalls <= HalfOpenMaxCalls

\* The second critical section of allow_request grants or denies a slot.
SlotFree == halfOpenCalls < HalfOpenMaxCalls

ClaimSlot ==
  /\ IF SlotFree THEN halfOpenCalls' = halfOpenCalls + 1
                 ELSE UNCHANGED halfOpenCalls
  /\ probes' = IF SlotFree /\ state = "HALF_OPEN" THEN probes + 1 ELSE probes
  /\ UNCHANGED <<state, failures, age, circuitBreaks, wins>>

OneMoreFailure == IF failures < FailureCap THEN failures + 1 ELSE failures

\* Defect: a failure reported while OPEN restarts the wait.
RecordFailureAnyState ==
  /\ failures' = OneMoreFailure
  /\ age' = 0
  /\ state' = IF failures' >= FailureThreshold THEN "OPEN" ELSE state
  /\ UNCHANGED <<halfOpenCalls, circuitBreaks, history>>

\* record_failure for an exception type the breaker monitors.
RecordFailure ==
  \/ /\ state = "CLOSED"
     /\ failures' = OneMoreFailure
     /\ age' = 0
     /\ IF failures' >= FailureThreshold
          THEN /\ state' = "OPEN"
               /\ circuitBreaks' = IF circuitBreaks < BreaksCap
                                     THEN circuitBreaks + 1 ELSE circuitBreaks
          ELSE UNCHANGED <<state, circuitBreaks>>
     /\ UNCHANGED <<halfOpenCalls, history>>
  \/ /\ state = "HALF_OPEN"
     /\ failures' = OneMoreFailure
     /\ age' = 0
     /\ state' = "OPEN"
     /\ UNCHANGED <<halfOpenCalls, circuitBreaks, history>>
  \/ /\ state = "OPEN"
     /\ UNCHANGED <<breaker, history>>

\* Defect: closing the circuit keeps the old failure count.
RecordSuccessKeepingFailures ==
  /\ IF state = "HALF_OPEN"
       THEN /\ halfOpenCalls' = halfOpenCalls + 1
            /\ wins' = wins + 1
            /\ state' = IF halfOpenCalls' >= HalfOpenMaxCalls
                          THEN "CLOSED" ELSE state
       ELSE UNCHANGED <<state, halfOpenCalls, wins>>
  /\ UNCHANGED <<failures, age, circuitBreaks, probes>>

\* Defect: a success closes the circuit whatever state it is in.
RecordSuccessAnyState ==
  /\ state' = "CLOSED"
  /\ failures' = 0
  /\ UNCHANGED <<age, halfOpenCalls, circuitBreaks, history>>

RecordSuccess ==
  \/ /\ state = "HALF_OPEN"
     /\ halfOpenCalls' = halfOpenCalls + 1
     /\ wins' = wins + 1
     /\ IF halfOpenCalls' >= HalfOpenMaxCalls
          THEN state' = "CLOSED" /\ failures' = 0
          ELSE UNCHANGED <<state, failures>>
     /\ UNCHANGED <<age, circuitBreaks, probes>>
  \/ /\ state = "CLOSED"
     /\ failures' = 0
     /\ UNCHANGED <<state, age, halfOpenCalls, circuitBreaks, history>>
  \/ /\ state = "OPEN"
     /\ UNCHANGED <<breaker, history>>

\* The operator's reset(); a fresh history starts with it.
Reset == /\ state' = "CLOSED"
         /\ failures' = 0
         /\ halfOpenCalls' = 0
         /\ probes' = 0
         /\ wins' = 0
         /\ UNCHANGED <<age, circuitBreaks, pc>>
-----------------------------------------------------------------------------
(* A thread's way through circuit_wrapped.                                 *)

AskToCall(t) ==
  /\ pc[t] = "idle"
  /\ ReadState
  /\ Goto(t, CASE Observed = "CLOSED"    -> "calling"
               [] Observed = "HALF_OPEN" -> "slot"
               [] Observed = "OPEN"      -> "refused")

GetSlot(t) ==
  /\ pc[t] = "slot"
  /\ ClaimSlot
  /\ Goto(t, IF SlotFree THEN "calling" ELSE "refused")

\* The text of the "Circuit breaker is open" error reads `state' again.
RaiseRefusal(t) ==
  /\ pc[t] = "refused"
  /\ ReadState
  /\ Goto(t, "idle")

CallSucceeds(t) ==
  /\ pc[t] = "calling" /\ "ok" \in Outcomes
  /\ RecordSuccess
  /\ Goto(t, "idle")

CallFails(t) ==
  /\ pc[t] = "calling" /\ "monitored" \in Outcomes
  /\ RecordFailure
  /\ Goto(t, "gate")

\* record_failure returns at once for an exception it does not monitor.
CallFailsUnmonitored(t) ==
  /\ pc[t] = "calling" /\ "unmonitored" \in Outcomes
  /\ Goto(t, "gate")
  /\ UNCHANGED <<breaker, history>>

\* _check_circuit_breaker ends with allow_request, whose answer is dropped.
CheckGate(t) ==
  /\ pc[t] = "gate"
  /\ ReadState
  /\ Goto(t, IF Observed = "HALF_OPEN" THEN "gateSlot" ELSE "idle")

GateSlot(t) ==
  /\ pc[t] = "gateSlot"
  /\ ClaimSlot
  /\ Goto(t, "idle")

\* A second passes; seconds past the timeout make no difference.
Tick == /\ age < AgeCap
        /\ age' = age + 1
        /\ UNCHANGED <<state, failures, halfOpenCalls, circuitBreaks, pc, history>>

Answer(t) == CallSucceeds(t) \/ CallFails(t) \/ CallFailsUnmonitored(t)

Step(t) == \/ AskToCall(t)    \/ GetSlot(t)    \/ RaiseRefusal(t)
           \/ Answer(t)       \/ CheckGate(t)  \/ GateSlot(t)

Next == (\E t \in Threads : Step(t)) \/ Reset \/ Tick

Spec == Init /\ [][Next]_vars

(* The clock runs, the scheduler lets every thread run, every call ends    *)
(* one way or another (the HTTP client has a timeout), and the callers     *)
(* keep having requests to make.  Nobody promises a reset.                 *)
Fairness == WF_vars(Tick) /\ \A t \in Threads : WF_vars(Step(t))

FairSpec == Spec /\ Fairness
-----------------------------------------------------------------------------
(* Properties.                                                             *)

\* Every variable of the breaker, its callers and the history has its type.
TypeOK == /\ state \in States
          /\ failures \in 0..FailureCap
          /\ age \in 0..AgeCap
          /\ halfOpenCalls \in Nat
          /\ circuitBreaks \in 0..BreaksCap
          /\ pc \in [Threads -> Places]
          /\ probes \in Nat
          /\ wins \in Nat

\* The circuit is closed exactly while the failure count is below the
\* threshold: no order of successes, failures and resets from several threads
\* leaves a tripped count behind a closed circuit or a clean one behind an
\* open circuit (record_failure, record_success and reset together).
ClosedBelowThreshold == (state = "CLOSED") <=> (failures < FailureThreshold)

\* One recovery test never admits more probes than half_open_max_calls, in
\* spite of the gap between reading the state and claiming a slot
\* (allow_request).
ProbeBudget == state = "HALF_OPEN" => probes <= HalfOpenMaxCalls

\* The half-open counter is spent on admissions and on successes alike, and
\* on nothing else (allow_request and record_success).
SlotLedger == state = "HALF_OPEN" => halfOpenCalls = probes + wins

\* A failure that arrives late, after the circuit has opened, does not push
\* the recovery test further away (record_failure in the OPEN state).
LateFailuresDoNotExtendOutage ==
  [][state = "OPEN" /\ state' = "OPEN" => age' >= age]_vars

\* The breaker keeps what a circuit breaker promises.
Promise == INSTANCE BreakerPromise
             WITH MaxProbes <- HalfOpenMaxCalls, mode <- state,
                  proven <- wins > 0
KeepsPromise == Promise!Spec

\* An open circuit does not stay open: with the clock running and callers
\* asking, some read of the state starts the recovery test (the lazy
\* transition of the state property).
OutageEnds == (state = "OPEN") ~> (state # "OPEN")
-----------------------------------------------------------------------------
(* What the repository says and the code does not do.                      *)

\* "OPEN: Circuit is broken, requests fail fast without API calls" (class
\* docstring): no thread is let through to its call while the circuit is open.
OpenFailsFast ==
  [][\A t \in Threads : pc[t] # "calling" /\ pc'[t] = "calling"
                          => state' # "OPEN"]_vars

\* "HALF-OPEN: Testing recovery": a recovery test comes to a verdict.
TestReachesVerdict == (state = "HALF_OPEN") ~> (state # "HALF_OPEN")
=============================================================================
