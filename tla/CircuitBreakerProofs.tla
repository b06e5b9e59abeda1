------------------------ MODULE CircuitBreakerProofs ------------------------
(***************************************************************************)
(* Proofs about CircuitBreaker, for every number of callers, threshold,    *)
(* timeout and slot budget.                                                *)
(***************************************************************************)
EXTENDS CircuitBreaker, TLAPS

\* What a half-open breaker's counter stands for, and its ceiling.  The
\* ceiling is what makes the probe budget inductive: a slot is claimed below
\* it, and a success that reaches it closes the circuit.
SlotInv == state = "HALF_OPEN" => /\ halfOpenCalls = probes + wins
                                  /\ halfOpenCalls <= HalfOpenMaxCalls

IInv == TypeOK /\ ClosedBelowThreshold /\ SlotInv

\* Reading the state property yields a state, and yields OPEN or CLOSED only
\* by leaving the breaker alone.
LEMMA ObservedIsState ==
  ASSUME TypeOK
  PROVE  /\ Observed \in States
         /\ Observed # "HALF_OPEN" => Observed = state /\ ~Expired
BY DEF TypeOK, Observed, Expired, States

\* The initial breaker satisfies the inductive invariant.
LEMMA InitIInv == Init => IInv
BY BreakerAssumption
   DEF Init, IInv, TypeOK, ClosedBelowThreshold, SlotInv, States, Places, AgeCap

\* The three critical sections preserve the invariant as far as the breaker
\* and the history are concerned.
BreakerInv == /\ state \in States
              /\ failures \in 0..FailureCap
              /\ age \in 0..AgeCap
              /\ halfOpenCalls \in Nat
              /\ circuitBreaks \in 0..BreaksCap
              /\ probes \in Nat
              /\ wins \in Nat
              /\ ClosedBelowThreshold
              /\ SlotInv

LEMMA IInvSplit == IInv <=> BreakerInv /\ pc \in [Threads -> Places]
BY DEF IInv, BreakerInv, TypeOK

LEMMA ReadStatePreserves == BreakerInv /\ ReadState => BreakerInv'
BY BreakerAssumption
   DEF BreakerInv, ReadState, Observed, Expired, States, AgeCap,
       ClosedBelowThreshold, SlotInv

LEMMA ClaimSlotPreserves == BreakerInv /\ ClaimSlot => BreakerInv'
BY BreakerAssumption
   DEF BreakerInv, ClaimSlot, SlotFree, States, AgeCap,
       ClosedBelowThreshold, SlotInv

LEMMA RecordFailurePreserves == BreakerInv /\ RecordFailure => BreakerInv'
<1> SUFFICES ASSUME BreakerInv, RecordFailure PROVE BreakerInv'
  OBVIOUS
<1> USE BreakerAssumption
    DEF BreakerInv, States, AgeCap, ClosedBelowThreshold, SlotInv,
        OneMoreFailure, breaker, history
<1>1. CASE state = "CLOSED"
  <2>1. failures' = failures + 1 /\ age' = 0 /\ UNCHANGED <<halfOpenCalls, history>>
    BY <1>1 DEF RecordFailure
  <2>2. CASE failures' >= FailureThreshold
    BY <1>1, <2>1, <2>2 DEF RecordFailure
  <2>3. CASE ~(failures' >= FailureThreshold)
    BY <1>1, <2>1, <2>3 DEF RecordFailure
  <2>4. QED BY <2>2, <2>3
<1>2. CASE state = "HALF_OPEN"
  BY <1>2 DEF RecordFailure
<1>3. CASE state = "OPEN"
  BY <1>3 DEF RecordFailure
<1>4. QED BY <1>1, <1>2, <1>3

LEMMA RecordSuccessPreserves == BreakerInv /\ RecordSuccess => BreakerInv'
BY BreakerAssumption
   DEF BreakerInv, RecordSuccess, States, AgeCap, ClosedBelowThreshold,
       SlotInv, breaker, history

LEMMA GotoTyped ==
  ASSUME pc \in [Threads -> Places], NEW t \in Threads,
         NEW place \in Places, Goto(t, place)
  PROVE  pc' \in [Threads -> Places]
BY DEF Goto

\* Every step of a caller, a reset and the clock preserve the invariant.
LEMMA NextIInv == IInv /\ [Next]_vars => IInv'
<1> SUFFICES ASSUME IInv, [Next]_vars PROVE IInv'
  OBVIOUS
<1>1. BreakerInv /\ pc \in [Threads -> Places]
  BY IInvSplit
<1>2. ASSUME NEW t \in Threads, Step(t) PROVE IInv'
  <2>1. CASE AskToCall(t)
    <3>1. BreakerInv'
      BY <1>1, <2>1, ReadStatePreserves DEF AskToCall
    <3>2. Observed \in States
      BY ObservedIsState DEF IInv
    <3>3. pc' \in [Threads -> Places]
      BY <1>1, <2>1, <3>2 DEF AskToCall, Goto, Places, States
    <3>4. QED BY <3>1, <3>3 DEF IInv, BreakerInv, TypeOK
  <2>2. CASE GetSlot(t)
    <3>1. BreakerInv'
      BY <1>1, <2>2, ClaimSlotPreserves DEF GetSlot
    <3>2. pc' \in [Threads -> Places]
      BY <1>1, <2>2 DEF GetSlot, Goto, Places
    <3>3. QED BY <3>1, <3>2 DEF IInv, BreakerInv, TypeOK
  <2>3. CASE RaiseRefusal(t)
    <3>1. BreakerInv'
      BY <1>1, <2>3, ReadStatePreserves DEF RaiseRefusal
    <3>2. pc' \in [Threads -> Places]
      BY <1>1, <2>3 DEF RaiseRefusal, Goto, Places
    <3>3. QED BY <3>1, <3>2 DEF IInv, BreakerInv, TypeOK
  <2>4. CASE CallSucceeds(t)
    <3>1. BreakerInv'
      BY <1>1, <2>4, RecordSuccessPreserves DEF CallSucceeds
    <3>2. pc' \in [Threads -> Places]
      BY <1>1, <2>4 DEF CallSucceeds, Goto, Places
    <3>3. QED BY <3>1, <3>2 DEF IInv, BreakerInv, TypeOK
  <2>5. CASE CallFails(t)
    <3>1. BreakerInv'
      BY <1>1, <2>5, RecordFailurePreserves DEF CallFails
    <3>2. pc' \in [Threads -> Places]
      BY <1>1, <2>5 DEF CallFails, Goto, Places
    <3>3. QED BY <3>1, <3>2 DEF IInv, BreakerInv, TypeOK
  <2>6. CASE CallFailsUnmonitored(t)
    <3>1. BreakerInv'
      BY <1>1, <2>6 DEF CallFailsUnmonitored, breaker, history, BreakerInv,
                        ClosedBelowThreshold, SlotInv, AgeCap
    <3>2. pc' \in [Threads -> Places]
      BY <1>1, <2>6 DEF CallFailsUnmonitored, Goto, Places
    <3>3. QED BY <3>1, <3>2 DEF IInv, BreakerInv, TypeOK
  <2>7. CASE CheckGate(t)
    <3>1. BreakerInv'
      BY <1>1, <2>7, ReadStatePreserves DEF CheckGate
    <3>2. pc' \in [Threads -> Places]
      BY <1>1, <2>7 DEF CheckGate, Goto, Places
    <3>3. QED BY <3>1, <3>2 DEF IInv, BreakerInv, TypeOK
  <2>8. CASE GateSlot(t)
    <3>1. BreakerInv'
      BY <1>1, <2>8, ClaimSlotPreserves DEF GateSlot
    <3>2. pc' \in [Threads -> Places]
      BY <1>1, <2>8 DEF GateSlot, Goto, Places
    <3>3. QED BY <3>1, <3>2 DEF IInv, BreakerInv, TypeOK
  <2>9. QED
    BY <1>2, <2>1, <2>2, <2>3, <2>4, <2>5, <2>6, <2>7, <2>8 DEF Step, Answer
<1>3. CASE Reset
  BY <1>3, BreakerAssumption
     DEF Reset, IInv, TypeOK, ClosedBelowThreshold, SlotInv, States, AgeCap
<1>4. CASE Tick
  BY <1>4, BreakerAssumption
     DEF Tick, IInv, TypeOK, ClosedBelowThreshold, SlotInv, AgeCap, history
<1>5. CASE UNCHANGED vars
  BY <1>5 DEF vars, breaker, history, IInv, TypeOK, ClosedBelowThreshold,
              SlotInv, AgeCap
<1>6. QED BY <1>2, <1>3, <1>4, <1>5 DEF Next

LEMMA Inductive == Spec => []IInv
BY InitIInv, NextIInv, PTL DEF Spec

\* The breaker, its callers and the history keep their types.
THEOREM TypeCorrect == Spec => []TypeOK
<1>1. IInv => TypeOK BY DEF IInv
<1>2. QED BY <1>1, Inductive, PTL

\* No interleaving of callers, resets and the clock parts the circuit's state
\* from its failure count (record_failure, record_success, reset).
THEOREM ThresholdCorrect == Spec => []ClosedBelowThreshold
<1>1. IInv => ClosedBelowThreshold BY DEF IInv
<1>2. QED BY <1>1, Inductive, PTL

\* A recovery test admits at most half_open_max_calls probes, although
\* allow_request claims its slot without looking at the state again.
THEOREM ProbesBounded == Spec => []ProbeBudget
<1>1. IInv => ProbeBudget
  BY BreakerAssumption DEF IInv, TypeOK, SlotInv, ProbeBudget
<1>2. QED BY <1>1, Inductive, PTL
-----------------------------------------------------------------------------
(* The refinement: every critical section is a step of the promise or      *)
(* leaves it alone.                                                        *)

LEMMA InitPromise == Init => Promise!Init
BY DEF Init, Promise!Init

LEMMA StepPromise == IInv /\ [Next]_vars => [Promise!Next]_(Promise!vars)
<1> SUFFICES ASSUME IInv, [Next]_vars PROVE [Promise!Next]_(Promise!vars)
  OBVIOUS
<1> USE BreakerAssumption DEF IInv, TypeOK, SlotInv, States, breaker, history
<1>1. ReadState => [Promise!Next]_(Promise!vars)
  BY DEF ReadState, Observed, Expired, Promise!Next, Promise!StartTest, Promise!vars
<1>2. ClaimSlot => [Promise!Next]_(Promise!vars)
  BY DEF ClaimSlot, SlotFree, Promise!Next, Promise!Probe, Promise!vars
<1>3. RecordFailure => [Promise!Next]_(Promise!vars)
  BY DEF RecordFailure, Promise!Next, Promise!Trip, Promise!FailTest, Promise!vars
<1>4. RecordSuccess => [Promise!Next]_(Promise!vars)
  <2>1. state = "HALF_OPEN" /\ RecordSuccess => Promise!Succeed
    BY DEF RecordSuccess, Promise!Succeed
  <2>2. state # "HALF_OPEN" /\ RecordSuccess => UNCHANGED Promise!vars
    BY DEF RecordSuccess, Promise!vars
  <2>3. QED BY <2>1, <2>2 DEF Promise!Next
<1>5. UNCHANGED <<state, probes, wins>> => UNCHANGED Promise!vars
  BY DEF Promise!vars
<1>6. ASSUME NEW t \in Threads, Step(t) PROVE [Promise!Next]_(Promise!vars)
  BY <1>1, <1>2, <1>3, <1>4, <1>5, <1>6
     DEF Step, Answer, AskToCall, GetSlot, RaiseRefusal, CallSucceeds,
         CallFails, CallFailsUnmonitored, CheckGate, GateSlot
<1>7. Reset => Promise!ForceClose
  BY DEF Reset, Promise!ForceClose
<1>8. Tick => UNCHANGED Promise!vars
  BY <1>5 DEF Tick
<1>9. UNCHANGED vars => UNCHANGED Promise!vars
  BY <1>5 DEF vars
<1>10. QED BY <1>6, <1>7, <1>8, <1>9 DEF Next, Promise!Next

\* The breaker with its locks, counters and callers implements the abstract
\* circuit breaker.
THEOREM RefinesPromise == Spec => KeepsPromise
BY Inductive, InitPromise, StepPromise, PTL DEF Spec, Promise!Spec, KeepsPromise

\* A late failure never restarts the wait of an open circuit.
THEOREM LateFailuresHarmless == Spec => LateFailuresDoNotExtendOutage
<1> DEFINE A == state = "OPEN" /\ state' = "OPEN" => age' >= age
<1>1. IInv /\ [Next]_vars => [A]_vars
  <2> SUFFICES ASSUME IInv, Next, state = "OPEN" PROVE age' >= age
    OBVIOUS
  <2> USE BreakerAssumption DEF IInv, TypeOK, AgeCap, breaker, history
  <2>1. ReadState \/ ClaimSlot \/ RecordFailure \/ RecordSuccess => age' = age
    BY DEF ReadState, ClaimSlot, RecordFailure, RecordSuccess
  <2>2. ASSUME NEW t \in Threads, Step(t) PROVE age' = age
    BY <2>1, <2>2 DEF Step, Answer, AskToCall, GetSlot, RaiseRefusal,
         CallSucceeds, CallFails, CallFailsUnmonitored, CheckGate, GateSlot
  <2>3. Reset \/ Tick => age' >= age
    BY DEF Reset, Tick
  <2>4. QED BY <2>2, <2>3 DEF Next
<1>2. QED BY <1>1, Inductive, PTL DEF Spec, LateFailuresDoNotExtendOutage
=============================================================================
