----------------------------- MODULE TokenBucket ----------------------------
(***************************************************************************)
(* TokenBucketRateLimiter of src/error_recovery.py and the threads that    *)
(* consume from it and report how their requests went.                     *)
(*                                                                         *)
(* Every public method is one critical section of the limiter's lock,      *)
(* except consume, which holds it once per try and sleeps between tries.   *)
(*                                                                         *)
(* Time and numbers: a tick is the smallest interval the model sees.  The  *)
(* bucket is refilled lazily, so the model keeps the ticks since the last  *)
(* refill; past max_tokens ticks the bucket is full whatever the rate, and *)
(* the count stops there.  Likewise the ticks since the last rate recovery *)
(* stop one past the recovery window, and successes stop counting at the   *)
(* threshold.  These cuts are exact.  Rates are whole tokens per tick: the *)
(* code's floating-point products are replaced by whole-number ones.       *)
(***************************************************************************)
EXTENDS Integers

CONSTANTS
  Threads,             \* the consumers
  Blocking,            \* those that call consume with no timeout
  InitialRate,         \* rate, in tokens per tick
  MaxTokens,           \* max_tokens
  TokensPerRequest,    \* tokens_per_request
  MinRate,             \* min_rate
  RecoveryFactor,      \* recovery_factor
  BackoffDivisor,      \* 1 / backoff_factor
  RecoveryThreshold,   \* 10 successes in the code
  RecoveryWindow       \* 30 seconds in the code

ASSUME BucketAssumption ==
  /\ Blocking \subseteq Threads
  /\ MinRate \in Nat \ {0}
  /\ InitialRate \in Nat /\ MaxTokens \in Nat
  /\ MinRate <= InitialRate /\ InitialRate <= MaxTokens
  /\ TokensPerRequest \in 1..MaxTokens
  /\ RecoveryFactor \in Nat \ {0} /\ BackoffDivisor \in Nat \ {0}
  /\ RecoveryThreshold \in Nat \ {0} /\ RecoveryWindow \in Nat

VARIABLES
  rate,            \* the tokens added per tick
  tokens,          \* the tokens in the bucket at the last refill
  elapsed,         \* ticks since last_updated
  successes,       \* successful_request_count
  sinceRecovery,   \* ticks since last_rate_recovery
  pc,              \* where each consumer is
  allowance,       \* history: a bucket that always fills at the peak rate
  clean            \* history: successes since the last rate limit

limiter == <<rate, tokens, elapsed, successes, sinceRecovery>>
bucketVars == <<limiter, pc, allowance, clean>>

\* out: no request; trying: in consume's loop; waiting: about to ask for the
\* wait time; asleep: sleeping before the next try; sent: the request is out.
Places == {"out", "trying", "waiting", "asleep", "sent"}

Least(a, b) == IF a < b THEN a ELSE b
Largest(a, b) == IF a > b THEN a ELSE b

BucketInit == /\ rate = InitialRate
              /\ tokens = MaxTokens
              /\ elapsed = 0
              /\ successes = 0
              /\ sinceRecovery = RecoveryWindow + 1   \* last_rate_recovery = 0
              /\ pc = [t \in Threads |-> "out"]
              /\ allowance = MaxTokens
              /\ clean = 0
-----------------------------------------------------------------------------
Goto(t, place) == pc' = [pc EXCEPT ![t] = place]

\* Defect: the refill is not capped.
RefilledUncapped == tokens + elapsed * rate

\* add_tokens: what is in the bucket once the elapsed time is credited, at
\* the rate in force now.
Refilled == Least(tokens + elapsed * rate, MaxTokens)

AddTokens == tokens' = Refilled /\ elapsed' = 0

\* History: a request was let through.
Charge == allowance' = allowance - TokensPerRequest

StartConsume(t) ==
  /\ pc[t] = "out"
  /\ Goto(t, "trying")
  /\ UNCHANGED <<limiter, allowance, clean>>

\* A try that finds enough tokens takes them ...
Take(t) ==
  /\ pc[t] = "trying"
  /\ Refilled >= TokensPerRequest
  /\ tokens' = Refilled - TokensPerRequest
  /\ elapsed' = 0
  /\ Charge
  /\ Goto(t, "sent")
  /\ UNCHANGED <<rate, successes, sinceRecovery, clean>>

\* ... one that does not has credited the time all the same, and gives up if
\* it does not block (acquire) or its timeout is over, or waits.
Lack(t) ==
  /\ pc[t] = "trying"
  /\ Refilled < TokensPerRequest
  /\ AddTokens
  /\ \/ Goto(t, "out") /\ t \notin Blocking
     \/ Goto(t, "waiting")
  /\ UNCHANGED <<rate, successes, sinceRecovery, allowance, clean>>

\* get_wait_time credits the time once more; with no wait to make the
\* consumer tries again at once, else it sleeps.
AskWaitTime(t) ==
  /\ pc[t] = "waiting"
  /\ AddTokens
  /\ Goto(t, IF Refilled >= TokensPerRequest THEN "trying" ELSE "asleep")
  /\ UNCHANGED <<rate, successes, sinceRecovery, allowance, clean>>

\* Defect: a sleeper waits for the bucket to be filled by somebody else.
WakeWhenFull(t) ==
  /\ pc[t] = "asleep"
  /\ tokens >= TokensPerRequest
  /\ Goto(t, "trying")
  /\ UNCHANGED <<limiter, allowance, clean>>

Wake(t) ==
  /\ pc[t] = "asleep"
  /\ Goto(t, "trying")
  /\ UNCHANGED <<limiter, allowance, clean>>

Success(t) == pc[t] = "sent" /\ Goto(t, "out")

\* The rate goes up once there were enough successes and the window is over.
MayRecover == /\ Least(successes + 1, RecoveryThreshold) = RecoveryThreshold
              /\ sinceRecovery > RecoveryWindow
RecoveredRate == Least(rate * RecoveryFactor, MaxTokens)

RecordSuccess(t) ==
  /\ Success(t)
  /\ clean' = Least(clean + 1, RecoveryThreshold)
  /\ IF MayRecover /\ RecoveredRate > rate
       THEN /\ rate' = RecoveredRate
            /\ sinceRecovery' = 0
            /\ successes' = 0
       ELSE /\ successes' = Least(successes + 1, RecoveryThreshold)
            /\ UNCHANGED <<rate, sinceRecovery>>
  /\ UNCHANGED <<tokens, elapsed, allowance>>

\* Defect: the run of successes survives a rate limit.
RecordRateLimitKeepingRun(t) ==
  /\ Success(t)
  /\ rate' = Largest(rate \div BackoffDivisor, MinRate)
  /\ clean' = 0
  /\ UNCHANGED <<tokens, elapsed, successes, sinceRecovery, allowance>>

RecordRateLimit(t) ==
  /\ Success(t)
  /\ rate' = Least(rate, Largest(rate \div BackoffDivisor, MinRate))
  /\ successes' = 0
  /\ clean' = 0
  /\ UNCHANGED <<tokens, elapsed, sinceRecovery, allowance>>

\* An error of another kind tells the limiter nothing.
OtherError(t) ==
  /\ Success(t)
  /\ UNCHANGED <<limiter, allowance, clean>>

Tick ==
  /\ elapsed' = Least(elapsed + 1, MaxTokens)
  /\ sinceRecovery' = Least(sinceRecovery + 1, RecoveryWindow + 1)
  /\ allowance' = MaxTokens
  /\ UNCHANGED <<rate, tokens, successes, pc, clean>>

Step(t) == \/ Take(t) \/ Lack(t) \/ AskWaitTime(t) \/ Wake(t)
           \/ RecordSuccess(t) \/ RecordRateLimit(t) \/ OtherError(t)

BucketNext == (\E t \in Threads : StartConsume(t) \/ Step(t)) \/ Tick

BucketSpec == BucketInit /\ [][BucketNext]_bucketVars

BucketFairness == WF_bucketVars(Tick) /\ \A t \in Threads : WF_bucketVars(Step(t))
BucketFairSpec == BucketSpec /\ BucketFairness
-----------------------------------------------------------------------------
(* Properties.                                                             *)

\* The types; the rate stays between min_rate and max_tokens and the bucket
\* between empty and full.
BucketTypeOK == /\ rate \in MinRate..MaxTokens
                /\ tokens \in 0..MaxTokens
                /\ elapsed \in 0..MaxTokens
                /\ successes \in 0..RecoveryThreshold
                /\ sinceRecovery \in 0..RecoveryWindow + 1
                /\ pc \in [Threads -> Places]
                /\ allowance \in Int
                /\ clean \in 0..RecoveryThreshold

\* However many consumers try, sleep and wake in whatever order, and however
\* the rate moves, no more requests get through than an ideal bucket of the
\* same size would let through that always fills at the highest rate there
\* can be (add_tokens and consume in one critical section).
PeakConformance == allowance >= 0

\* After a rate limit the rate is not raised again before there were enough
\* successes, all of them after it (record_rate_limit and record_success of
\* different threads).
RaiseNeedsCleanRun == [][rate' > rate => clean' >= RecoveryThreshold]_bucketVars

\* Consumers that wait for a token without a timeout do not all wait for ever:
\* time passing lets one of them through, without anybody else's help.
SomebodyIsServed ==
  (\E t \in Blocking : pc[t] \in {"trying", "waiting", "asleep"})
    ~> (\E t \in Threads : pc[t] = "sent")
=============================================================================
