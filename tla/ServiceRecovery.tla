---------------------------- MODULE ServiceRecovery ---------------------------
(***************************************************************************)
(* ErrorRecoveryStrategies and ServiceHealthMonitor of                     *)
(* src/error_recovery.py around one service.  Several callers, each with   *)
(* one call of the service that has failed, recover from the failure at    *)
(* the same time: every handler notes the failure in the monitor, counts   *)
(* it in the circuit of its kind, and retries.  The monitor's thread       *)
(* probes the service meanwhile.                                           *)
(*                                                                         *)
(* The monitor's sections under its lock are one step each; what happens   *)
(* outside a lock (the look whether the service is known, a call of the    *)
(* service, the probe) is a step of its own.  Times are what is left of    *)
(* them.  Of the three circuits only that of unavailability is ever read,  *)
(* so the other two are left out, and so are the statistics.               *)
(***************************************************************************)
EXTENDS Integers

CONSTANTS Callers,           \* the threads, each with one failed call
          Cases,             \* [job, checked]: what each call failed with, and
                             \* whether the service has a health check URL
          MaxAttempts,       \* max_attempts
          BreakThreshold,    \* circuit_break_threshold of the monitor
          RecoveryTime,      \* circuit_recovery_time
          LimitTime,         \* the duration that a rate limit error names
          CircuitThreshold,  \* "threshold" of the unavailability circuit
          ResetTime          \* circuit_breaker_reset_timeout

Kinds == {"limit", "network", "unavailable", "other"}

Jobs == [kind : Kinds, fallback : BOOLEAN]

ASSUME RecoveryAssumption ==
  /\ Cases \subseteq [job : [Callers -> Jobs], checked : BOOLEAN]
  /\ MaxAttempts \in Nat \ {0} /\ BreakThreshold \in Nat \ {0}
  /\ RecoveryTime \in Nat \ {0} /\ LimitTime \in Nat \ {0}
  /\ CircuitThreshold \in Nat \ {0} /\ ResetTime \in Nat \ {0}

VARIABLES checked,    \* the service has a health check URL
          known,      \* the service is in _service_metrics
          monitor,    \* its status and metrics
          circuit,    \* the circuit of "service_unavailable"
          up,         \* the service answers (the environment)
          pc, job, attempt,  \* of each handler: its step, its error, its loop
          error,      \* the error that is being recorded
          calls,      \* calls of retry_func (history)
          switched,   \* calls of fallback_func (history)
          probe,      \* the monitor's thread: "idle", "out" or an answer
          broke       \* a break has begun or been extended during the probe
                      \* (history)

vars == <<checked, known, monitor, circuit, up, pc, job, attempt, error,
          calls, switched, probe, broke>>

\* _initialize_service_status: what a service starts with.
Fresh == [status |-> "unknown", fails |-> 0, wins |-> 0, broken |-> FALSE,
          breakLeft |-> 0, limitLeft |-> 0]

Init == /\ \E start \in Cases : checked = start.checked /\ job = start.job
        /\ known = checked
        /\ monitor = Fresh
        /\ circuit = [count |-> 0, tripped |-> FALSE, left |-> 0]
        /\ up \in BOOLEAN
        /\ pc = [c \in Callers |-> "calling"]
        /\ attempt = [c \in Callers |-> 1]
        /\ error = [c \in Callers |-> job[c].kind]
        /\ calls = [c \in Callers |-> 0]
        /\ switched = [c \in Callers |-> 0]
        /\ probe = "idle" /\ broke = FALSE

Capped(n, cap) == IF n > cap THEN cap ELSE n
Less(n) == IF n = 0 THEN 0 ELSE n - 1

\* A break is in force, a rate limit is in force.
Breaking(m) == m.broken /\ m.breakLeft > 0
Limiting(m) == m.limitLeft > 0

AfterWins(n) == IF n >= 2 THEN "healthy" ELSE "degraded"

\* A success: the run of failures ends; the status is left alone while the
\* service counts as limited, or while a break is in force.
NotedSuccess(m) ==
  LET n == Capped(m.wins + 1, 2)
  IN  [m EXCEPT !.wins = n, !.fails = 0,
                !.status = IF @ = "limited" \/ Breaking(m) THEN @ ELSE AfterWins(n)]

\* Defect: the status is left as it was below the threshold.
NotedFailureQuietly(m, kind) ==
  LET n == Capped(m.fails + 1, BreakThreshold)
      f == [m EXCEPT !.fails = n, !.wins = 0]
  IN  IF kind = "limit" THEN [f EXCEPT !.limitLeft = LimitTime, !.status = "limited"]
      ELSE IF n = BreakThreshold /\ kind # "bareLimit"
        THEN [f EXCEPT !.broken = TRUE, !.breakLeft = RecoveryTime, !.status = "unavailable"]
      ELSE f

\* A failure: a rate limit gets its end; the failure that reaches the
\* threshold breaks the circuit, or extends the break, except that a rate
\* limit noted without its time only counts.
NotedFailure(m, kind) ==
  LET n == Capped(m.fails + 1, BreakThreshold)
      f == [m EXCEPT !.fails = n, !.wins = 0]
  IN  IF kind = "limit"
        THEN [f EXCEPT !.limitLeft = LimitTime, !.status = "limited"]
      ELSE IF n = BreakThreshold /\ kind # "bareLimit"
        THEN [f EXCEPT !.broken = TRUE, !.breakLeft = RecoveryTime,
                       !.status = "unavailable"]
      ELSE [f EXCEPT !.status = "degraded"]

\* is_service_available of a service that is known.
Available(m) == ~Breaking(m) /\ ~Limiting(m) /\ m.status # "unavailable"

\* A handler records a result in the monitor; broke notes a new break.
Note(m) == /\ monitor' = m
           /\ broke' = (broke \/ (probe # "idle" /\ m.breakLeft > monitor.breakLeft))

Goto(c, step) == pc' = [pc EXCEPT ![c] = step]

\* What a step leaves alone, by the part of the state it belongs to.
Elsewhere == UNCHANGED <<checked, up, job, probe>>
MonitorSame == UNCHANGED <<known, monitor, broke>>
TallySame == UNCHANGED <<attempt, error, calls, switched>>

\* The handler has only just been entered.
Entering(c) == calls[c] = 0 /\ switched[c] = 0

\* The errors that the handler of a kind retries; anything else leaves it.  A
\* rate limit met by the general handler is noted without its time.
Retried(kind) == IF kind = "other" THEN {"other", "bareLimit"} ELSE {kind}
\* The failures of a service that is down, as far as a handler or a circuit
\* tells them apart.
Failures(kind) == Retried(kind) \cup (IF kind = "network" THEN {"unavailable"} ELSE {})
Half == MaxAttempts \div 2
-----------------------------------------------------------------------------
(* Entering a handler, and record_request_result.                          *)

\* The call fails and handle_error routes the error to its handler.
Fail(c) == /\ pc[c] = "calling" /\ Goto(c, "check")
           /\ TallySame /\ MonitorSame /\ Elsewhere /\ UNCHANGED circuit

\* "if service_name not in self._service_metrics", without the lock.
CheckKnown(c) ==
  /\ pc[c] = "check" /\ Goto(c, IF known THEN "note" ELSE "init")
  /\ TallySame /\ MonitorSame /\ Elsewhere /\ UNCHANGED circuit

\* The service is set up, whatever has been noted of it since the look.
Initialize(c) ==
  /\ pc[c] = "init" /\ Goto(c, "note")
  /\ known' = TRUE /\ Note(Fresh)
  /\ TallySame /\ Elsewhere /\ UNCHANGED circuit

\* The result is noted; the handlers with a circuit count it there next.
NoteResult(c) ==
  LET m == IF error[c] = "none" THEN NotedSuccess(monitor)
                                ELSE NotedFailure(monitor, error[c])
  IN  /\ pc[c] = "note" /\ Note(m)
      /\ \/ /\ job[c].kind \in {"network", "unavailable"}
            /\ Goto(c, "count") /\ UNCHANGED attempt
         \/ /\ job[c].kind \in {"limit", "other"} /\ error[c] = "none"
            /\ Goto(c, "returned") /\ UNCHANGED attempt
         \/ /\ job[c].kind \in {"limit", "other"} /\ error[c] # "none"
            /\ Goto(c, "retry")
            /\ attempt' = [attempt EXCEPT ![c] = IF Entering(c) THEN @ ELSE @ + 1]
      /\ Elsewhere /\ UNCHANGED <<known, circuit, error, calls, switched>>
-----------------------------------------------------------------------------
(* The circuit of unavailability, under the strategies' lock.              *)

\* A fallback called at once runs inside the lock.
LockFree == \A c \in Callers : pc[c] # "locked"

\* _update_circuit_breaker.  A tripped circuit is never tripped again, and
\* nobody calls _should_retry, which would reset it.
Counted(e) ==
  IF e = "none" THEN [circuit EXCEPT !.count = Less(@)]
  ELSE IF e # "unavailable" THEN circuit
  ELSE LET n == Capped(circuit.count + 1, CircuitThreshold)
       IN  IF n = CircuitThreshold /\ ~circuit.tripped
             THEN [count |-> n, tripped |-> TRUE, left |-> ResetTime]
             ELSE [circuit EXCEPT !.count = n]

\* Defect: the fallback waits for one failure more.
GivesWayLate(c) == job[c].kind = "unavailable" /\ job[c].fallback /\ attempt[c] > Half
\* Half of the attempts have failed and there is a fallback.
GivesWay(c) == job[c].kind = "unavailable" /\ job[c].fallback /\ attempt[c] + 1 > Half

\* The result is counted; where the handler goes from there.
Count(c) ==
  /\ pc[c] = "count" /\ LockFree
  /\ circuit' = Counted(error[c])
  /\ \/ /\ error[c] = "none" /\ Goto(c, "returned") /\ UNCHANGED attempt
     \/ /\ error[c] # "none" /\ error[c] \notin Retried(job[c].kind)
        /\ Goto(c, "raised") /\ UNCHANGED attempt
     \/ /\ error[c] \in Retried(job[c].kind) /\ Entering(c)
        /\ Goto(c, "gate") /\ UNCHANGED attempt
     \/ /\ error[c] \in Retried(job[c].kind) /\ ~Entering(c)
        /\ attempt' = [attempt EXCEPT ![c] = @ + 1]
        /\ Goto(c, IF GivesWay(c) THEN "fallback" ELSE "retry")
  /\ MonitorSame /\ Elsewhere /\ UNCHANGED <<error, calls, switched>>

\* A network error of a service known to be unavailable is raised at once;
\* behind a tripped circuit a fallback is called at once.
Gate(c) ==
  /\ pc[c] = "gate"
  /\ \/ /\ job[c].kind = "network"
        /\ Goto(c, IF Available(monitor) THEN "retry" ELSE "raised")
     \/ /\ job[c].kind = "unavailable" /\ LockFree
        /\ Goto(c, IF circuit.tripped /\ circuit.left > 0 /\ job[c].fallback
                     THEN "locked" ELSE "retry")
  /\ TallySame /\ MonitorSame /\ Elsewhere /\ UNCHANGED circuit
-----------------------------------------------------------------------------
(* The retry loops.                                                        *)

\* Defect: an attempt that was queued is not counted.
RequeueUncounted(c) ==
  /\ pc[c] = "retry" /\ job[c].kind = "limit" /\ attempt[c] <= MaxAttempts
  /\ TallySame /\ MonitorSame /\ Elsewhere /\ UNCHANGED <<circuit, pc>>

\* The backoff is over: a call that was rate limited is queued, which is
\* taken for a failed attempt (RateLimitRecovery).
Requeue(c) ==
  /\ pc[c] = "retry" /\ job[c].kind = "limit" /\ attempt[c] <= MaxAttempts
  /\ attempt' = [attempt EXCEPT ![c] = @ + 1]
  /\ MonitorSame /\ Elsewhere /\ UNCHANGED <<circuit, pc, error, calls, switched>>

\* The backoff is over: what a handler does before its next call.
Retry(c) ==
  /\ pc[c] = "retry" /\ job[c].kind # "limit" /\ attempt[c] <= MaxAttempts
  /\ Goto(c, IF job[c].kind = "unavailable" THEN "look"
             ELSE IF job[c].kind = "network" /\ attempt[c] > 1 THEN "ping"
             ELSE "call")
  /\ TallySame /\ MonitorSame /\ Elsewhere /\ UNCHANGED circuit

\* The attempts are over; the handlers of a network error and of a rate limit
\* have no fallback.
GiveUp(c) ==
  /\ pc[c] = "retry" /\ attempt[c] > MaxAttempts
  /\ Goto(c, IF job[c].fallback /\ job[c].kind \in {"unavailable", "other"}
               THEN "fallback" ELSE "raised")
  /\ TallySame /\ MonitorSame /\ Elsewhere /\ UNCHANGED circuit

\* A check of the network before a second attempt: its answer is ignored, but
\* an error status is raised, through the handler.
Ping(c) ==
  /\ pc[c] = "ping" /\ \E next \in {"call", "raised"} : Goto(c, next)
  /\ TallySame /\ MonitorSame /\ Elsewhere /\ UNCHANGED circuit

\* A fallback replaces the retries of a service that is still down.
Look(c) ==
  /\ pc[c] = "look"
  /\ Goto(c, IF ~Available(monitor) /\ job[c].fallback /\ attempt[c] >= Half
               THEN "switch" ELSE "call")
  /\ TallySame /\ MonitorSame /\ Elsewhere /\ UNCHANGED circuit

\* retry_func: a service that is up answers; the request itself may be wrong.
Call(c) ==
  /\ pc[c] = "call" /\ calls' = [calls EXCEPT ![c] = @ + 1]
  /\ \E e \in {"fatal"} \cup IF up THEN {"none"} ELSE Failures(job[c].kind) :
       /\ error' = [error EXCEPT ![c] = e]
       /\ Goto(c, IF e \in {"none"} \cup Retried(job[c].kind) THEN "check"
                  ELSE IF job[c].kind = "other" THEN "raised" ELSE "count")
  /\ MonitorSame /\ Elsewhere /\ UNCHANGED <<circuit, attempt, switched>>

\* The fallback inside the try block: a failure of its own that looks like
\* the service's is noted as the service's.
Switch(c) ==
  /\ pc[c] = "switch" /\ switched' = [switched EXCEPT ![c] = @ + 1]
  /\ \/ Goto(c, "returned") /\ UNCHANGED error
     \/ Goto(c, "check") /\ error' = [error EXCEPT ![c] = "unavailable"]
     \/ Goto(c, "raised") /\ UNCHANGED error
  /\ MonitorSame /\ Elsewhere /\ UNCHANGED <<circuit, attempt, calls>>

\* The last fallback, and the one at once, whatever comes of them.
Fallback(c) ==
  /\ pc[c] \in {"fallback", "locked"}
  /\ switched' = [switched EXCEPT ![c] = @ + 1]
  /\ \E end \in {"returned", "raised"} : Goto(c, end)
  /\ MonitorSame /\ Elsewhere /\ UNCHANGED <<circuit, attempt, error, calls>>

Handle(c) == \/ CheckKnown(c) \/ Initialize(c) \/ NoteResult(c) \/ Count(c) \/ Gate(c)
             \/ Requeue(c) \/ Retry(c) \/ GiveUp(c) \/ Ping(c) \/ Look(c) \/ Call(c)
             \/ Switch(c) \/ Fallback(c)
-----------------------------------------------------------------------------
(* The monitor's thread, register_service, time and the service.           *)

HandlersSame == UNCHANGED <<checked, pc, job, attempt, error, calls, switched>>

\* Defect: a probe goes out during a break.
StartProbeAlways ==
  /\ checked /\ probe = "idle" /\ probe' = "out"
  /\ HandlersSame /\ UNCHANGED <<known, monitor, circuit, up, broke>>

\* Defect: a broken circuit keeps the probes back for good.
StartProbeUnbroken ==
  /\ checked /\ probe = "idle" /\ ~monitor.broken /\ ~Limiting(monitor)
  /\ probe' = "out"
  /\ HandlersSame /\ UNCHANGED <<known, monitor, circuit, up, broke>>

\* _check_service_health up to the request: not during a break or a limit.
StartProbe ==
  /\ checked /\ probe = "idle" /\ ~Breaking(monitor) /\ ~Limiting(monitor)
  /\ probe' = "out"
  /\ HandlersSame /\ UNCHANGED <<known, monitor, circuit, up, broke>>

\* The request: an error status leaves perform_health_check as an exception
\* and nothing is noted.
ProbeAnswers ==
  /\ probe = "out"
  /\ probe' \in IF up THEN {"ok"} ELSE {"failed", "idle"}
  /\ broke' = (broke /\ probe' # "idle")
  /\ HandlersSame /\ UNCHANGED <<known, monitor, circuit, up>>

ProbedOk(m) ==
  LET n == Capped(m.wins + 1, 2)
  IN  [m EXCEPT !.wins = n, !.fails = 0, !.broken = FALSE, !.breakLeft = 0,
                !.status = IF @ = "limited" /\ Limiting(m) THEN @ ELSE AfterWins(n)]

\* The answer is applied to whatever the metrics have become since.
ApplyProbe ==
  /\ probe \in {"ok", "failed"} /\ probe' = "idle"
  /\ monitor' = IF probe = "ok" THEN ProbedOk(monitor) ELSE NotedFailure(monitor, "probe")
  /\ broke' = FALSE
  /\ HandlersSame /\ UNCHANGED <<known, circuit, up>>

\* register_service starts the service's record afresh.
Register ==
  /\ known' = TRUE /\ Note(Fresh)
  /\ HandlersSame /\ UNCHANGED <<circuit, up, probe>>

\* Time passes.
Tick ==
  /\ monitor.breakLeft > 0 \/ monitor.limitLeft > 0 \/ circuit.left > 0
  /\ monitor' = [monitor EXCEPT !.breakLeft = Less(@), !.limitLeft = Less(@)]
  /\ circuit' = [circuit EXCEPT !.left = Less(@)]
  /\ HandlersSame /\ UNCHANGED <<known, up, probe, broke>>

Flip == /\ up' = ~up
        /\ HandlersSame /\ UNCHANGED <<known, monitor, circuit, probe, broke>>

Probe == StartProbe \/ ProbeAnswers \/ ApplyProbe

Next == \/ \E c \in Callers : Fail(c) \/ Handle(c)
        \/ Probe \/ Register \/ Tick \/ Flip

Spec == Init /\ [][Next]_vars

\* Threads run and time passes; calls need not fail and services not change.
Fairness == /\ \A c \in Callers : WF_vars(Handle(c))
            /\ WF_vars(Probe) /\ WF_vars(Tick)

FairSpec == Spec /\ Fairness
-----------------------------------------------------------------------------
(* Properties.                                                             *)

Errors == Kinds \cup {"none", "bareLimit", "fatal"}

Statuses == {"unknown", "healthy", "degraded", "limited", "unavailable"}

Monitors == [status : Statuses, fails : 0..BreakThreshold, wins : 0..2,
             broken : BOOLEAN, breakLeft : 0..RecoveryTime, limitLeft : 0..LimitTime]

TypeOK ==
  /\ checked \in BOOLEAN /\ known \in BOOLEAN /\ up \in BOOLEAN
  /\ monitor \in Monitors
  /\ circuit \in [count : 0..CircuitThreshold, tripped : BOOLEAN, left : 0..ResetTime]
  /\ pc \in [Callers -> {"calling", "check", "init", "note", "count", "gate", "retry",
                          "ping", "look", "call", "switch", "fallback", "locked",
                          "returned", "raised"}]
  /\ job \in [Callers -> Jobs]
  /\ attempt \in [Callers -> 1..MaxAttempts + 1]
  /\ error \in [Callers -> Errors]
  /\ calls \in [Callers -> 0..MaxAttempts] /\ switched \in [Callers -> 0..2]
  /\ probe \in {"idle", "out", "ok", "failed"} /\ broke \in BOOLEAN

\* The status agrees with the metrics, whoever noted what in which order: a
\* healthy service has answered twice since it last failed, a service is
\* unavailable only while its circuit is broken, and is unknown only while
\* nothing has been noted of it.
StatusAgrees ==
  /\ monitor.status = "healthy" => monitor.wins = 2 /\ monitor.fails = 0
  /\ monitor.status = "unavailable" => monitor.broken
  /\ monitor.status = "unknown" => monitor = Fresh

\* What a failed call costs: no handler calls the service more than
\* max_attempts times, one with a fallback no more than half of that (and
\* once at least); a rate limited call is not called by its handler at all; a
\* fallback is called once, or twice if it failed as the service did.
RetryBudget ==
  \A c \in Callers :
    /\ job[c].kind = "limit" => calls[c] = 0
    /\ job[c].kind = "unavailable" /\ job[c].fallback
         => calls[c] <= IF Half = 0 THEN 1 ELSE Half
    /\ calls[c] <= MaxAttempts
    /\ switched[c] <= IF job[c].kind = "unavailable" THEN 2 ELSE 1
    /\ ~job[c].fallback => switched[c] = 0

\* The service is registered anew, by no handler; a handler that had looked
\* before the service was known sets it up.
Registered == monitor' = Fresh /\ pc' = pc
SetUpLate == \E c \in Callers : pc[c] = "init" /\ pc'[c] = "note"

\* A break lasts for its time whatever results the callers note: it ends early
\* only if the service is registered again, if a probe that was already out
\* when the break began, or was extended, comes back with an answer, or if a
\* handler still believes the service unknown and sets it up over what has
\* been noted meanwhile, which cannot happen to a service that is registered
\* before its first call.
BreaksLast ==
  [][Breaking(monitor) /\ ~monitor'.broken
       => Registered \/ (probe = "ok" /\ broke) \/ (~checked /\ SetUpLate)]_vars

\* Every handler comes to an end, whatever the service does.
HandlerEnds ==
  \A c \in Callers : (pc[c] = "check") ~> (pc[c] \in {"returned", "raised"})

\* A service with a health check that stays up ends up available.
Recovers == (checked /\ <>[]up) => <>[]Available(monitor)
-----------------------------------------------------------------------------
(* What the repository says and the code does not do.                      *)

\* "circuit_breaker_reset_timeout: Time before resetting a circuit breaker":
\* a tripped circuit is reset.
TrippedCircuitResets == circuit.tripped ~> ~circuit.tripped

\* "circuit_recovery_time: Time to wait before trying a broken service
\* again": a network error is not refused its retries after that time.
TriedAgainAfterBreak ==
  [][\A c \in Callers : pc[c] = "gate" /\ job[c].kind = "network" /\ pc'[c] = "raised"
       => Breaking(monitor) \/ Limiting(monitor)]_vars
=============================================================================
