-------------------------- MODULE RateLimitRecovery -------------------------
(***************************************************************************)
(* handle_rate_limit_error of src/error_recovery.py on top of the request  *)
(* queue: a caller whose call was rate limited backs off, enqueues the     *)
(* call, looks at what enqueue returned, and tries again until its         *)
(* attempts are used up.  The queue may be shut down at any moment.        *)
(*                                                                         *)
(* enqueue returns None for a request it has queued (RequestQueue), which  *)
(* the handler reads as "not enqueued", so the branch that calls           *)
(* retry_func and returns its result has no state to be taken in and is    *)
(* no action here.                                                         *)
(***************************************************************************)
EXTENDS RequestQueue

CONSTANTS Callers,      \* the threads recovering from a rate limit
          MaxAttempts   \* max_attempts

\* Each attempt of each caller is a request of the queue.
ASSUME RecoveryAssumption == /\ MaxAttempts \in Nat \ {0}
                             /\ Callers \X (1..MaxAttempts) \subseteq Requests

VARIABLES attempt,    \* the handler's attempt counter
          outcome     \* "trying", or "raised" once the handler gave up

recoveryVars == <<attempt, outcome>>
allVars == <<vars, recoveryVars>>

RInit == /\ Init
         /\ attempt = [c \in Callers |-> 1]
         /\ outcome = [c \in Callers |-> "trying"]

Current(c) == <<c, attempt[c]>>

\* The backoff is over: the call is offered to the queue, with no timeout.
Retry(c) ==
  /\ outcome[c] = "trying"
  /\ Offer(Current(c))
  /\ UNCHANGED recoveryVars

PutRetry(c) == Put(Current(c)) /\ UNCHANGED recoveryVars

Truthy(answer) == answer = "True"

\* Defect: the attempt that was put is waited for again and again.
GiveUpOrRepeatStuck(c) ==
  /\ outcome[c] = "trying"
  /\ told[Current(c)] # "pending"
  /\ UNCHANGED allVars

\* Defect: one attempt too many is left before the handler gives up.
GiveUpOrRepeatEarly(c) ==
  /\ outcome[c] = "trying"
  /\ told[Current(c)] # "pending"
  /\ outcome' = [outcome EXCEPT ![c] = "raised"]
  /\ UNCHANGED <<vars, attempt>>

\* "if not enqueued": count the attempt; past the last one, raise.
GiveUpOrRepeat(c) ==
  /\ outcome[c] = "trying"
  /\ told[Current(c)] # "pending" /\ ~Truthy(told[Current(c)])
  /\ IF attempt[c] < MaxAttempts
       THEN attempt' = [attempt EXCEPT ![c] = @ + 1] /\ UNCHANGED outcome
       ELSE outcome' = [outcome EXCEPT ![c] = "raised"] /\ UNCHANGED attempt
  /\ UNCHANGED vars

Recover(c) == Retry(c) \/ PutRetry(c) \/ GiveUpOrRepeat(c)

RNext == \/ \E c \in Callers : Recover(c)
         \/ \E w \in Workers : Work(w) /\ UNCHANGED recoveryVars
         \/ Shutdown /\ UNCHANGED recoveryVars

RSpec == RInit /\ [][RNext]_allVars

RFairness == /\ \A c \in Callers : WF_allVars(Recover(c))
             /\ \A w \in Workers : WF_allVars(Work(w) /\ UNCHANGED recoveryVars)
             /\ WF_allVars((JoinQueue \/ JoinWorkers) /\ UNCHANGED recoveryVars)

RFairSpec == RSpec /\ RFairness
-----------------------------------------------------------------------------
(* Properties.                                                             *)

AttemptsOf(c) == {c} \X (1..MaxAttempts)

RunsOf(c) == Cardinality({r \in AttemptsOf(c) : runs[r] > 0})

RTypeOK == /\ attempt \in [Callers -> 1..MaxAttempts]
           /\ outcome \in [Callers -> {"trying", "raised"}]

\* The attempts of a caller reach the queue in their order and none is skipped:
\* an attempt is offered only after every earlier one was put or turned away,
\* the caller gives up only after the last of them, and once one was turned
\* away by a queue that is shutting down no later one is queued.
AttemptsInOrder ==
  \A c \in Callers : \A k \in 1..MaxAttempts :
    /\ k < attempt[c] \/ outcome[c] = "raised"
         => caller[<<c, k>>] \in {"enqueued", "rejected"}
    /\ k > attempt[c] => caller[<<c, k>>] = "new"
    /\ caller[<<c, k>>] = "rejected" =>
         \A j \in k + 1..MaxAttempts : caller[<<c, j>>] \in {"new", "rejected"}

\* The handler's put, which has no timeout, waits for room in a full queue
\* whose workers have been told to stop.
Stranded(c) == /\ stopped /\ outcome[c] = "trying"
               /\ caller[Current(c)] = "putting"
               /\ Cardinality(queue) = MaxQueueSize

\* The handler comes to an end, unless the queue was shut down over its head:
\* nothing but a full queue that nobody empties any more keeps it for ever.
HandlerEnds ==
  \A c \in Callers : <>(outcome[c] = "raised") \/ <>[]Stranded(c)
-----------------------------------------------------------------------------
(* What the repository says and the code does not do.                      *)

\* "LLMRateLimitError: If rate limit persists after max retries" and "Result
\* from the retry_func if successful" (docstring): a caller is not told that
\* the limit persisted about a call that the queue has carried out.
RaisesOnlyIfNotRun ==
  \A c \in Callers : outcome[c] = "raised" => RunsOf(c) = 0
=============================================================================
