# Verification of the KFM agent's runtime

This directory models the parts of the repository whose correctness depends on order: what happens between two lock
acquisitions, between two writes to disk, between two nodes of the agent's graph, or when one step of several fails.
`TLC` checks the models on small instances; `TLAPS` proves their safety properties for every value of the constants.

1. [The system](#the-system): parts, state, operations, interactions, hard behaviours
2. [The modules](#the-modules): how each corresponds to the code
3. [The runs](#the-runs): what each checks, its bounds, what it shows
4. [Fairness](#fairness)
5. [The proofs](#the-proofs)
6. [What the code does differently](#what-the-code-does-differently)
7. [What is not modelled](#what-is-not-modelled)
8. [Plan](#plan)

To check: `tlc -config <run>.cfg <module>.tla` for a run, `tlapm <Name>Proofs.tla` for the proofs.

## The system

The KFM agent observes software components, asks an LLM planner whether to *Kill*, *Fuck* (use for now) or *Marry*
(adopt) one of them, executes the decision, and keeps snapshots so that a Fuck can be undone. Around that core stand a
resilience layer for the LLM calls and a large set of developer tools.

| Part | State | Operations | Hard behaviours |
|---|---|---|---|
| **Circuit breaker** `retry_strategy.py` | state, failure count, time of the last failure, half-open calls, metrics; a lock | `state` (lazy OPEN to HALF_OPEN), `allow_request`, `record_success`, `record_failure`, `reset`; callers in `circuit_wrapped` | the lock is released between reading the state and claiming a slot; late results; recovery that needs somebody to look |
| **Token bucket** `error_recovery.py` | rate, tokens, time of the refill and of the last raise, successes; a lock | `consume`, `acquire`, `get_wait_time`, `record_success`, `record_rate_limit` | sleepers in competition, a rate that moves while they sleep, lazy refill |
| **Request queue** `error_recovery.py` | priority queue with its unfinished count, two counters, stop event, workers | `enqueue`, `_worker_loop`, `shutdown` | several workers and callers, a full queue, shutdown racing all of them |
| **Rate-limit recovery** `error_recovery.py` | attempts of each caller | `handle_rate_limit_error` | retries of work that is already queued |
| **Snapshot storage** `core/reversibility/file_snapshot_storage.py` | chunk files, manifests, reference counts in memory and in a file | store, delete, collect, read | failing and half-done writes, death of the process, shared chunks |
| **Snapshot service** `core/reversibility/snapshot_service.py` | none of its own | `take_snapshot`, `load_snapshot_agent_state_data` | each may fail on its own |
| **Reversal manager** `core/reversibility/reversal_manager.py` | none of its own | `revert_to_snapshot`, `identify_pre_fuck_action_snapshot_id`, `revert_last_fuck_action` | must choose among snapshots of several runs; restarts the agent with an old decision in its state |
| **Lifecycle controller** `core/agent_lifecycle_controller.py` | graph, run configuration, next state | `start_new_run`, `stop_current_run` | runs overlap; every run executes the graph twice |
| **Agent graph** `langgraph_nodes.py`, `kfm_agent.py` | decision, error, done | monitor, decide, execute, fallback, reflect, and the routing between them | an error or exception in any step, state copied and rewritten by each node |
| **Execution engine** `core/execution_engine.py` | active component | `apply_kfm_action`, `execute` | driven by every run at once |
| **Component registry** `core/component_registry.py` | modules by version, default, listeners; a re-entrant lock | register, deregister one or all versions, set default | listeners called under the lock that change the registry; exceptions half way |
| **Module loading** `core/discovery.py`, `dependency_resolver.py`, `module_orchestrator.py` | cache of module metadata, the order to load in | discover, resolve, load | files that change while they are read; versions; loads that fail |
| **Service health monitor** `error_recovery.py` | status and metrics per service, a probing thread | record a result, availability, probe, register | callers, probe and registration in any order, a look outside the lock |
| **Error recovery strategies** `error_recovery.py` | one circuit per kind of error | `handle_error` and a handler per kind | handlers of several callers side by side, retries, fallbacks inside and outside a lock |
| **Execution recovery** `recovery.py`, `tracing.py` | checkpoints, policies, retry counts | run with recovery, resume, handle an error | two counts of retries, states shared with a checkpoint, nodes half way |
| **Debugging session** `debugging.py` | breakpoints and their file, the session's position | change breakpoints, step, run, step back | a file rewritten in place, a history that others write |

How they interact:

* The *planner's* calls go through the retry decorators and the circuit breaker. `ErrorRecoveryManager` owns a breaker
  per error type, the request queue and the health monitor; the queue's workers draw tokens from the bucket and run the
  callers' callbacks.
* `start_new_run` hands a state to the *graph*; its nodes call the snapshot service (up to five times a round), the
  planner, and the engine. The service writes through the storage; nothing else shares its files.
* A failed call goes to `handle_error`, which notes it in the *health monitor* and the circuit of its kind, retries it,
  queues it (rate limits), or calls a fallback; the monitor's thread probes services meanwhile.
* *Discovery* feeds the resolver, the resolver the orchestrator. The *registry* tells its listeners of every change.
* The *recovery manager* puts checkpoints into the tracker of `tracing.py`; a *debugging session* steps back over the
  outputs recorded there.
* The *reversal manager* looks through the storage's manifests, loads a state, tells the controller to stop the current
  run and to start another with the restored state. It and all runs share one event loop, one store and one engine.

What must hold, part by part: the breaker's state and count agree, a recovery test stays within its budget and an outage
ends; the bucket never lets through more than its rate; the queue loses nothing, runs nothing twice, and its counters
balance; the store keeps readable what it has stored; whatever the engine is given was vetted, a Fuck can be found by a
reversal, a reversal finds the right one, and an error is not lost on the way; the registry's default is registered; modules
load after what they need; a service's status is what its results say, a break lasts and ends; a run with recovery accounts
for every node, and its checkpoint stays as it was until it is handed out; a breakpoint stops the session.

Every other source file is listed in `PROJECT.json` under `components` with the reason it is left out.

## The modules

`BreakerPromise`, `SnapshotPromise` and `RunPromise` are abstract specifications; `X` is a component, `MCX` its instance for TLC,
`XProofs` its theorems
(`RateLimitProofs` has those of the queue, its handler and the bucket, `CoreProofs` those of the registry and of module
loading). An operator whose comment begins with *Defect:* is a plausible mistake in the code next to it; no
specification uses it.

```
BreakerPromise  <=  CircuitBreaker        SnapshotPromise  <=  SnapshotStore         RunPromise  <=  AgentRuns
RequestQueue    <-  RateLimitRecovery     TokenBucket          ServiceRecovery
ComponentRegistry   ModuleLoading         ExecutionRecovery    DebugSession
```
(`<=` is implemented by, `<-` is extended by.)

### CircuitBreaker

Variables `state`, `failures`, `halfOpenCalls`, `circuitBreaks` are the object's fields, `age` is
`time.time() - _last_failure_time`; `pc` is where each caller is in `circuit_wrapped`. A step is one critical section.
`allow_request` has two of them, so a caller that has read HALF_OPEN stands at `slot` until it claims one, with the state
free to change meanwhile; the same for the second `allow_request` that `_check_circuit_breaker` makes after a failure
(`gate`, `gateSlot`). `probes` and `wins` are history: slots granted and successes recorded since the circuit turned
half-open. `age` stops one second past the timeout and `failures` at a cap above the threshold; nothing in the code tells
larger values apart. A call is one step however often tenacity tries it: the check of the circuit that `circuit_wrapped` means
to make between two tries hangs on an attribute `kwargs` of tenacity's decorator, and an error while it is attached is passed
over (lines 671-697), so the model leaves it out.

`BreakerPromise` keeps only mode, probes and evidence: open is left only by a test or an operator, a test admits a bounded
number of probes, and closes only on the evidence of a success. The refinement maps `mode` to `state` and `proven` to
`wins > 0`.

### TokenBucket

`rate`, `tokens`, `successes` are fields; `elapsed` and `sinceRecovery` are ticks since the two time stamps. `consume`
holds the lock once per try and sleeps in between: `trying`, `waiting`, `asleep`, `sent`. Rates and amounts are whole
numbers per tick where the code has floats; the cap on `elapsed` is exact because a bucket left alone that long is full.
`allowance` is history: an ideal bucket that always fills at the peak rate and is charged for every request let through.

### RequestQueue and RateLimitRecovery

A step is one critical section of `PriorityQueue`'s lock or of the manager's. Callers go `new`, `putting`, `enqueued` (or
`full`, `rejected`); a worker goes round `loop`, `get`, `took`, `token`, `run`, `ran`, `ack`. `phase` is how far `shutdown`
has got. `Queue.put` answers `None`, so the branch of `enqueue` that counts a request and returns `True` is not there to
be modelled: `told` is `"None"`, and `queuedCount` goes below zero as the code's does. Waiting for a token is a step that
ends; `TokenBucket` is where that is shown. `RateLimitRecovery` extends the queue with callers that offer one request per
attempt and look at what `enqueue` told them. The queue may be shut down under them: an attempt offered after that is turned
away, and a put that waits for room may wait for ever (`Stranded`).

### SnapshotStore

No operation of `FileSnapshotStorage` suspends, so operations do not interleave; what comes between two writes is a failure
or the death of the process, and a step is one write. `chunkFile`, `manifest`, `countFile` are the disk, `counts` is
`_ref_counts`, `phase`, `id`, `data`, `done`, `orphans` are the locals of the operation under way. The constant `Faults`
says what may go wrong, down to dying between the manifest and its counts. `tainted` is history: a store was cut short.

A deletion is its request, the removal of the manifest and the saving of the counts, any of which may fail or be cut short.

`SnapshotPromise` has two variables: what reading each name gives, and the request being served. A readable name keeps its
content until its own deletion is asked for, an unreadable one becomes readable only by the storing of that content under that
name, and a collection or a crash changes nothing that can be read. The refinement maps `readable` to `Reading`, which is
`get_snapshot_data` (every chunk is there and whole, or nothing), and `asked` to `Asked`: a store from its first chunk to the
saved counts, a deletion from its request to the saved counts, and no request otherwise.

### AgentRuns

A *task* is a request: a start of the agent or a reversal. Its variables are what a run has of its own: the node about to
run (`pc`), which of the two executions of the graph it is in (`pass`: `_execute_run_internal` runs the graph once for its
events and once more for its result, so a decided action is applied twice), the graph's `state` (decision, error, done),
the snapshot it started from (`entry`) and the rounds made (`loops`). `saved` and `tagged` are the store's snapshots and
those tagged `is_fuck_action_pre_snapshot`, `active` is the engine's component. `planned`, `untagged` are history.

A node is one step. Each snapshot it takes may be refused; each node's copy of the state and what it returns are followed
exactly, which is where the node's differences lie: monitor puts a refused snapshot into `error`, decide does so if the service raised and only warns if it answered `None`, execute
only logs it; decide's result after a planner exception has the rejected decision but not the error, its snapshot has both;
execute reads an attribute the engine's dict does not have, so it always ends in the exception branch, with the action
applied. `should_fallback` is `Vetted`: it looks at the decision, not at `error`.

`assembly` is the edge after reflect: the graph of `kfm_agent.py` ends there, that of the end-to-end test goes back to
monitor unless the run is done or has an error. LangGraph's limit on steps is `MaxLoops` rounds.

Snapshots carry their flow (`original_correlation_id`), which a reversal's run inherits. A confidence is `low` or `high`,
which is all `should_fallback` asks.

`RunPromise` knows neither nodes nor edges nor snapshots. A request waits, runs or is answered; it has two executions; an
execution has room for one decision, which must be fit, and nothing but such a decision changes the active component; an
execution that has failed stays failed, and the answer is no success then. The refinement maps a request's stage to `pc`
(`Stages`), its execution to `pass` (`Executions`), the decision chosen to the run's decision while it is at execute
(`Choices`), failure to the run's `error` (`Failures`), what is fit to `Vetted`, and room to whether the run can still reach
execute: it cannot at reflect when the graph does not go back (`Rooms`). So a graph that goes back after it has
applied something breaks the promise.

### ServiceRecovery

`monitor` is a service's entry in `ServiceHealthMonitor` (status, runs of failures and successes, what is left of a break and
of a rate limit), `circuit` the circuit of unavailability; of the strategies' three circuits only that one is ever read. Each
caller is a handler of `ErrorRecoveryStrategies` with a call that has failed: `pc`, `attempt`, `error` are its place, its loop
and the error being recorded; `calls` and `switched` are history. A section under the monitor's lock is a step; the look
whether a service is known, a call of the service, a network check and a fallback are steps between them. A fallback called
behind a tripped circuit runs *inside* the strategies' lock (`locked`), which stops the other handlers. `probe` is the
monitor's thread: out, then back with an answer that is applied to whatever the monitor holds by then. The rate-limit
handler's queueing is `RateLimitRecovery`'s; here it is a failed attempt. A rate limit noted without its time (`bareLimit`)
counts and degrades the service, and never breaks its circuit.

### ComponentRegistry

`modules`, `families`, `default` are `_modules` (versions, and names that have a dictionary) and `_default_module_key`;
`owner` and `depth` are the re-entrant lock. An operation is two steps, before and after its listeners; in between the owner
may begin another. `frames` is the stack of operations under way. `mirror` is a listener that believes the events it is
told; `nested`, `escaped` are history.

### ModuleLoading

`disk` holds what each file has and when it changed; anybody may change it between any two steps. Discovery looks at a file's
time (`Stat`), reads it (`Read`), and looks at its time again when it caches it (`Store`); `raced` marks, as history, an entry
whose file had changed between the two. Every change is taken to set a later time than all before it: discovery compares with
`<=`, so a change that keeps a file's time, or sets an older one, is one it cannot see, and `CacheHonest` does not speak of it. The resolver is called with what was found or with a catalogue of several versions;
`Best`, `Missing`, `Acyclic` are its choices, and Kahn's sort is one module a step (`ready`, `sorted`). A load may fail.

### ExecutionRecovery

The nodes of a graph run in order on one state, of which is kept what each node made of its part, the node named in the error
fields, and whether a value cannot be written as JSON. `policy` is each node's `RecoveryPolicy`; `tries` is the loop's count,
`counter` the manager's. `alias` says that the current state is the checkpoint's own dictionary, as after a rollback:
`Written` then changes both, `Becomes` parts them. Three answers to a failure may write where the state stands: a rollback (the
error fields), a custom handler, and a fallback function that answers with the very state it was given; every other branch
makes a copy. `CheckpointMarks` says what the checkpoint can hold for that reason, and nothing else. `Try` is a call of the node with the recording of its outcome; `Handle` is
`handle_error` with everything the loop does with its answer, one operator per branch. A resumption has a fresh manager
without policies. A restart keeps the checkpoint's file.

### DebugSession

`bps` and `file` are the manager's breakpoints and `breakpoints.json`; a save may leave the file as it was, or torn, and tells
nobody (`stale`). The rest are the locals of `step_through_execution_with_history`. `Visit` looks for a breakpoint, counts the
hit and asks the handler or goes on; `Command` is each of its answers; `history` is what runs with recovery have recorded.

## The runs

A passing run takes under two minutes with two TLC workers. The run marked *violated* checks one property that the repository
states and the code does not keep; TLC's trace is the evidence.

| Run | Module | States | Shows |
|---|---|---|---|
| `breaker` | CircuitBreaker | 17,313 | `ClosedBelowThreshold`, `ProbeBudget`, `LateFailuresDoNotExtendOutage`, refinement `KeepsPromise`, liveness `OutageEnds` |
| `bucket` | TokenBucket | 8,366 | `PeakConformance`, `RaiseNeedsCleanRun`, liveness `SomebodyIsServed` |
| `queue` | MCRequestQueue | 52,538 | `UnfinishedLedger`, `ExactlyOnce`, `JoinMeansDrained`, liveness `PutRequestsRun` |
| `queue_shutdown_hangs` | MCRequestQueue | | *violated* `ShutdownReturns` |
| `recovery_handler` | MCRateLimitRecovery | 27,417 | `AttemptsInOrder`, liveness `HandlerEnds` |
| `services` | MCServiceRecovery | 234,628 | `StatusAgrees`, `RetryBudget`, `BreaksLast`, liveness `HandlerEnds`, `Recovers` |
| `snapshot_store` | MCSnapshotStore | 37,458 | `CountsCoverReferences`, `LedgerExact`, refinement `KeepsSnapshots` |
| `agent` | MCAgentRuns | 350,898 | refinement `KeepsPromise`, `FucksAreReversible`, `ErrorsSurface`, `RevertsOwnFuck`, liveness `Answered` |
| `registry` | MCComponentRegistry | 50,000 | `DefaultRegistered`, `FamiliesNonEmpty`, `EventsTellAll` |
| `modules` | MCModuleLoading | 1,100,000 | `CacheHonest`, `ResolvesExactly`, `OrderRespected` |
| `execution` | MCExecutionRecovery | 1,155,168 | `Accounted`, `CheckpointMarks`, `LastErrorTold`, liveness `RunEnds` |
| `debug` | MCDebugSession | 8,870,000 | `BreaksHonoured`, `OnceEach`, `FileHonest` |

Each module states its type invariant `TypeOK` (`BucketTypeOK`, `LoadingTypeOK` where two modules meet in one of the proof modules). All
are proved, and each is part of the inductive invariant of the other theorems about its module.

Bounds and why they are enough:

* `breaker`: three callers (one to read HALF_OPEN, one whose probe fails, one more to spend slots), threshold 2 and two
  slots so that one failure or success is not the verdict, a timeout of one second. Only the callers and the history are
  unbounded in the code; the safety properties are proved for all values.
* `bucket`: two consumers, one that blocks and one that gives up; two tokens a request, a bucket of four, rates from one to
  four, so that a request may have to wait for two ticks, and a raise and a cut both change the outcome.
* `queue`: three requests of two priorities over room for one, so that two callers wait for room; one has a put timeout;
  two workers, so that the counters' sections interleave; shutdown with or without waiting, at any moment. The two-slot,
  one-worker instance of `queue_shutdown_hangs` is the smallest with a request left behind.
* `recovery_handler`: two callers of two attempts over room for two, so that a caller's second attempt meets the other's, and a
  shutdown at any moment, so that an attempt may be turned away or its put stranded before a full queue.
* `snapshot_store`: two names and two chunks; contents that share a chunk and one that repeats it; counts up to four, the
  most two snapshots of two places need. Every fault but the two that lose counts.
* `agent`: one start and one reversal, overlapping in any way, with a reversal asked by name, for the run's flow, or for a
  flow that never ran; one snapshot refused at any place; the planner decides a Fuck with confidence, without it, or with
  an error beside it, or raises; two tagged snapshots, so that the newest must be chosen; two rounds before the step
  limit, so that a rejected decision is followed by another. Runs of several starts and reversals are covered by the
  proofs.
* `services`: two handlers at a time in three pairs, so that every kind meets another one and a service that nobody probes;
  two attempts, thresholds of two, and breaks and limits of one tick, so that one of each can pass, be extended, or end
  during a handler.
* `registry`: two threads, two names, one in two versions, and an operation inside an operation. Deeper nesting is covered by
  the proofs.
* `modules`: two files, six metadata records with a missing dependency, a cycle, two versions of one name and a module
  with two dependencies; two changes of files, one of which may fall between the steps of the other's reading.
* `execution`: three nodes, so that one lies on either side of the one that fails; the second writes in place, the first's
  result may be one JSON cannot write; one retry, and two runs or resumptions. Each node has one of eight policies, all
  assignments.
* `debug`: three nodes, two breakpoints, one condition; one session, three changes or restarts, two steps back.

`CHECK_DEADLOCK FALSE` is set for the queue and its handler (the manager may be shut down and everybody gone, or stranded) and for the agent (its requests run
out).

## Fairness

* `breaker`: the clock advances, and every caller goes on: a call made by an HTTP client with a timeout ends. Callers keep
  asking; the transition out of OPEN is lazy and needs that. Nobody promises a `reset`.
* `bucket`: the clock advances and every thread runs. A wake-up from `sleep` is a step of its thread.
* `queue`: workers and callers that can run do run, callbacks end, tokens come. Strictly weak fairness: no thread is
  promised the lock or the queue's free slot ahead of another. Nothing promises that `enqueue` or `shutdown` is called.
* `recovery_handler`: the same, a handler's backoff sleep ends, and a shutdown once called goes on as far as it can. `HandlerEnds`
  holds without a proviso about shutdown except the one it names: a handler that does not end is stranded for ever at a full
  queue whose workers have been told to stop.
* `agent`: a run once begun is driven on by the event loop (`WF(Proceed)`); nothing promises a request. The planner and
  the store answer or raise: their clients have timeouts.
* `services`: handlers run, the monitor's thread probes, time passes; calls and probes end. Nothing promises that a call fails,
  that the service changes or stays up, or that it is registered again.
* `execution`: one thread runs the loop (`WF(Run)`) and nodes return or raise. Nothing promises a run or a resumption.
* `snapshot_store`, `registry`, `modules` and `debug` state no liveness: nobody retries a failed store, the registry's and the
  loader's operations are calls that end, and a session waits for a person.

## The proofs

Every safety property of the passing runs, invariant or action property, is proved for every value of the constants, and so
are the three refinements. Each inductive invariant was checked by TLC on the component's run before it was proved. The
assumptions are the named ASSUMEs beside the constants, which TLC evaluates in the runs; two theorems of the store have one
hypothesis more.

**CircuitBreakerProofs.** `ProbeBudget` is not inductive: a slot claimed while nothing ties the counter to the probes could
exceed it. The invariant adds `SlotInv`: in HALF_OPEN, `halfOpenCalls = probes + wins` and it does not pass
`HalfOpenMaxCalls`; a success that reaches the ceiling closes the circuit in the same step, which is what keeps it there.
With it: `ThresholdCorrect`, `ProbesBounded`, `LateFailuresHarmless`, and `RefinesPromise`, by showing that every step maps
to a step of `BreakerPromise` or a stutter.

**RateLimitProofs.** *The bucket*: `PeakConformance` needs `Covered`: right after a refill the bucket holds no more than the
ideal one, and once time has passed the ideal one is full. `RaiseNeedsCleanRun` needs that the limiter's own count is never
more than the history's.

*The queue*: the ledgers count workers by place. `Regroup` says what a single worker's move does to the cardinality of a group
of places; `HoldingInv` ties a held request to the busy places; `ExactlyOnce` is inductive with them. `JoinIsComplete`
follows: at unfinished = 0 the ledger leaves no request queued or held, and `ExactlyOnce` says that each that was put has run.

*The handler over it*: `RecoveryUsesQueue` shows that every step of the handlers is a step of the queue or none, so what is
proved of the queue holds with them; the constants' only tie is that a caller's attempts are among the requests.
`AttemptsAreOrdered` is inductive with the types and with `Answered`: every attempt that came back was put or turned away, since
the handler's puts have no timeout and `enqueue` answers `None` or `False`; an attempt was turned away only by a queue that is
stopped, and a stopped queue takes none. With `ExactlyOnce` that gives `OneCallRunsEveryAttempt`: when the queue owes nothing any
more, a call that its handler gave up has run once for each attempt that was not turned away, the cost of `RaisesOnlyIfNotRun`
below put as a theorem.

**ServiceRecoveryProofs.** Any number of handlers, attempts and thresholds. What a handler may cost is not inductive: a call
just made is recorded before the attempt is counted, and a fallback called inside the loop's `try` block may come twice.
`HandlersSound` therefore ties what was called to the attempt *and* the place: in the loop the attempts before this one were
calls (`Looped`); while a result is recorded each attempt was a call or a switch (`Recorded`); and a handler gets only to the
steps of its kind (`Routed`). `StatusIsHonest` is inductive with the types; `BreaksRunTheirTime` needs `BreaksKnown`, that a break
in force while a probe is out has begun, or been extended, since the probe went out, and `SetUpOnce`, that a handler sets up
only a service that was not registered before the calls. So a break ends early by a registration, by such a probe, or by a
handler that still takes the service for unknown and sets it up over what was noted meanwhile; never by a result that a caller notes.

**SnapshotStoreProofs.** `CountsCover` and `RefinesPromise` are proved under `CountsAreKept`, that is, for every set of faults
without the two that lose counts; with either of them they are false. The invariant
needs the count file to cover the references except between a manifest and its save (`FileCovers`), since a restart brings
the file's counts back, and that no manifest names a missing chunk (`NothingMissing`). `LedgerIsExact` is the same argument
with equality as long as no store was cut short.

**AgentRunsProofs.** A decision can reach the engine from the planner, from a snapshot a reversal restores, from the snapshot
a second execution starts from, or from a state a failed node passed on. `FucksAreReversible` therefore needs an invariant
over all the places a decision can be (`CoveredInv`): the states of runs, their entry snapshots, and the whole store; tagged
snapshots only grow, so what is covered stays covered (`CoverGrows`). `RevertsCorrectly` needs that every tagged snapshot is
clean (a Fuck, no error, not done) and that a task that has not begun has no entry. `VettedOnly` needs that a run at execute
holds a vetted decision (`OnlyVettedActions` has no run of its own: the refinement that `agent` checks says as much and more, except that it does
not tell a run at execute without a decision from one that has chosen nothing);
`ErrorsAreKept` that a run has not answered before it ends. The step lemmas have one case per action;
`Elsewhere` says once that a step leaves other tasks alone.
`RefinesPromise` maps every step to a step of `RunPromise` or a stutter. It needs `VettedInv`, that what is at execute is
fit, and `NotFailedBefore`, that a run which has not begun has no error. The step that carries it is execute's: the exception
it always handles sets `done` and `error`, so the looping graph does not go back and the execution applies nothing more.
`SeenElsewhere` says once that the promise's view of the other requests stays.

**CoreProofs.** *The registry*, for any depth of operations within operations. `DefaultRegistered` is inductive with the
typing of the stack, since an operation that removes is found on it for as long as it matters (`Removing`);
`EventsAreComplete` needs `MirrorLags`: without nested changes there is one operation at most, and the mirror lags by just
what it did. `ConsistentAtRest` says what both come to once the lock is free.

*Module loading*, for any files, metadata and catalogues. `CacheIsHonest` needs that no time stamp lies in the future
(`TimesPast`), so that the next change makes an entry stale. `ChecksAreExact` is about the resolver's operators alone: no gap
and no cycle is the same as having a loading order. One way, a set with a loading order has a module that comes first and so
depends on none of the others. The other way, the largest part of the catalogue that is in order (`InOrder`) is all of it,
since one more module could follow (`OneIsNext`, `OneMoreInOrder`). Where the argument would be an induction the proofs take
a greatest element of a finite set (`HasGreatest`, from the well-foundedness of the strict subsets of a finite set).
`ResolutionIsExact` is about the run of the sort: `SortInv` says that what is sorted is in order at every step and that the
generation runs empty only when nothing that could follow is left; `OrderIsRespected` follows from it. A catalogue is finite,
by assumption if it is given and by `FiniteFinds` if it was found.

**ExecutionRecoveryProofs.** `CheckpointsMarked` needs `AliasIsCheckpoint`: the current state is the checkpoint only after it
was handed out, so that writing in place reaches the checkpoint then and only then. What is written there is by case a node in
place, a fallback function's substitute, or the error of a node whose policy may answer with the checkpoint (`WrittenKeeps`);
every other answer is a copy and reaches nothing (`BecomesKeeps`). `LastErrorIsTold` and `NodesAccounted` are
about ended runs; the invariant carries them through the loop as `Told` and `SettledSoFar`. They need that nothing is known of
later nodes (`FutureNone`), that a node tried before was answered with a retry (`TriedAgain`), and that the loop's count and
the manager's agree where only the manager answers (`CountsAgree`): without it a retry could run out by the loop's count and
pass the node over. `Answered` says once what every branch of `handle_error` guarantees.

**DebugSessionProofs.** `BreakpointsHonoured` needs that a paused session has asked and that a node is on its way to execution
unasked only while none of its breakpoints is armed (`NoneArmed`): the two steps see the same breakpoints because they change
between sessions or at a pause. `FileIsHonest` uses that a look without an armed breakpoint counts nothing.

Only model-checked: the eight liveness properties (`OutageEnds`, `SomebodyIsServed`, `PutRequestsRun`, `HandlerEnds` of both
recovery modules, `Recovers`, `Answered`, `RunEnds`), since fairness and ENABLED are beyond the prover, and the violated one.

## What the code does differently

Shown by a run:

* `queue_shutdown_hangs`: `shutdown(wait=True)` stops the workers before it joins the queue; a request still queued is never
  taken.

Stated as properties in the modules, each with the words it comes from, and refuted by TLC when added to the module's run:

* `CircuitBreaker!OpenFailsFast`: `allow_request` claims its slot without looking at the state again: a probe of another thread
  fails, the circuit opens, and the call goes through while it is open.
* `CircuitBreaker!TestReachesVerdict`: `_check_circuit_breaker` ends with `allow_request` and drops the answer. In HALF_OPEN that
  spends a slot on a call nobody makes; once all are spent no outcome can arrive and the test never ends.
* `RateLimitRecovery!RaisesOnlyIfNotRun`: `enqueue` returns `None` for a queued request, which the handler takes for a refusal; it
  queues the call once per attempt and raises, while the workers run every copy.
* `SnapshotStore!CollectsOnlyUnreferenced` (with the fault of dying between manifest and counts): such a death leaves a
  snapshot whose chunks the next collection deletes.
* `AgentRuns!ReversalsReplan`: a restored Fuck is executed again without a planner call when a snapshot at the entry of monitor or
  decide is refused: decide returns early with the restored decision, and routing does not look at the error.
* `ServiceRecovery!TrippedCircuitResets`: the reset of a tripped circuit is in `_should_retry`, which nobody calls.
* `ServiceRecovery!TriedAgainAfterBreak`: a service nobody probes stays `unavailable` after its break is over, and a network error
  is refused its retries.
* `ComponentRegistry!DeregisterAnswers`: a listener that removes the module being removed makes the operation raise.
* `ComponentRegistry!MirrorAgrees`: a listener called after one that changes the registry is told of changes in the wrong
  order.
* `ModuleLoading!ValidLoadingOrder`: of several versions the one loaded is the first sorted, which need not be the one that
  another module was sorted after.
* `ExecutionRecovery!RollbackRestores`: after a first rollback nodes write into the checkpoint itself, and a second rollback
  brings that back.
* `DebugSession!StepBackGoesBack`: sessions record no outputs, so a step back finds none, or one of an older run; without one it
  executes the node at hand, and the count of steps back goes on.

Met while modelling, followed by the models, without a run of their own:

* Half-open slots are counted for admissions and again for successes, so a test with a budget of *n* may close after fewer
  than *n* successes. A failed test re-opens the circuit without counting in `circuit_breaks`.
  `docs/error_handling_flowchart.md` draws the failed test as staying half-open; the code opens the circuit.
* `get_status` may show a negative number of queued requests.
* A rate raise is applied to time that passed before it: the refill credits the whole interval at the new rate.
  `PeakConformance` is stated against the peak rate for that reason.
* `SnapshotService` catches error classes it does not import: a storage error becomes a `NameError`. Callers catch everything,
  so the outcome is the same.
* `ExecutionResult` is a `TypedDict`; reading `.status` raises, so every executed action ends as a failure although it was
  applied, and the success branch of `execute_action_node` is unreachable. A reversal whose restored decision is executed
  therefore always reports failure.
* `stop_current_run` stops nothing: `current_execution_task` is never assigned. A reverted run goes on beside its reversal.
* A reversal by name to a snapshot taken after an execution has the error in its state: its decision is executed again
  without planning.
* A reversal never restores the engine's active component: no node passes a component state to `take_snapshot`.
* Auto-reversal on a failed Fuck is a placeholder in the node.
* The graph for debugging has both an edge and a conditional edge from decide to execute.
* Monitor and strategies: the shared HTTP client's timeout is overwritten by every thread that takes it; a health check interval
  below five seconds makes the monitor's loop spin; `handle_error` passes positional arguments after keywords; a service
  registered with a URL on a monitor built without URLs is never probed; a registration wipes what was noted while another
  thread was about to do the same.
* The orchestrator hands discovery one path where discovery goes through several, and takes the error for nothing found; the model
  follows each as its tests drive it.
* Recovery: error categories that do not match are ignored; a matching RETRY policy or a custom RETRY runs out in silence, and the
  run goes on with the next node; ROLLBACK without a checkpoint id aborts, although the mode is described as going back to the
  last checkpoint; in a resumption `i -= 1` has no effect and there are no policies, so it ends at its first error.
* Debugging: watches on one field share their previous values, and a watch that removes itself in its callback raises.
* The constructors called by `factory.py`, `kfm_agent.py` and `api/main.py` take other keywords than given, and the engine calls
  registry methods that the registry does not have; the models follow each part as its tests drive it.

## What is not modelled

* *Within modelled parts*: reconfiguration of the global breaker; floating-point rates; `store_chunk` and `delete_chunk` (no caller) and
  several processes on one directory; the bytes of chunks; the reflection's text; an action name the planner invents
  (`InvalidActionTypeError`); the run identifier that overlapping runs share, which matters only with a checkpointer.
* Service metrics and response times; the circuits of rate limits and networks, which nothing reads; the registry's queries
  (they only read); entry points of modules; undo and redo and `verify_safe_resumption` of `recovery.py`, which no run uses; in a
  debugging session state diffs, `step_forward` and `step_backward`, which keep no state, the callback of a session that is not
  interactive, and the watches, which nothing evaluates during a run.
* *Whole parts*: text handling (planner's answer, validation, classification), rendering, logging, configuration, command-line
  tools and services outside the repository. They are most of the repository's lines. `PROJECT.json` gives the reason for each.

## Plan

Done: the resilience core (breaker, bucket, queue, rate-limit handler, strategies and monitor), the snapshot store, the agent's
runs and reversals, the registry, module loading, execution recovery and the debugging session. What would add most next:

1. The store of `AgentRuns` tied to `SnapshotPromise`, so that what a reversal restores is what the chunk store gives back.
2. `ErrorRecovery`: the strategies, the queue and the bucket composed as `ErrorRecoveryManager` wires them.
3. `KFMPlanner`'s choice by rules as an operator, against the planner's rules as a reference definition.
