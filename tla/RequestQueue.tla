---------------------------- MODULE RequestQueue ----------------------------
(***************************************************************************)
(* RequestQueueManager of src/error_recovery.py: callers enqueue requests  *)
(* on a bounded priority queue, worker threads take them, wait for a token *)
(* of the rate limiter, run the callback and acknowledge, and shutdown     *)
(* stops the workers, optionally after joining the queue.                  *)
(*                                                                         *)
(* A step is one critical section: of queue.PriorityQueue's lock (put,     *)
(* get, task_done, join) or of the manager's own lock (the two counters).  *)
(* Between a worker's sections every other thread may run.  Each request   *)
(* is one call of enqueue; time stamps are drawn from a clock that never   *)
(* repeats itself.                                                         *)
(***************************************************************************)
EXTENDS Integers, FiniteSets

CONSTANTS
  Requests,        \* the calls of enqueue
  Workers,         \* the worker threads
  Priority,        \* the priority of each request, higher is more urgent
  Impatient,       \* the requests enqueued with a timeout
  MaxQueueSize,    \* max_queue_size
  MayShutDown,     \* does anybody call shutdown?
  NoRequest        \* what an idle worker holds

ASSUME QueueAssumption ==
  /\ IsFiniteSet(Requests)
  /\ IsFiniteSet(Workers)
  /\ Priority \in [Requests -> Nat]
  /\ Impatient \subseteq Requests
  /\ MaxQueueSize \in Nat \ {0}
  /\ MayShutDown \in BOOLEAN
  /\ NoRequest \notin Requests

VARIABLES
  queue,        \* the requests in the priority queue
  stamp,        \* QueuedRequest.timestamp, 0 before it is taken
  clock,        \* the time stamps handed out so far
  unfinished,   \* the queue's unfinished_tasks
  queuedCount,  \* _queued_count
  activeCount,  \* _active_count
  stopped,      \* _stop_event
  phase,        \* how far shutdown has got
  caller,       \* where each call of enqueue is
  told,         \* what enqueue returned
  wpc,          \* where each worker is
  holding,      \* the request each worker has taken
  runs          \* history: how often each callback was run

callerVars == <<stamp, clock, caller, told>>
workerVars == <<wpc, holding>>
counters   == <<queuedCount, activeCount>>
shutVars   == <<stopped, phase>>
vars == <<queue, unfinished, runs, callerVars, workerVars, counters, shutVars>>

CallerPlaces == {"new", "putting", "enqueued", "full", "rejected"}
WorkerPlaces == {"loop", "get", "took", "token", "run", "ran", "ack", "exited"}
Phases == {"up", "joining", "closing", "down"}

Init == /\ queue = {}
        /\ stamp = [r \in Requests |-> 0]
        /\ clock = 0
        /\ unfinished = 0
        /\ queuedCount = 0
        /\ activeCount = 0
        /\ stopped = FALSE
        /\ phase = "up"
        /\ caller = [r \in Requests |-> "new"]
        /\ told = [r \in Requests |-> "pending"]
        /\ wpc = [w \in Workers |-> "loop"]
        /\ holding = [w \in Workers |-> NoRequest]
        /\ runs = [r \in Requests |-> 0]
-----------------------------------------------------------------------------
(* enqueue                                                                 *)

\* The stop flag is looked at once, before the request object is built.
Offer(r) ==
  /\ caller[r] = "new"
  /\ IF stopped
       THEN /\ caller' = [caller EXCEPT ![r] = "rejected"]
            /\ told' = [told EXCEPT ![r] = "False"]
            /\ UNCHANGED <<stamp, clock>>
       ELSE /\ caller' = [caller EXCEPT ![r] = "putting"]
            /\ clock' = clock + 1
            /\ stamp' = [stamp EXCEPT ![r] = clock']
            /\ UNCHANGED told
  /\ UNCHANGED <<queue, unfinished, runs, workerVars, counters, shutVars>>

\* Queue.put returns None, so the branch that counts the request and returns
\* True is never taken and enqueue falls off its end.
Put(r) ==
  /\ caller[r] = "putting"
  /\ Cardinality(queue) < MaxQueueSize
  /\ queue' = queue \cup {r}
  /\ unfinished' = unfinished + 1
  /\ caller' = [caller EXCEPT ![r] = "enqueued"]
  /\ told' = [told EXCEPT ![r] = "None"]
  /\ UNCHANGED <<stamp, clock, runs, workerVars, counters, shutVars>>

\* queue.Full: the caller set a timeout and the queue stayed full.
PutTimesOut(r) ==
  /\ caller[r] = "putting" /\ r \in Impatient
  /\ Cardinality(queue) >= MaxQueueSize
  /\ caller' = [caller EXCEPT ![r] = "full"]
  /\ told' = [told EXCEPT ![r] = "False"]
  /\ UNCHANGED <<queue, unfinished, runs, stamp, clock, workerVars, counters, shutVars>>

Enqueue(r) == Offer(r) \/ Put(r) \/ PutTimesOut(r)
-----------------------------------------------------------------------------
(* _worker_loop                                                            *)

WGoto(w, place) == wpc' = [wpc EXCEPT ![w] = place]

CheckStop(w) ==
  /\ wpc[w] = "loop"
  /\ WGoto(w, IF stopped THEN "exited" ELSE "get")
  /\ UNCHANGED <<queue, unfinished, runs, callerVars, holding, counters, shutVars>>

\* QueuedRequest.__lt__
Outranks(a, b) == \/ Priority[a] > Priority[b]
                  \/ Priority[a] = Priority[b] /\ stamp[a] < stamp[b]

Heads == {r \in queue : \A q \in queue \ {r} : Outranks(r, q)}

Get(w) ==
  /\ wpc[w] = "get"
  /\ \E r \in Heads : /\ queue' = queue \ {r}
                      /\ holding' = [holding EXCEPT ![w] = r]
  /\ WGoto(w, "took")
  /\ UNCHANGED <<unfinished, runs, callerVars, counters, shutVars>>

\* Defect: the acknowledgement is given for an empty queue as well.
GetTimesOutAcking(w) ==
  /\ wpc[w] = "get" /\ queue = {}
  /\ unfinished' = unfinished - 1
  /\ WGoto(w, "loop")
  /\ UNCHANGED <<queue, runs, callerVars, holding, counters, shutVars>>

\* Defect: a worker without work leaves.
GetTimesOutExiting(w) ==
  /\ wpc[w] = "get" /\ queue = {}
  /\ WGoto(w, "exited")
  /\ UNCHANGED <<queue, unfinished, runs, callerVars, holding, counters, shutVars>>

\* queue.Empty after a second without a request.
GetTimesOut(w) ==
  /\ wpc[w] = "get" /\ queue = {}
  /\ WGoto(w, "loop")
  /\ UNCHANGED <<queue, unfinished, runs, callerVars, holding, counters, shutVars>>

CountActive(w) ==
  /\ wpc[w] = "took"
  /\ queuedCount' = queuedCount - 1
  /\ activeCount' = activeCount + 1
  /\ WGoto(w, "token")
  /\ UNCHANGED <<queue, unfinished, runs, callerVars, holding, shutVars>>

\* Defect: the request goes back on the queue and is processed all the same.
TokenGrantedRequeueing(w) ==
  /\ wpc[w] = "token"
  /\ queue' = queue \cup {holding[w]}
  /\ unfinished' = unfinished + 1
  /\ WGoto(w, "run")
  /\ UNCHANGED <<runs, callerVars, holding, counters, shutVars>>

\* rate_limiter.consume(block=True) returns, and then it returns True.
TokenGranted(w) ==
  /\ wpc[w] = "token"
  /\ WGoto(w, "run")
  /\ UNCHANGED <<queue, unfinished, runs, callerVars, holding, counters, shutVars>>

\* The callback returns or raises; either way the worker goes on.
RunCallback(w) ==
  /\ wpc[w] = "run"
  /\ runs' = [runs EXCEPT ![holding[w]] = @ + 1]
  /\ WGoto(w, "ran")
  /\ UNCHANGED <<queue, unfinished, callerVars, holding, counters, shutVars>>

UncountActive(w) ==
  /\ wpc[w] = "ran"
  /\ activeCount' = activeCount - 1
  /\ WGoto(w, "ack")
  /\ UNCHANGED <<queue, unfinished, runs, callerVars, holding, queuedCount, shutVars>>

TaskDone(w) ==
  /\ wpc[w] = "ack"
  /\ unfinished' = unfinished - 1
  /\ holding' = [holding EXCEPT ![w] = NoRequest]
  /\ WGoto(w, "loop")
  /\ UNCHANGED <<queue, runs, callerVars, counters, shutVars>>

Work(w) == \/ CheckStop(w)    \/ Get(w)          \/ GetTimesOut(w)
           \/ CountActive(w)  \/ TokenGranted(w) \/ RunCallback(w)
           \/ UncountActive(w) \/ TaskDone(w)
-----------------------------------------------------------------------------
(* shutdown                                                                *)

\* shutdown is called once, with or without `wait'.
SetStop ==
  /\ MayShutDown /\ phase = "up"
  /\ stopped' = TRUE
  /\ phase' \in {"joining", "closing"}
  /\ UNCHANGED <<queue, unfinished, runs, callerVars, workerVars, counters>>

\* Defect: an empty queue is taken for a finished one.
JoinQueueWhenEmpty ==
  /\ phase = "joining" /\ queue = {}
  /\ phase' = "closing"
  /\ UNCHANGED <<queue, unfinished, runs, callerVars, workerVars, counters, stopped>>

JoinQueue ==
  /\ phase = "joining" /\ unfinished = 0
  /\ phase' = "closing"
  /\ UNCHANGED <<queue, unfinished, runs, callerVars, workerVars, counters, stopped>>

\* worker.join(timeout=1.0) returns whether or not the worker has exited.
JoinWorkers ==
  /\ phase = "closing"
  /\ phase' = "down"
  /\ UNCHANGED <<queue, unfinished, runs, callerVars, workerVars, counters, stopped>>

Shutdown == SetStop \/ JoinQueue \/ JoinWorkers

Next == \/ \E r \in Requests : Enqueue(r)
        \/ \E w \in Workers : Work(w)
        \/ Shutdown

Spec == Init /\ [][Next]_vars

(* Threads that can run do run, tokens keep coming (TokenBucket) and every *)
(* callback ends; whether enqueue or shutdown is called is nobody's duty.  *)
Fairness == /\ \A w \in Workers : WF_vars(Work(w))
            /\ \A r \in Requests : WF_vars(Put(r) \/ PutTimesOut(r))
            /\ WF_vars(JoinQueue) /\ WF_vars(JoinWorkers)

FairSpec == Spec /\ Fairness
-----------------------------------------------------------------------------
(* Properties.                                                             *)

\* The types; no number of interleaved workers drives the active count or
\* the unfinished tasks below zero.
TypeOK == /\ queue \subseteq Requests
          /\ stamp \in [Requests -> Nat]
          /\ clock \in Nat
          /\ unfinished \in Nat
          /\ queuedCount \in Int
          /\ activeCount \in Nat
          /\ stopped \in BOOLEAN
          /\ phase \in Phases
          /\ caller \in [Requests -> CallerPlaces]
          /\ told \in [Requests -> {"pending", "None", "True", "False"}]
          /\ wpc \in [Workers -> WorkerPlaces]
          /\ holding \in [Workers -> Requests \cup {NoRequest}]
          /\ runs \in [Requests -> Nat]

BusyPlaces    == {"took", "token", "run", "ran", "ack"}
CountedPlaces == {"token", "run", "ran"}
At(places)    == {w \in Workers : wpc[w] \in places}

\* What the queue still owes a task_done for is exactly what is queued and
\* what the workers hold: join neither returns early nor waits for a request
\* that is gone (put, get and task_done of three threads).
UnfinishedLedger == unfinished = Cardinality(queue) + Cardinality(At(BusyPlaces))

\* _active_count is the number of workers between the two counter updates,
\* however their sections interleave.
ActiveLedger == activeCount = Cardinality(At(CountedPlaces))

\* No request is lost or run twice: one that is queued was put and has not
\* been run; one that a worker holds is held by no other worker and has been
\* run once if that worker got so far; one that is neither was run exactly
\* once if it was put and never otherwise.
ExactlyOnce ==
  /\ \A r \in queue : /\ caller[r] = "enqueued"
                      /\ runs[r] = 0
                      /\ \A w \in Workers : holding[w] # r
  /\ \A w \in Workers : holding[w] # NoRequest =>
       /\ caller[holding[w]] = "enqueued"
       /\ runs[holding[w]] = IF wpc[w] \in {"ran", "ack"} THEN 1 ELSE 0
       /\ \A v \in Workers : holding[v] = holding[w] => v = w
  /\ \A r \in Requests \ queue :
       (\A w \in Workers : holding[w] # r)
         => runs[r] = IF caller[r] = "enqueued" THEN 1 ELSE 0

\* shutdown(wait=True) gets past the join only when nothing that was put is
\* left to run.
JoinMeansDrained ==
  [][phase = "joining" /\ phase' = "closing"
       => \A r \in Requests : caller[r] = "enqueued" => runs[r] = 1]_vars

\* A request that was put is run in the end, unless somebody shuts the
\* manager down first.
PutRequestsRun ==
  \A r \in Requests : (caller[r] = "enqueued") ~> (runs[r] = 1 \/ stopped)

\* enqueue returns: a caller that waits for room in the queue gets it, or its
\* timeout, unless somebody shuts the manager down first.
EnqueueReturns ==
  \A r \in Requests :
    (caller[r] = "putting") ~> (caller[r] \in {"enqueued", "full"} \/ stopped)

\* Setting the stop event stops every worker, whatever it was doing.
StopStopsWorkers == stopped ~> (\A w \in Workers : wpc[w] = "exited")
-----------------------------------------------------------------------------
(* What the repository says and the code does not do.                      *)

\* "Whether to wait for all queued requests to complete" (shutdown): a
\* shutdown that waits for the queue returns.
ShutdownReturns == (phase = "joining") ~> (phase = "down")
=============================================================================
