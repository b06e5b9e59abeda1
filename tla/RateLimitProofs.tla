--------------------------- MODULE RateLimitProofs --------------------------
(***************************************************************************)
(* Proofs about the rate-limited request queue: RequestQueue, for every    *)
(* number of requests and workers, every assignment of priorities and      *)
(* timeouts and every queue size; RateLimitRecovery, the handler on top of *)
(* it, for every number of callers and attempts; and TokenBucket, the      *)
(* limiter its workers wait for, for every number of consumers and every   *)
(* admissible setting of rates, capacity, factors and windows.  The        *)
(* assumptions of one say nothing of the constants of the others, but that *)
(* the queue's requests include the handler's attempts.                    *)
(***************************************************************************)
EXTENDS RateLimitRecovery, TokenBucket, FiniteSetTheorems, TLAPS

-----------------------------------------------------------------------------
(* RequestQueue.                                                           *)

\* A worker holds a request exactly while it is at a busy place.
HoldingInv == \A w \in Workers : holding[w] # NoRequest <=> wpc[w] \in BusyPlaces

IInv == TypeOK /\ HoldingInv /\ UnfinishedLedger /\ ActiveLedger /\ ExactlyOnce

-----------------------------------------------------------------------------
(* Counting workers.                                                       *)

LEMMA AtFinite ==
  ASSUME NEW G
  PROVE  IsFiniteSet(At(G)) /\ Cardinality(At(G)) \in Nat
BY QueueAssumption, FS_Subset, FS_CardinalityType DEF At

\* When one worker moves, a group of places gains it or loses it.
LEMMA Regroup ==
  ASSUME wpc \in [Workers -> WorkerPlaces], NEW G,
         NEW w \in Workers, NEW place, WGoto(w, place)
  PROVE  /\ (place \in G <=> wpc[w] \in G) => Cardinality(At(G))' = Cardinality(At(G))
         /\ place \in G /\ wpc[w] \notin G
              => Cardinality(At(G))' = Cardinality(At(G)) + 1
         /\ place \notin G /\ wpc[w] \in G
              => Cardinality(At(G))' = Cardinality(At(G)) - 1
<1>1. \A v \in Workers : wpc'[v] = IF v = w THEN place ELSE wpc[v]
  BY DEF WGoto
<1>2. IsFiniteSet(At(G)) /\ Cardinality(At(G)) \in Nat
  BY AtFinite
<1>3. CASE place \in G /\ wpc[w] \notin G
  <2>1. At(G)' = At(G) \cup {w} /\ w \notin At(G)
    BY <1>1, <1>3 DEF At
  <2>2. QED BY <1>2, <1>3, <2>1, FS_AddElement
<1>4. CASE place \notin G /\ wpc[w] \in G
  <2>1. At(G)' = At(G) \ {w} /\ w \in At(G)
    BY <1>1, <1>4 DEF At
  <2>2. QED BY <1>2, <1>4, <2>1, FS_RemoveElement
<1>5. CASE place \in G <=> wpc[w] \in G
  <2>1. At(G)' = At(G)
    BY <1>1, <1>5 DEF At
  <2>2. QED BY <1>5, <2>1
<1>6. QED BY <1>3, <1>4, <1>5

LEMMA QueueFinite ==
  ASSUME TypeOK
  PROVE  IsFiniteSet(queue) /\ Cardinality(queue) \in Nat
BY QueueAssumption, FS_Subset, FS_CardinalityType DEF TypeOK
-----------------------------------------------------------------------------
LEMMA InitIInv == Init => IInv
<1> SUFFICES ASSUME Init PROVE IInv
  OBVIOUS
<1>1. At(BusyPlaces) = {} /\ At(CountedPlaces) = {}
  BY DEF Init, At, BusyPlaces, CountedPlaces
<1>2. UnfinishedLedger /\ ActiveLedger
  BY <1>1, FS_EmptySet DEF Init, UnfinishedLedger, ActiveLedger
<1>3. TypeOK
  <2>1. /\ queue \subseteq Requests /\ clock \in Nat /\ unfinished \in Nat
        /\ queuedCount \in Int /\ activeCount \in Nat
    BY DEF Init
  <2>5. stopped \in BOOLEAN
    BY Zenon DEF Init
  <2>6. phase \in Phases
    BY DEF Init, Phases
  <2>2. /\ stamp \in [Requests -> Nat] /\ runs \in [Requests -> Nat]
        /\ caller \in [Requests -> CallerPlaces]
    BY DEF Init, CallerPlaces
  <2>3. told \in [Requests -> {"pending", "None", "True", "False"}]
    BY DEF Init
  <2>4. /\ wpc \in [Workers -> WorkerPlaces]
        /\ holding \in [Workers -> Requests \cup {NoRequest}]
    BY DEF Init, WorkerPlaces
  <2>7. QED BY <2>1, <2>2, <2>3, <2>4, <2>5, <2>6 DEF TypeOK
<1>4. HoldingInv
  BY DEF Init, HoldingInv, BusyPlaces
<1>5. ExactlyOnce
  BY DEF Init, ExactlyOnce
<1>6. QED BY <1>2, <1>3, <1>4, <1>5 DEF IInv

\* enqueue: a put enlarges the queue by a request that was nowhere before.
LEMMA EnqueueIInv ==
  ASSUME IInv, NEW r \in Requests, Enqueue(r)
  PROVE  IInv'
<1> USE DEF IInv, callerVars, workerVars, counters, shutVars
<1>0. At(BusyPlaces)' = At(BusyPlaces) /\ At(CountedPlaces)' = At(CountedPlaces)
  BY DEF Enqueue, Offer, Put, PutTimesOut, At
<1>1. HoldingInv' /\ ActiveLedger'
  BY <1>0 DEF Enqueue, Offer, Put, PutTimesOut, HoldingInv, ActiveLedger
<1>2. CASE Offer(r)
  <2>1. TypeOK'
    BY <1>2 DEF Offer, TypeOK, CallerPlaces
  <2>2. UnfinishedLedger'
    BY <1>0, <1>2 DEF Offer, UnfinishedLedger
  <2>3. ExactlyOnce'
    BY <1>2 DEF Offer, ExactlyOnce, TypeOK, CallerPlaces
  <2>4. QED BY <1>1, <2>1, <2>2, <2>3
<1>3. CASE Put(r)
  <2>1. TypeOK'
    BY <1>3 DEF Put, TypeOK, CallerPlaces
  <2>2. r \notin queue
    BY <1>3 DEF Put, ExactlyOnce
  <2>3. UnfinishedLedger'
    <3>1. Cardinality(queue') = Cardinality(queue) + 1
      BY <1>3, <2>2, QueueFinite, FS_AddElement DEF Put
    <3>2. QED
      BY <1>0, <1>3, <3>1, QueueFinite, AtFinite DEF Put, UnfinishedLedger
  <2>4. \A w \in Workers : holding[w] # r
    BY <1>3, QueueAssumption DEF Put, ExactlyOnce
  <2>5. ExactlyOnce'
    BY <1>3, <2>2, <2>4, QueueAssumption DEF Put, ExactlyOnce, TypeOK
  <2>6. QED BY <1>1, <2>1, <2>3, <2>5
<1>4. CASE PutTimesOut(r)
  <2>1. TypeOK'
    BY <1>4 DEF PutTimesOut, TypeOK, CallerPlaces
  <2>2. UnfinishedLedger'
    BY <1>0, <1>4 DEF PutTimesOut, UnfinishedLedger
  <2>3. ExactlyOnce'
    BY <1>4 DEF PutTimesOut, ExactlyOnce, TypeOK, CallerPlaces
  <2>4. QED BY <1>1, <2>1, <2>2, <2>3
<1>5. QED BY <1>2, <1>3, <1>4 DEF Enqueue

\* The steps of a worker that move it from one place to another and leave the
\* queue, the held requests and the runs alone.
LEMMA PlainMoveIInv ==
  ASSUME IInv, NEW w \in Workers,
         CheckStop(w) \/ GetTimesOut(w) \/ CountActive(w) \/ TokenGranted(w)
           \/ UncountActive(w)
  PROVE  IInv'
<1> USE DEF IInv, callerVars, counters, shutVars
<1>1. PICK place \in WorkerPlaces :
        /\ WGoto(w, place)
        /\ place \in BusyPlaces <=> wpc[w] \in BusyPlaces
        /\ place \in {"ran", "ack"} <=> wpc[w] \in {"ran", "ack"}
  BY DEF CheckStop, GetTimesOut, CountActive, TokenGranted, UncountActive,
         WorkerPlaces, BusyPlaces
<1>2. UNCHANGED <<queue, unfinished, runs, callerVars, holding, shutVars>>
  BY DEF CheckStop, GetTimesOut, CountActive, TokenGranted, UncountActive
<1>3. wpc \in [Workers -> WorkerPlaces]
  BY DEF TypeOK
<1>4. /\ wpc' \in [Workers -> WorkerPlaces]
      /\ \A v \in Workers : /\ wpc'[v] \in BusyPlaces <=> wpc[v] \in BusyPlaces
                            /\ wpc'[v] \in {"ran", "ack"} <=> wpc[v] \in {"ran", "ack"}
  BY <1>1, <1>3 DEF WGoto
<1>5. UnfinishedLedger'
  <2>1. Cardinality(At(BusyPlaces))' = Cardinality(At(BusyPlaces))
    BY <1>1, <1>3, Regroup
  <2>2. QED BY <1>2, <2>1 DEF UnfinishedLedger
<1>6. ActiveLedger' /\ activeCount' \in Nat /\ queuedCount' \in Int
  <2>1. CASE CountActive(w)
    <3>1. Cardinality(At(CountedPlaces))' = Cardinality(At(CountedPlaces)) + 1
      BY <2>1, <1>3, Regroup DEF CountActive, CountedPlaces
    <3>2. QED BY <2>1, <3>1, AtFinite DEF CountActive, ActiveLedger, TypeOK
  <2>2. CASE UncountActive(w)
    <3>1. Cardinality(At(CountedPlaces))' = Cardinality(At(CountedPlaces)) - 1
      BY <2>2, <1>3, Regroup DEF UncountActive, CountedPlaces
    <3>2. Cardinality(At(CountedPlaces))' \in Nat
      <4>1. w \in At(CountedPlaces) /\ IsFiniteSet(At(CountedPlaces))
        BY <2>2, AtFinite DEF At, CountedPlaces, UncountActive
      <4>2. Cardinality(At(CountedPlaces)) # 0
        BY <4>1, FS_EmptySet
      <4>3. QED BY <3>1, <4>2, AtFinite
    <3>3. QED BY <2>2, <3>1, <3>2 DEF UncountActive, ActiveLedger, TypeOK
  <2>3. CASE CheckStop(w) \/ GetTimesOut(w) \/ TokenGranted(w)
    <3>1. Cardinality(At(CountedPlaces))' = Cardinality(At(CountedPlaces))
      BY <2>3, <1>3, Regroup DEF CheckStop, GetTimesOut, TokenGranted, CountedPlaces
    <3>2. UNCHANGED counters
      BY <2>3 DEF CheckStop, GetTimesOut, TokenGranted
    <3>3. QED BY <3>1, <3>2 DEF ActiveLedger, TypeOK
  <2>4. QED BY <2>1, <2>2, <2>3
<1>7. TypeOK'
  BY <1>2, <1>4, <1>6 DEF TypeOK
<1>8. HoldingInv'
  BY <1>2, <1>4 DEF HoldingInv
<1>9. ExactlyOnce'
  BY <1>2, <1>4 DEF ExactlyOnce
<1>10. QED BY <1>5, <1>6, <1>7, <1>8, <1>9

\* get: a request moves from the queue into the hands of one worker.
LEMMA GetIInv ==
  ASSUME IInv, NEW w \in Workers, Get(w)
  PROVE  IInv'
<1> USE DEF IInv, callerVars, counters, shutVars
<1>1. PICK r \in Requests : /\ r \in queue
                            /\ queue' = queue \ {r}
                            /\ holding' = [holding EXCEPT ![w] = r]
  BY DEF Get, Heads, TypeOK
<1>2. /\ WGoto(w, "took") /\ wpc[w] = "get"
      /\ UNCHANGED <<unfinished, runs, callerVars, counters, shutVars>>
  BY DEF Get
<1>3. wpc \in [Workers -> WorkerPlaces]
  BY DEF TypeOK
<1>4. TypeOK'
  BY <1>1, <1>2 DEF TypeOK, WGoto, WorkerPlaces
<1>5. HoldingInv'
  BY <1>1, <1>2, <1>3, QueueAssumption DEF HoldingInv, WGoto, BusyPlaces, TypeOK
<1>6. UnfinishedLedger'
  <2>1. Cardinality(At(BusyPlaces))' = Cardinality(At(BusyPlaces)) + 1
    BY <1>2, <1>3, Regroup DEF BusyPlaces
  <2>2. Cardinality(queue') = Cardinality(queue) - 1
    BY <1>1, QueueFinite, FS_RemoveElement
  <2>3. QED BY <1>2, <2>1, <2>2, QueueFinite, AtFinite DEF UnfinishedLedger
<1>7. ActiveLedger'
  BY <1>2, <1>3, Regroup DEF ActiveLedger, CountedPlaces
<1>8. ExactlyOnce'
  <2>1. holding[w] = NoRequest /\ holding \in [Workers -> Requests \cup {NoRequest}]
    BY <1>2 DEF HoldingInv, BusyPlaces, TypeOK
  <2>2. /\ \A v \in Workers : holding'[v] = IF v = w THEN r ELSE holding[v]
        /\ \A v \in Workers : wpc'[v] = IF v = w THEN "took" ELSE wpc[v]
    BY <1>1, <1>2, <1>3, <2>1 DEF WGoto
  <2>3. \A q \in queue' : /\ caller'[q] = "enqueued" /\ runs'[q] = 0
                          /\ \A v \in Workers : holding'[v] # q
    BY <1>1, <1>2, <2>2 DEF ExactlyOnce
  <2>4. \A v \in Workers : holding'[v] # NoRequest =>
          /\ caller'[holding'[v]] = "enqueued"
          /\ runs'[holding'[v]] = IF wpc'[v] \in {"ran", "ack"} THEN 1 ELSE 0
          /\ \A u \in Workers : holding'[u] = holding'[v] => u = v
    BY <1>1, <1>2, <2>2 DEF ExactlyOnce
  <2>5. \A q \in Requests \ queue' :
          (\A v \in Workers : holding'[v] # q)
            => runs'[q] = IF caller'[q] = "enqueued" THEN 1 ELSE 0
    BY <1>1, <1>2, <2>1, <2>2, QueueAssumption DEF ExactlyOnce
  <2>6. QED BY <2>3, <2>4, <2>5 DEF ExactlyOnce
<1>9. QED BY <1>4, <1>5, <1>6, <1>7, <1>8

\* The callback is run by the one worker that holds the request.
LEMMA RunIInv ==
  ASSUME IInv, NEW w \in Workers, RunCallback(w)
  PROVE  IInv'
<1> USE DEF IInv, callerVars, counters, shutVars
<1> DEFINE r == holding[w]
<1>1. /\ WGoto(w, "ran") /\ wpc[w] = "run"
      /\ runs' = [runs EXCEPT ![r] = @ + 1]
      /\ UNCHANGED <<queue, unfinished, callerVars, holding, counters, shutVars>>
  BY DEF RunCallback
<1>2. wpc \in [Workers -> WorkerPlaces] /\ runs \in [Requests -> Nat]
  BY DEF TypeOK
<1>3. r \in Requests /\ r # NoRequest
  BY <1>1 DEF HoldingInv, BusyPlaces, TypeOK
<1>4. TypeOK'
  BY <1>1, <1>3 DEF TypeOK, WGoto, WorkerPlaces
<1>5. HoldingInv'
  BY <1>1, <1>2 DEF HoldingInv, WGoto, BusyPlaces
<1>6. UnfinishedLedger'
  BY <1>1, <1>2, Regroup DEF UnfinishedLedger, BusyPlaces
<1>7. ActiveLedger'
  <2>1. Cardinality(At(CountedPlaces))' = Cardinality(At(CountedPlaces))
    BY <1>1, <1>2, Regroup DEF CountedPlaces
  <2>2. QED BY <1>1, <2>1 DEF ActiveLedger
<1>8. ExactlyOnce'
  <2>1. /\ \A v \in Workers : wpc'[v] = IF v = w THEN "ran" ELSE wpc[v]
        /\ \A q \in Requests : runs'[q] = IF q = r THEN runs[r] + 1 ELSE runs[q]
    BY <1>1, <1>2 DEF WGoto
  <2>2. r \notin queue /\ runs[r] = 0
    BY <1>1, <1>3 DEF ExactlyOnce
  <2>3. \A q \in queue' : /\ caller'[q] = "enqueued" /\ runs'[q] = 0
                          /\ \A v \in Workers : holding'[v] # q
    BY <1>1, <2>1, <2>2 DEF ExactlyOnce, TypeOK
  <2>4. \A v \in Workers : holding'[v] # NoRequest =>
          /\ caller'[holding'[v]] = "enqueued"
          /\ runs'[holding'[v]] = IF wpc'[v] \in {"ran", "ack"} THEN 1 ELSE 0
          /\ \A u \in Workers : holding'[u] = holding'[v] => u = v
    BY <1>1, <1>3, <2>1, <2>2 DEF ExactlyOnce, TypeOK
  <2>5. \A q \in Requests \ queue' :
          (\A v \in Workers : holding'[v] # q)
            => runs'[q] = IF caller'[q] = "enqueued" THEN 1 ELSE 0
    BY <1>1, <2>1 DEF ExactlyOnce
  <2>6. QED BY <2>3, <2>4, <2>5 DEF ExactlyOnce
<1>9. QED BY <1>4, <1>5, <1>6, <1>7, <1>8

\* task_done: the worker lets go of a request that has been run.
LEMMA TaskDoneIInv ==
  ASSUME IInv, NEW w \in Workers, TaskDone(w)
  PROVE  IInv'
<1> USE DEF IInv, callerVars, counters, shutVars
<1> DEFINE r == holding[w]
<1>1. /\ WGoto(w, "loop") /\ wpc[w] = "ack"
      /\ unfinished' = unfinished - 1
      /\ holding' = [holding EXCEPT ![w] = NoRequest]
      /\ UNCHANGED <<queue, runs, callerVars, counters, shutVars>>
  BY DEF TaskDone
<1>2. wpc \in [Workers -> WorkerPlaces]
  BY DEF TypeOK
<1>3. r \in Requests /\ r # NoRequest
  BY <1>1 DEF HoldingInv, BusyPlaces, TypeOK
<1>4. UnfinishedLedger' /\ unfinished' \in Nat
  <2>1. Cardinality(At(BusyPlaces))' = Cardinality(At(BusyPlaces)) - 1
    BY <1>1, <1>2, Regroup DEF BusyPlaces
  <2>2. Cardinality(At(BusyPlaces)) # 0
    <3>1. w \in At(BusyPlaces) /\ IsFiniteSet(At(BusyPlaces))
      BY <1>1, AtFinite DEF At, BusyPlaces
    <3>2. QED BY <3>1, FS_EmptySet
  <2>3. QED BY <1>1, <2>1, <2>2, QueueFinite, AtFinite DEF UnfinishedLedger
<1>5. TypeOK'
  BY <1>1, <1>4 DEF TypeOK, WGoto, WorkerPlaces
<1>6. HoldingInv'
  BY <1>1, <1>2 DEF HoldingInv, WGoto, BusyPlaces, TypeOK
<1>7. ActiveLedger'
  <2>1. Cardinality(At(CountedPlaces))' = Cardinality(At(CountedPlaces))
    BY <1>1, <1>2, Regroup DEF CountedPlaces
  <2>2. QED BY <1>1, <2>1 DEF ActiveLedger
<1>8. ExactlyOnce'
  <2>1. /\ \A v \in Workers : holding'[v] = IF v = w THEN NoRequest ELSE holding[v]
        /\ \A v \in Workers : wpc'[v] = IF v = w THEN "loop" ELSE wpc[v]
    BY <1>1, <1>2 DEF WGoto, TypeOK
  <2>2. caller[r] = "enqueued" /\ runs[r] = 1
    BY <1>1, <1>3 DEF ExactlyOnce
  <2>3. \A q \in queue' : /\ caller'[q] = "enqueued" /\ runs'[q] = 0
                          /\ \A v \in Workers : holding'[v] # q
    BY <1>1, <2>1, QueueAssumption DEF ExactlyOnce, TypeOK
  <2>4. \A v \in Workers : holding'[v] # NoRequest =>
          /\ caller'[holding'[v]] = "enqueued"
          /\ runs'[holding'[v]] = IF wpc'[v] \in {"ran", "ack"} THEN 1 ELSE 0
          /\ \A u \in Workers : holding'[u] = holding'[v] => u = v
    BY <1>1, <2>1 DEF ExactlyOnce
  <2>5. \A q \in Requests \ queue' :
          (\A v \in Workers : holding'[v] # q)
            => runs'[q] = IF caller'[q] = "enqueued" THEN 1 ELSE 0
    BY <1>1, <2>1, <2>2 DEF ExactlyOnce
  <2>6. QED BY <2>3, <2>4, <2>5 DEF ExactlyOnce
<1>9. QED BY <1>4, <1>5, <1>6, <1>7, <1>8

LEMMA NextIInv == IInv /\ [Next]_vars => IInv'
<1> SUFFICES ASSUME IInv, [Next]_vars PROVE IInv'
  OBVIOUS
<1>1. ASSUME NEW r \in Requests, Enqueue(r) PROVE IInv'
  BY <1>1, EnqueueIInv
<1>2. ASSUME NEW w \in Workers, Work(w) PROVE IInv'
  BY <1>2, PlainMoveIInv, GetIInv, RunIInv, TaskDoneIInv DEF Work
<1>3. CASE Shutdown
  <2>1. /\ phase' \in Phases /\ stopped' \in BOOLEAN
        /\ UNCHANGED <<queue, unfinished, runs, callerVars, workerVars, counters>>
    BY <1>3 DEF Shutdown, SetStop, JoinQueue, JoinWorkers, Phases, IInv, TypeOK
  <2>2. QED
    BY <2>1 DEF IInv, TypeOK, HoldingInv, UnfinishedLedger, ActiveLedger, At,
                ExactlyOnce, callerVars, workerVars, counters
<1>4. CASE UNCHANGED vars
  BY <1>4 DEF vars, callerVars, workerVars, counters, shutVars, IInv, TypeOK,
              HoldingInv, UnfinishedLedger, ActiveLedger, At, ExactlyOnce
<1>5. QED BY <1>1, <1>2, <1>3, <1>4 DEF Next

LEMMA Inductive == Spec => []IInv
BY InitIInv, NextIInv, PTL DEF Spec
-----------------------------------------------------------------------------
\* Types; the active count and the unfinished tasks never go below zero.
THEOREM TypeCorrect == Spec => []TypeOK
<1>1. IInv => TypeOK BY DEF IInv
<1>2. QED BY <1>1, Inductive, PTL

\* The queue's unfinished_tasks is the number of requests queued or held.
THEOREM UnfinishedIsOwed == Spec => []UnfinishedLedger
<1>1. IInv => UnfinishedLedger BY DEF IInv
<1>2. QED BY <1>1, Inductive, PTL

\* _active_count is the number of workers processing a request.
THEOREM ActiveIsCounted == Spec => []ActiveLedger
<1>1. IInv => ActiveLedger BY DEF IInv
<1>2. QED BY <1>1, Inductive, PTL

\* No request is lost, held by two workers or run twice.
THEOREM NoLossNoDoubling == Spec => []ExactlyOnce
<1>1. IInv => ExactlyOnce BY DEF IInv
<1>2. QED BY <1>1, Inductive, PTL

\* shutdown(wait=True) passes the join only when everything put was run.
THEOREM JoinIsComplete == Spec => JoinMeansDrained
<1> DEFINE A == phase = "joining" /\ phase' = "closing"
                  => \A r \in Requests : caller[r] = "enqueued" => runs[r] = 1
<1>1. IInv /\ [Next]_vars => [A]_vars
  <2> SUFFICES ASSUME IInv, Next, phase = "joining", phase' = "closing",
                      NEW r \in Requests, caller[r] = "enqueued"
               PROVE  runs[r] = 1
    OBVIOUS
  <2>1. unfinished = 0
    BY DEF Next, Enqueue, Offer, Put, PutTimesOut, Work, CheckStop, Get,
           GetTimesOut, CountActive, TokenGranted, RunCallback, UncountActive,
           TaskDone, Shutdown, SetStop, JoinQueue, JoinWorkers, shutVars
  <2>2. Cardinality(queue) = 0 /\ Cardinality(At(BusyPlaces)) = 0
    BY <2>1, QueueFinite, AtFinite DEF IInv, UnfinishedLedger
  <2>3. queue = {} /\ At(BusyPlaces) = {}
    BY <2>2, QueueFinite, AtFinite, FS_EmptySet DEF IInv
  <2>4. \A w \in Workers : holding[w] # r
    BY <2>3, QueueAssumption DEF IInv, HoldingInv, At
  <2>5. QED BY <2>3, <2>4 DEF IInv, ExactlyOnce
<1>2. QED BY <1>1, Inductive, PTL DEF Spec, JoinMeansDrained
-----------------------------------------------------------------------------
(* RateLimitRecovery.                                                      *)

\* The attempts are requests, and no two of them are the same one.
LEMMA Attempts ==
  /\ \A c \in Callers : \A k \in 1..MaxAttempts : <<c, k>> \in Requests
  /\ \A c, d \in Callers : \A k, j \in 1..MaxAttempts :
       <<c, k>> = <<d, j>> <=> c = d /\ k = j
BY RecoveryAssumption

\* A step of a handler is a call of enqueue, or no step of the queue at all; a
\* worker's step is a worker's step, and shutdown is shutdown.
LEMMA RecoverySteps == RTypeOK /\ [RNext]_allVars => [Next]_vars
<1> SUFFICES ASSUME RTypeOK, [RNext]_allVars PROVE [Next]_vars
  OBVIOUS
<1>1. ASSUME NEW c \in Callers, Recover(c) PROVE [Next]_vars
  <2>1. Current(c) \in Requests
    BY Attempts DEF Current, RTypeOK
  <2>2. CASE Retry(c) \/ PutRetry(c)
    BY <2>1, <2>2 DEF Retry, PutRetry, Next, Enqueue
  <2>3. CASE GiveUpOrRepeat(c)
    BY <2>3 DEF GiveUpOrRepeat
  <2>4. QED BY <1>1, <2>2, <2>3 DEF Recover
<1>2. ASSUME NEW w \in Workers, Work(w) PROVE [Next]_vars
  BY <1>2 DEF Next
<1>3. CASE Shutdown
  BY <1>3 DEF Next
<1>4. CASE UNCHANGED allVars
  BY <1>4 DEF allVars
<1>5. QED BY <1>1, <1>2, <1>3, <1>4 DEF RNext

\* No retry has a put timeout: an answer means that the attempt was put, or
\* turned away because the manager had been stopped.
Answered ==
  /\ \A r \in Requests : told[r] # "pending" => caller[r] \in {"enqueued", "rejected"}
  /\ \A r \in Requests : caller[r] = "rejected" => stopped

\* AttemptsInOrder, of one attempt and one later one.
InOrder(c, k, j) ==
  /\ k < attempt[c] \/ outcome[c] = "raised"
       => caller[<<c, k>>] \in {"enqueued", "rejected"}
  /\ k > attempt[c] => caller[<<c, k>>] = "new"
  /\ k < j /\ caller[<<c, k>>] = "rejected" => caller[<<c, j>>] \in {"new", "rejected"}

LEMMA Later ==
  \A k \in 1..MaxAttempts : \A j :
    j \in k + 1..MaxAttempts <=> j \in 1..MaxAttempts /\ k < j
BY RecoveryAssumption

LEMMA OrderByPairs ==
  AttemptsInOrder <=> \A c \in Callers : \A k, j \in 1..MaxAttempts : InOrder(c, k, j)
<1>1. 1 \in 1..MaxAttempts
  BY RecoveryAssumption
<1>2. QED BY <1>1, Later DEF AttemptsInOrder, InOrder

RInv == TypeOK /\ RTypeOK /\ Answered /\ AttemptsInOrder

LEMMA RInvInit == RInit => RInv
<1> SUFFICES ASSUME RInit PROVE RInv
  OBVIOUS
<1>1. TypeOK
  BY InitIInv DEF RInit, IInv
<1>2. RTypeOK
  BY RecoveryAssumption DEF RInit, RTypeOK
<1>3. Answered
  BY DEF RInit, Init, Answered
<1>4. AttemptsInOrder
  <2> SUFFICES ASSUME NEW c \in Callers, NEW k \in 1..MaxAttempts, NEW j \in 1..MaxAttempts
               PROVE  InOrder(c, k, j)
    BY OrderByPairs
  <2>1. attempt[c] = 1 /\ outcome[c] = "trying" /\ caller[<<c, k>>] = "new"
    BY Attempts DEF RInit, Init
  <2>2. QED BY <2>1, RecoveryAssumption DEF InOrder
<1>5. QED BY <1>1, <1>2, <1>3, <1>4 DEF RInv

\* The backoff is over: the current attempt leaves "new", no other moves.
LEMMA RetryKeeps ==
  ASSUME RInv, NEW c \in Callers, Retry(c)
  PROVE  RTypeOK' /\ Answered' /\ AttemptsInOrder'
<1> DEFINE place == IF stopped THEN "rejected" ELSE "putting"
<1> USE DEF RInv, recoveryVars
<1>1. /\ Current(c) \in Requests /\ attempt[c] \in 1..MaxAttempts
      /\ UNCHANGED <<attempt, outcome>>
  BY Attempts DEF Current, RTypeOK, Retry
<1>2. /\ caller' = [caller EXCEPT ![Current(c)] = place]
      /\ caller[Current(c)] = "new" /\ outcome[c] = "trying" /\ stopped' = stopped
      /\ told' = IF stopped THEN [told EXCEPT ![Current(c)] = "False"] ELSE told
  BY DEF Retry, Offer, shutVars
<1>3. RTypeOK'
  BY <1>1 DEF RTypeOK
<1>4. Answered'
  BY <1>1, <1>2 DEF Answered, TypeOK
<1>5. AttemptsInOrder'
  <2> SUFFICES ASSUME NEW d \in Callers, NEW k \in 1..MaxAttempts, NEW j \in 1..MaxAttempts
               PROVE  InOrder(d, k, j)'
    BY Later DEF AttemptsInOrder, InOrder
  <2>1. InOrder(d, k, j)
    BY OrderByPairs
  <2>2. ASSUME NEW i \in 1..MaxAttempts
        PROVE  caller'[<<d, i>>] = IF d = c /\ i = attempt[c] THEN place ELSE caller[<<d, i>>]
    <3>1. <<d, i>> \in Requests /\ (<<d, i>> = Current(c) <=> d = c /\ i = attempt[c])
      BY <1>1, Attempts DEF Current
    <3>2. QED BY <1>1, <1>2, <3>1 DEF TypeOK
  <2>3. caller[<<d, k>>] = "rejected" => stopped
    BY Attempts DEF Answered
  <2>4. d = c /\ j > attempt[c] => caller[<<d, j>>] = "new"
    BY DEF AttemptsInOrder
  <2>5. QED BY <1>1, <1>2, <2>1, <2>2, <2>3, <2>4 DEF InOrder
<1>6. QED BY <1>3, <1>4, <1>5

\* The current attempt is put and its answer told; no other moves.
LEMMA PutRetryKeeps ==
  ASSUME RInv, NEW c \in Callers, PutRetry(c)
  PROVE  RTypeOK' /\ Answered' /\ AttemptsInOrder'
<1> USE DEF RInv, recoveryVars
<1>1. /\ Current(c) \in Requests /\ attempt[c] \in 1..MaxAttempts
      /\ UNCHANGED <<attempt, outcome>>
  BY Attempts DEF Current, RTypeOK, PutRetry
<1>2. /\ caller' = [caller EXCEPT ![Current(c)] = "enqueued"]
      /\ caller[Current(c)] = "putting"
      /\ told' = [told EXCEPT ![Current(c)] = "None"]
      /\ UNCHANGED stopped
  BY DEF PutRetry, Put, shutVars
<1>3. RTypeOK'
  BY <1>1 DEF RTypeOK
<1>4. Answered'
  BY <1>1, <1>2 DEF Answered, TypeOK
<1>5. AttemptsInOrder'
  <2> SUFFICES ASSUME NEW d \in Callers, NEW k \in 1..MaxAttempts, NEW j \in 1..MaxAttempts
               PROVE  InOrder(d, k, j)'
    BY Later DEF AttemptsInOrder, InOrder
  <2>1. InOrder(d, k, j)
    BY OrderByPairs
  <2>2. ASSUME NEW i \in 1..MaxAttempts
        PROVE  caller'[<<d, i>>] = IF d = c /\ i = attempt[c] THEN "enqueued" ELSE caller[<<d, i>>]
    <3>1. <<d, i>> \in Requests /\ (<<d, i>> = Current(c) <=> d = c /\ i = attempt[c])
      BY <1>1, Attempts DEF Current
    <3>2. QED BY <1>1, <1>2, <3>1 DEF TypeOK
  <2>3. QED BY <1>1, <1>2, <2>1, <2>2 DEF InOrder, Current
<1>6. QED BY <1>3, <1>4, <1>5

\* The next attempt, or the end: the current attempt was answered by then.
LEMMA GiveUpOrRepeatKeeps ==
  ASSUME RInv, NEW c \in Callers, GiveUpOrRepeat(c)
  PROVE  RTypeOK' /\ Answered' /\ AttemptsInOrder'
<1> USE DEF RInv
<1>1. /\ Current(c) \in Requests /\ attempt[c] \in 1..MaxAttempts
      /\ UNCHANGED <<caller, told, stopped>>
  BY Attempts DEF Current, RTypeOK, GiveUpOrRepeat, vars, callerVars, shutVars
<1>2. caller[<<c, attempt[c]>>] \in {"enqueued", "rejected"}
  BY <1>1 DEF GiveUpOrRepeat, Answered, Current
<1>3. RTypeOK'
  BY <1>1, RecoveryAssumption DEF GiveUpOrRepeat, RTypeOK
<1>4. Answered'
  BY <1>1 DEF Answered
<1>5. AttemptsInOrder'
  <2> SUFFICES ASSUME NEW d \in Callers, NEW k \in 1..MaxAttempts, NEW j \in 1..MaxAttempts
               PROVE  InOrder(d, k, j)'
    BY Later DEF AttemptsInOrder, InOrder
  <2>1. InOrder(d, k, j)
    BY OrderByPairs
  <2>2. CASE d # c
    <3>1. attempt'[d] = attempt[d] /\ outcome'[d] = outcome[d]
      BY <2>2 DEF GiveUpOrRepeat, RTypeOK
    <3>2. QED BY <1>1, <2>1, <3>1 DEF InOrder
  <2>3. CASE d = c /\ attempt[c] < MaxAttempts
    <3>1. /\ attempt'[c] = attempt[c] + 1 /\ outcome'[c] = outcome[c]
      BY <2>3 DEF GiveUpOrRepeat, RTypeOK
    <3>2. k < attempt'[c] => k < attempt[c] \/ k = attempt[c]
      BY <1>1, <3>1
    <3>3. k > attempt'[c] => k > attempt[c]
      BY <1>1, <3>1
    <3>4. QED BY <1>1, <1>2, <2>1, <2>3, <3>1, <3>2, <3>3 DEF InOrder
  <2>4. CASE d = c /\ ~(attempt[c] < MaxAttempts)
    <3>1. attempt'[c] = attempt[c] /\ attempt[c] = MaxAttempts
      BY <1>1, <2>4, RecoveryAssumption DEF GiveUpOrRepeat
    <3>2. k < attempt[c] \/ k = attempt[c]
      BY <3>1, RecoveryAssumption
    <3>3. QED BY <1>1, <1>2, <2>1, <2>4, <3>1, <3>2 DEF InOrder
  <2>5. QED BY <2>2, <2>3, <2>4
<1>6. QED BY <1>3, <1>4, <1>5

LEMMA RInvStep == RInv /\ TypeOK' /\ [RNext]_allVars => RInv'
<1> SUFFICES ASSUME RInv, TypeOK', [RNext]_allVars PROVE RInv'
  OBVIOUS
<1>1. ASSUME NEW c \in Callers, Recover(c) PROVE RInv'
  BY <1>1, RetryKeeps, PutRetryKeeps, GiveUpOrRepeatKeeps DEF Recover, RInv
<1>2. ASSUME NEW w \in Workers, Work(w), UNCHANGED recoveryVars PROVE RInv'
  <2>1. UNCHANGED <<caller, told, stopped, attempt, outcome>>
    BY <1>2 DEF Work, CheckStop, Get, GetTimesOut, CountActive, TokenGranted,
                RunCallback, UncountActive, TaskDone, callerVars, shutVars,
                recoveryVars
  <2>2. QED BY <2>1 DEF RInv, RTypeOK, Answered, AttemptsInOrder
<1>3. CASE Shutdown /\ UNCHANGED recoveryVars
  <2>1. UNCHANGED <<caller, told, attempt, outcome>> /\ (stopped => stopped')
    BY <1>3 DEF Shutdown, SetStop, JoinQueue, JoinWorkers, callerVars, recoveryVars
  <2>2. QED BY <2>1 DEF RInv, RTypeOK, Answered, AttemptsInOrder
<1>4. CASE UNCHANGED allVars
  <2>1. UNCHANGED <<caller, told, stopped, attempt, outcome>>
    BY <1>4 DEF allVars, vars, callerVars, shutVars, recoveryVars
  <2>2. QED BY <2>1 DEF RInv, RTypeOK, Answered, AttemptsInOrder
<1>5. QED BY <1>1, <1>2, <1>3, <1>4 DEF RNext

\* The queue's own invariant and the handlers' hold together.
LEMMA RInductive == RSpec => [](IInv /\ RInv)
<1>1. RInit => IInv /\ RInv
  BY RInvInit, InitIInv DEF RInit
<1>2. IInv /\ RInv /\ [RNext]_allVars => (IInv /\ RInv)'
  <2>1. RInv => RTypeOK
    BY DEF RInv
  <2>2. IInv /\ RInv /\ [RNext]_allVars => IInv'
    BY <2>1, RecoverySteps, NextIInv
  <2>3. IInv' => TypeOK'
    BY DEF IInv
  <2>4. QED BY <2>2, <2>3, RInvStep
<1>3. QED BY <1>1, <1>2, PTL DEF RSpec

\* The handlers keep to the queue's protocol: what they, the workers and
\* shutdown do is what RequestQueue allows, so all that is proved of the queue
\* holds with them (handle_rate_limit_error calls only enqueue).
THEOREM RecoveryUsesQueue == RSpec => Spec
<1>1. RInit => Init
  BY DEF RInit
<1>2. IInv /\ RInv /\ [RNext]_allVars => [Next]_vars
  BY RecoverySteps DEF RInv
<1>3. QED BY <1>1, <1>2, RInductive, PTL DEF RSpec, Spec

\* An attempt is offered only after every earlier one was put or turned away,
\* the handler gives up only after the last, and none is queued after one that
\* was turned away (handle_rate_limit_error).
THEOREM AttemptsAreOrdered == RSpec => []AttemptsInOrder
<1>1. IInv /\ RInv => AttemptsInOrder
  BY DEF RInv
<1>2. QED BY <1>1, RInductive, PTL

\* When the queue owes nothing any more, every attempt of a call that was given
\* up has been run once, but for those that a stopped manager turned away.
GivenUpMeansAllRun ==
  unfinished = 0 =>
    \A c \in Callers : outcome[c] = "raised" =>
      \A k \in 1..MaxAttempts :
        \/ runs[<<c, k>>] = 1
        \/ runs[<<c, k>>] = 0 /\ caller[<<c, k>>] = "rejected" /\ stopped

\* A handler that gave up has had its call queued max_attempts times: once the
\* queue owes nothing any more, the call was run that often, once for each
\* attempt (enqueue's None is taken for "not enqueued"), unless the manager was
\* stopped before the attempt was made.
THEOREM OneCallRunsEveryAttempt == RSpec => []GivenUpMeansAllRun
<1>1. IInv /\ RInv => GivenUpMeansAllRun
  <2> SUFFICES ASSUME IInv, RInv, unfinished = 0, NEW c \in Callers,
                      outcome[c] = "raised", NEW k \in 1..MaxAttempts
               PROVE  \/ runs[<<c, k>>] = 1
                      \/ /\ runs[<<c, k>>] = 0 /\ caller[<<c, k>>] = "rejected"
                         /\ stopped
    BY DEF GivenUpMeansAllRun
  <2>1. /\ <<c, k>> \in Requests /\ caller[<<c, k>>] \in {"enqueued", "rejected"}
        /\ caller[<<c, k>>] = "rejected" => stopped
    BY Attempts DEF RInv, AttemptsInOrder, Answered
  <2>2. Cardinality(queue) = 0 /\ Cardinality(At(BusyPlaces)) = 0
    BY QueueFinite, AtFinite DEF IInv, UnfinishedLedger
  <2>3. queue = {} /\ At(BusyPlaces) = {}
    BY <2>2, QueueFinite, AtFinite, FS_EmptySet DEF IInv
  <2>4. \A w \in Workers : holding[w] # <<c, k>>
    BY <2>1, <2>3, QueueAssumption DEF IInv, HoldingInv, At
  <2>5. QED BY <2>1, <2>3, <2>4 DEF IInv, ExactlyOnce
<1>2. QED BY <1>1, RInductive, PTL
-----------------------------------------------------------------------------
(* TokenBucket.                                                            *)

\* Right after a refill the bucket holds no more than the ideal bucket; once
\* time has passed since the last refill the ideal bucket is full.
Covered == /\ elapsed = 0 => tokens <= allowance
           /\ elapsed > 0 => allowance = MaxTokens

\* The limiter's run of successes is part of the run since the last limit.
CleanRun == successes <= clean

BucketInv == BucketTypeOK /\ Covered /\ CleanRun

\* What a refill yields: never more than the capacity nor less than before,
\* and no more than the ideal bucket holds.
LEMMA RefillBounds ==
  ASSUME BucketInv
  PROVE  /\ Refilled \in 0..MaxTokens
         /\ Refilled <= allowance
<1> USE BucketAssumption DEF BucketInv, BucketTypeOK, Covered
<1>1. elapsed * rate \in Nat
  <2>1. elapsed \in Nat /\ rate \in Nat
    OBVIOUS
  <2>2. QED BY <2>1
<1>2. Refilled \in 0..MaxTokens
  BY <1>1 DEF Refilled, Least
<1>3. CASE elapsed = 0
  <2>1. elapsed * rate = 0
    <3>1. rate \in Int
      OBVIOUS
    <3>2. 0 * rate = 0
      BY <3>1
    <3>3. QED BY <1>3, <3>2
  <2>2. Refilled = tokens
    BY <2>1 DEF Refilled, Least
  <2>3. QED BY <1>2, <1>3, <2>2
<1>4. CASE elapsed > 0
  BY <1>2, <1>4
<1>5. QED BY <1>2, <1>3, <1>4

\* What the rate may become: the raised rate and the lowered rate stay within
\* min_rate and max_tokens.
LEMMA RateBounds ==
  ASSUME BucketTypeOK
  PROVE  /\ RecoveredRate > rate => RecoveredRate \in MinRate..MaxTokens
         /\ Least(rate, Largest(rate \div BackoffDivisor, MinRate)) \in MinRate..MaxTokens
<1> USE BucketAssumption DEF BucketTypeOK
<1>1. rate * RecoveryFactor \in Nat
  <2>1. rate \in Nat /\ RecoveryFactor \in Nat
    OBVIOUS
  <2>2. QED BY <2>1
<1>2. RecoveredRate > rate => RecoveredRate \in MinRate..MaxTokens
  BY <1>1 DEF RecoveredRate, Least
<1>3. rate \div BackoffDivisor \in Nat
  <2>1. rate \in Nat /\ BackoffDivisor \in Nat \ {0}
    OBVIOUS
  <2>2. QED BY <2>1
<1>4. Least(rate, Largest(rate \div BackoffDivisor, MinRate)) \in MinRate..MaxTokens
  BY <1>3 DEF Least, Largest
<1>5. QED BY <1>2, <1>4

LEMMA BucketInvInit == BucketInit => BucketInv
BY BucketAssumption DEF BucketInit, BucketInv, BucketTypeOK, Covered, CleanRun, Places

LEMMA GotoTyped ==
  ASSUME pc \in [Threads -> Places], NEW t \in Threads,
         NEW place \in Places, Goto(t, place)
  PROVE  pc' \in [Threads -> Places]
BY DEF Goto

\* Every step of a consumer and of the clock preserves the invariant.
LEMMA BucketInvStep == BucketInv /\ [BucketNext]_bucketVars => BucketInv'
<1> SUFFICES ASSUME BucketInv, [BucketNext]_bucketVars PROVE BucketInv'
  OBVIOUS
<1> USE BucketAssumption DEF BucketInv, BucketTypeOK, Covered, CleanRun
<1>r. Refilled \in 0..MaxTokens /\ Refilled <= allowance
  BY RefillBounds
<1>1. ASSUME NEW t \in Threads, StartConsume(t) PROVE BucketInv'
  BY <1>1 DEF StartConsume, Goto, Places, limiter
<1>2. ASSUME NEW t \in Threads, Take(t) PROVE BucketInv'
  <2>1. /\ tokens' = Refilled - TokensPerRequest
        /\ elapsed' = 0
        /\ allowance' = allowance - TokensPerRequest
        /\ Refilled >= TokensPerRequest
        /\ UNCHANGED <<rate, successes, sinceRecovery, clean>>
    BY <1>2 DEF Take, Charge
  <2>2. tokens' \in 0..MaxTokens /\ tokens' <= allowance' /\ allowance' \in Int
    BY <1>r, <2>1
  <2>3. pc' \in [Threads -> Places]
    BY <1>2 DEF Take, Goto, Places
  <2>4. QED BY <2>1, <2>2, <2>3
<1>3. ASSUME NEW t \in Threads, Lack(t) \/ AskWaitTime(t) PROVE BucketInv'
  <2>1. /\ tokens' = Refilled
        /\ elapsed' = 0
        /\ UNCHANGED <<rate, successes, sinceRecovery, allowance, clean>>
    BY <1>3 DEF Lack, AskWaitTime, AddTokens
  <2>2. pc' \in [Threads -> Places]
    BY <1>3 DEF Lack, AskWaitTime, Goto, Places
  <2>3. QED BY <1>r, <2>1, <2>2
<1>4. ASSUME NEW t \in Threads, Wake(t) PROVE BucketInv'
  BY <1>4 DEF Wake, Goto, Places, limiter
<1>5. ASSUME NEW t \in Threads, RecordSuccess(t) PROVE BucketInv'
  <2>1. pc' \in [Threads -> Places]
    BY <1>5 DEF RecordSuccess, Success, Goto, Places
  <2>2. rate' \in MinRate..MaxTokens
    BY <1>5, RateBounds DEF RecordSuccess
  <2>3. /\ sinceRecovery' \in 0..RecoveryWindow + 1
        /\ successes' \in 0..RecoveryThreshold
        /\ clean' \in 0..RecoveryThreshold
        /\ successes' <= clean'
        /\ UNCHANGED <<tokens, elapsed, allowance>>
    BY <1>5 DEF RecordSuccess, Least
  <2>4. QED BY <2>1, <2>2, <2>3
<1>6. ASSUME NEW t \in Threads, RecordRateLimit(t) PROVE BucketInv'
  <2>1. pc' \in [Threads -> Places]
    BY <1>6 DEF RecordRateLimit, Success, Goto, Places
  <2>2. rate' \in MinRate..MaxTokens
    BY <1>6, RateBounds DEF RecordRateLimit
  <2>3. QED BY <1>6, <2>1, <2>2 DEF RecordRateLimit
<1>7. ASSUME NEW t \in Threads, OtherError(t) PROVE BucketInv'
  BY <1>7 DEF OtherError, Success, Goto, Places, limiter
<1>8. CASE Tick
  <2>1. elapsed' \in 1..MaxTokens /\ sinceRecovery' \in 0..RecoveryWindow + 1
    BY <1>8 DEF Tick, Least
  <2>2. QED BY <1>8, <2>1 DEF Tick
<1>9. CASE UNCHANGED bucketVars
  BY <1>9 DEF bucketVars, limiter
<1>10. QED
  BY <1>1, <1>2, <1>3, <1>4, <1>5, <1>6, <1>7, <1>8, <1>9 DEF BucketNext, Step

LEMMA BucketInductive == BucketSpec => []BucketInv
BY BucketInvInit, BucketInvStep, PTL DEF BucketSpec

\* The rate stays between min_rate and max_tokens, the bucket between empty
\* and full, and everything else keeps its type.
THEOREM BucketTyped == BucketSpec => []BucketTypeOK
<1>1. BucketInv => BucketTypeOK BY DEF BucketInv
<1>2. QED BY <1>1, BucketInductive, PTL

\* No order of tries, sleeps, rate changes and ticks lets more requests
\* through than the ideal bucket at the peak rate (add_tokens, consume).
THEOREM PeakRespected == BucketSpec => []PeakConformance
<1>1. BucketInv => PeakConformance
  BY BucketAssumption DEF BucketInv, BucketTypeOK, Covered, PeakConformance
<1>2. QED BY <1>1, BucketInductive, PTL

\* The rate is raised only on the strength of successes that all came after
\* the last rate limit (record_rate_limit, record_success).
THEOREM RaisesAreEarned == BucketSpec => RaiseNeedsCleanRun
<1> DEFINE A == rate' > rate => clean' >= RecoveryThreshold
<1>1. BucketInv /\ [BucketNext]_bucketVars => [A]_bucketVars
  <2> SUFFICES ASSUME BucketInv, BucketNext PROVE A
    OBVIOUS
  <2> USE BucketAssumption DEF BucketInv, BucketTypeOK, CleanRun
  <2>1. ASSUME NEW t \in Threads, RecordSuccess(t) PROVE A
    BY <2>1 DEF RecordSuccess, MayRecover, Least
  <2>2. ASSUME NEW t \in Threads, RecordRateLimit(t) PROVE A
    <3>1. rate' \in MinRate..MaxTokens /\ rate' <= rate
      <4>1. rate' = Least(rate, Largest(rate \div BackoffDivisor, MinRate))
        BY <2>2 DEF RecordRateLimit
      <4>2. rate' \in MinRate..MaxTokens
        BY <4>1, RateBounds
      <4>3. QED BY <4>1, <4>2 DEF Least
    <3>2. QED BY <3>1
  <2>3. ASSUME NEW t \in Threads,
               StartConsume(t) \/ Take(t) \/ Lack(t) \/ AskWaitTime(t) \/ Wake(t)
                 \/ OtherError(t)
        PROVE  A
    BY <2>3 DEF StartConsume, Take, Lack, AskWaitTime, Wake, OtherError, limiter
  <2>4. CASE Tick
    BY <2>4 DEF Tick
  <2>5. QED BY <2>1, <2>2, <2>3, <2>4 DEF BucketNext, Step
<1>2. QED BY <1>1, BucketInductive, PTL DEF BucketSpec, RaiseNeedsCleanRun
=============================================================================
