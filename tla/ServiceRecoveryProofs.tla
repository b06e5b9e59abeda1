------------------------ MODULE ServiceRecoveryProofs -----------------------
(***************************************************************************)
(* Proofs about ServiceRecovery, for every number of callers, every set of *)
(* errors and fallbacks that they start with, and all thresholds, numbers  *)
(* of attempts and durations.                                              *)
(***************************************************************************)
EXTENDS ServiceRecovery, TLAPS

\* Where a handler may be.
Places == {"calling", "check", "init", "note", "count", "gate", "retry", "ping",
           "look", "call", "switch", "fallback", "locked", "returned", "raised"}

HandlersTyped == /\ pc \in [Callers -> Places]
                 /\ job \in [Callers -> Jobs]
                 /\ attempt \in [Callers -> 1..MaxAttempts + 1]
                 /\ error \in [Callers -> Errors]
                 /\ calls \in [Callers -> 0..MaxAttempts]
                 /\ switched \in [Callers -> 0..2]

ServiceTyped ==
  /\ checked \in BOOLEAN /\ known \in BOOLEAN /\ up \in BOOLEAN
  /\ monitor \in Monitors
  /\ circuit \in [count : 0..CircuitThreshold, tripped : BOOLEAN, left : 0..ResetTime]
  /\ probe \in {"idle", "out", "ok", "failed"} /\ broke \in BOOLEAN

LEMMA TypeParts == TypeOK <=> HandlersTyped /\ ServiceTyped
BY DEF TypeOK, HandlersTyped, ServiceTyped, Places

LEMMA HalfType == Half \in Nat /\ Half <= MaxAttempts
BY RecoveryAssumption DEF Half
-----------------------------------------------------------------------------
(* The handlers' invariant, one handler at a time.                         *)

\* A handler records its first failure, then one result per attempt.
Recording == {"check", "init", "note", "count"}
Looping   == {"retry", "ping", "look", "call", "switch"}

AtLeastOne(n) == IF n = 0 THEN 1 ELSE n

HasWayOut(c) == job[c].kind = "unavailable" /\ job[c].fallback

\* Before its loop a handler has called nothing and stands at attempt one.
Opening(c) ==
  pc[c] \in {"calling", "gate", "locked"} => Entering(c) /\ attempt[c] = 1

\* While a result is recorded, the handler has called the service or switched
\* once per attempt; a switch is the last thing it tries before it gives way.
Recorded(c) ==
  pc[c] \in Recording =>
    /\ attempt[c] <= MaxAttempts
    /\ Entering(c) => attempt[c] = 1
    /\ ~Entering(c) => calls[c] + switched[c] = attempt[c]
    /\ switched[c] = 0 \/ (switched[c] = 1 /\ HasWayOut(c) /\ attempt[c] >= Half)

\* In the loop, the attempts before this one were calls of the service; with a
\* fallback there are no more than half as many as without.
Looped(c) ==
  pc[c] \in Looping =>
    /\ switched[c] = 0
    /\ job[c].kind # "limit" => calls[c] = attempt[c] - 1
    /\ HasWayOut(c) => attempt[c] <= AtLeastOne(Half)
    /\ pc[c] # "retry" => attempt[c] <= MaxAttempts /\ job[c].kind # "limit"

\* Which handlers get to which step.
Routed(c) ==
  /\ pc[c] \in {"count", "gate"} => job[c].kind \in {"network", "unavailable"}
  /\ pc[c] = "look" => job[c].kind = "unavailable"
  /\ pc[c] = "switch" => HasWayOut(c) /\ attempt[c] >= Half
  /\ pc[c] = "locked" => HasWayOut(c)
  /\ pc[c] = "fallback" =>
       /\ job[c].fallback /\ job[c].kind # "limit"
       /\ switched[c] <= IF job[c].kind = "unavailable" THEN 1 ELSE 0

\* RetryBudget, of one handler.
Budget(c) ==
  /\ job[c].kind = "limit" => calls[c] = 0
  /\ HasWayOut(c) => calls[c] <= AtLeastOne(Half)
  /\ calls[c] <= MaxAttempts
  /\ switched[c] <= IF job[c].kind = "unavailable" THEN 2 ELSE 1
  /\ ~job[c].fallback => switched[c] = 0

Sound(c) == Opening(c) /\ Recorded(c) /\ Looped(c) /\ Routed(c) /\ Budget(c)

HandlersSound == \A c \in Callers : Sound(c)

LEMMA BudgetsKept == HandlersSound => RetryBudget
BY DEF HandlersSound, Sound, Budget, RetryBudget, HasWayOut, AtLeastOne
-----------------------------------------------------------------------------
(* The service's invariant.                                                *)

\* Only a broken circuit has time left to wait, and a break that is in force
\* while a probe is out has begun, or been extended, since it went out.
BreaksKnown == /\ ~monitor.broken => monitor.breakLeft = 0
               /\ probe # "idle" /\ Breaking(monitor) => broke

ServiceInv == ServiceTyped /\ StatusAgrees /\ BreaksKnown

\* Nobody sets up a service that was registered from the start.
SetUpOnce == /\ checked => known
             /\ \A c \in Callers : pc[c] = "init" => ~checked

IInv == HandlersTyped /\ HandlersSound /\ ServiceInv /\ SetUpOnce
-----------------------------------------------------------------------------
(* The handlers keep theirs.                                               *)

\* Only one handler moves.
OnlyMoves(c) ==
  /\ job' = job
  /\ \A d \in Callers : d # c => /\ pc'[d] = pc[d] /\ attempt'[d] = attempt[d]
                                 /\ calls'[d] = calls[d] /\ switched'[d] = switched[d]

LEMMA OneMoves ==
  ASSUME HandlersSound, NEW c \in Callers, OnlyMoves(c), Sound(c)'
  PROVE  HandlersSound'
<1> SUFFICES ASSUME NEW d \in Callers, d # c PROVE Sound(d)'
  BY DEF HandlersSound
<1>1. Sound(d)
  BY DEF HandlersSound
<1>2. /\ job' = job /\ pc'[d] = pc[d] /\ attempt'[d] = attempt[d]
      /\ calls'[d] = calls[d] /\ switched'[d] = switched[d]
  BY DEF OnlyMoves
<1>3. QED
  BY <1>1, <1>2 DEF Sound, Opening, Recorded, Looped, Routed, Budget, Entering,
                    HasWayOut

\* What one handler looks like.
LEMMA HandlerTyped ==
  ASSUME HandlersTyped, NEW c \in Callers
  PROVE  /\ pc[c] \in Places /\ attempt[c] \in 1..MaxAttempts + 1
         /\ job[c] \in Jobs /\ error[c] \in Errors
         /\ calls[c] \in 0..MaxAttempts /\ switched[c] \in 0..2
BY DEF HandlersTyped

LEMMA GotoLands ==
  ASSUME HandlersTyped, NEW c \in Callers, NEW place \in Places, Goto(c, place)
  PROVE  /\ pc' \in [Callers -> Places] /\ pc'[c] = place
         /\ \A d \in Callers : d # c => pc'[d] = pc[d]
BY DEF HandlersTyped, Goto

\* The steps that count nothing, by where they lead.
Walk(c, place) == Goto(c, place) /\ UNCHANGED <<job, attempt, error, calls, switched>>

LEMMA WalkKeeps ==
  ASSUME HandlersTyped, HandlersSound, NEW c \in Callers, NEW place \in Places,
         Walk(c, place), pc'[c] = place => Sound(c)'
  PROVE  HandlersTyped' /\ HandlersSound'
<1>1. pc' \in [Callers -> Places] /\ pc'[c] = place /\ OnlyMoves(c)
  BY GotoLands DEF Walk, OnlyMoves
<1>2. QED BY <1>1, OneMoves DEF Walk, HandlersTyped

LEMMA EnterKeeps ==
  ASSUME HandlersTyped, HandlersSound, NEW c \in Callers,
         Fail(c) \/ CheckKnown(c) \/ Initialize(c)
  PROVE  HandlersTyped' /\ HandlersSound'
<1>1. PICK place \in {"check", "init", "note"} :
        Walk(c, place) /\ pc[c] \in {"calling", "check", "init"}
  BY DEF Fail, CheckKnown, Initialize, Walk, TallySame, Elsewhere
<1>2. Sound(c) /\ place \in Places
  BY DEF HandlersSound, Places
<1>3. ASSUME pc'[c] = place PROVE Sound(c)'
  BY <1>1, <1>2, <1>3, HandlerTyped, RecoveryAssumption
     DEF Walk, Sound, Opening, Recorded, Looped, Routed, Budget, Entering,
         HasWayOut, Recording, Looping
<1>4. QED BY <1>1, <1>2, <1>3, WalkKeeps

LEMMA GateKeeps ==
  ASSUME HandlersTyped, HandlersSound, NEW c \in Callers, Gate(c)
  PROVE  HandlersTyped' /\ HandlersSound'
<1>1. PICK place \in {"retry", "raised", "locked"} :
        /\ Walk(c, place) /\ pc[c] = "gate"
        /\ place = "locked" => HasWayOut(c)
  BY DEF Gate, Walk, TallySame, Elsewhere, HasWayOut
<1>2. Sound(c) /\ place \in Places
  BY DEF HandlersSound, Places
<1>3. ASSUME pc'[c] = place PROVE Sound(c)'
  BY <1>1, <1>2, <1>3, HandlerTyped, HalfType
     DEF Walk, Sound, Opening, Recorded, Looped, Routed, Budget, Entering,
         HasWayOut, Recording, Looping, AtLeastOne
<1>4. QED BY <1>1, <1>2, <1>3, WalkKeeps

\* The steps of the loop before the next call.
LEMMA LoopKeeps ==
  ASSUME HandlersTyped, HandlersSound, NEW c \in Callers,
         Retry(c) \/ GiveUp(c) \/ Ping(c) \/ Look(c)
  PROVE  HandlersTyped' /\ HandlersSound'
<1>1. PICK place \in {"look", "ping", "call", "fallback", "raised", "switch"} :
        /\ Walk(c, place) /\ pc[c] \in {"retry", "ping", "look"}
        /\ pc[c] = "retry" /\ place \in {"look", "ping", "call"}
             => attempt[c] <= MaxAttempts /\ job[c].kind # "limit"
        /\ place = "look" => job[c].kind = "unavailable"
        /\ place = "fallback" => job[c].fallback /\ job[c].kind # "limit"
        /\ place = "switch" => pc[c] = "look" /\ job[c].fallback /\ attempt[c] >= Half
  <2>1. CASE Retry(c)
    BY <2>1 DEF Retry, Walk, TallySame, Elsewhere
  <2>2. CASE GiveUp(c)
    BY <2>2 DEF GiveUp, Walk, TallySame, Elsewhere
  <2>3. CASE Ping(c)
    BY <2>3 DEF Ping, Walk, TallySame, Elsewhere
  <2>4. CASE Look(c)
    BY <2>4 DEF Look, Walk, TallySame, Elsewhere
  <2>5. QED BY <2>1, <2>2, <2>3, <2>4
<1>2. Sound(c) /\ place \in Places
  BY DEF HandlersSound, Places
<1>3. ASSUME pc'[c] = place PROVE Sound(c)'
  BY <1>1, <1>2, <1>3, HandlerTyped, HalfType
     DEF Walk, Sound, Opening, Recorded, Looped, Routed, Budget, Entering,
         HasWayOut, Recording, Looping, AtLeastOne
<1>4. QED BY <1>1, <1>2, <1>3, WalkKeeps

\* The steps that count an attempt, call or switch: what they do to a handler.
Counts(c, place, n, k, s) ==
  /\ Goto(c, place) /\ job' = job /\ error' \in [Callers -> Errors]
  /\ attempt' = [attempt EXCEPT ![c] = n]
  /\ calls' = [calls EXCEPT ![c] = k]
  /\ switched' = [switched EXCEPT ![c] = s]

LEMMA CountsKeep ==
  ASSUME HandlersTyped, HandlersSound, NEW c \in Callers, NEW place \in Places,
         NEW n \in 1..MaxAttempts + 1, NEW k \in 0..MaxAttempts, NEW s \in 0..2,
         Counts(c, place, n, k, s),
         pc'[c] = place /\ attempt'[c] = n /\ calls'[c] = k /\ switched'[c] = s
           => Sound(c)'
  PROVE  HandlersTyped' /\ HandlersSound'
<1>1. /\ pc' \in [Callers -> Places] /\ pc'[c] = place
      /\ \A d \in Callers : d # c => pc'[d] = pc[d]
  BY GotoLands DEF Counts
<1>2. /\ attempt' \in [Callers -> 1..MaxAttempts + 1] /\ attempt'[c] = n
      /\ \A d \in Callers : d # c => attempt'[d] = attempt[d]
  BY DEF Counts, HandlersTyped
<1>3. /\ calls' \in [Callers -> 0..MaxAttempts] /\ calls'[c] = k
      /\ \A d \in Callers : d # c => calls'[d] = calls[d]
  BY DEF Counts, HandlersTyped
<1>4. /\ switched' \in [Callers -> 0..2] /\ switched'[c] = s
      /\ \A d \in Callers : d # c => switched'[d] = switched[d]
  BY DEF Counts, HandlersTyped
<1>5. HandlersTyped'
  BY <1>1, <1>2, <1>3, <1>4 DEF Counts, HandlersTyped
<1>6. OnlyMoves(c)
  BY <1>1, <1>2, <1>3, <1>4 DEF OnlyMoves, Counts
<1>7. QED BY <1>1, <1>2, <1>3, <1>4, <1>5, <1>6, OneMoves

\* What is the same, written as a change of one entry.
LEMMA SameEntry ==
  ASSUME HandlersTyped, NEW c \in Callers
  PROVE  /\ attempt = [attempt EXCEPT ![c] = attempt[c]]
         /\ calls = [calls EXCEPT ![c] = calls[c]]
         /\ switched = [switched EXCEPT ![c] = switched[c]]
BY DEF HandlersTyped

LEMMA NoteKeeps ==
  ASSUME HandlersTyped, HandlersSound, NEW c \in Callers, NoteResult(c)
  PROVE  HandlersTyped' /\ HandlersSound'
<1>1. Sound(c) /\ pc[c] = "note" /\ UNCHANGED <<job, error, calls, switched>>
  BY DEF HandlersSound, NoteResult, Elsewhere
<1>2. error' \in [Callers -> Errors]
  BY <1>1 DEF HandlersTyped
<1>3. PICK place \in {"count", "returned", "retry"} :
        /\ Goto(c, place)
        /\ place = "count" => job[c].kind \in {"network", "unavailable"} /\ attempt' = attempt
        /\ place = "returned" => attempt' = attempt
        /\ place = "retry" =>
             /\ job[c].kind \in {"limit", "other"}
             /\ attempt' = [attempt EXCEPT ![c] =
                              IF Entering(c) THEN attempt[c] ELSE attempt[c] + 1]
  BY DEF NoteResult
<1>4. CASE place # "retry"
  <2>1. Walk(c, place) /\ place \in Places
    BY <1>1, <1>3, <1>4 DEF Walk, Places
  <2>2. ASSUME pc'[c] = place PROVE Sound(c)'
    BY <1>1, <1>3, <1>4, <2>1, <2>2, HandlerTyped
       DEF Walk, Sound, Opening, Recorded, Looped, Routed, Budget, Entering,
           HasWayOut, Recording, Looping, AtLeastOne
  <2>3. QED BY <2>1, <2>2, WalkKeeps
<1>5. CASE place = "retry"
  <2> DEFINE n == IF Entering(c) THEN attempt[c] ELSE attempt[c] + 1
  <2>1. n \in 1..MaxAttempts + 1 /\ "retry" \in Places
    BY <1>1, HandlerTyped, RecoveryAssumption
       DEF Sound, Recorded, Recording, Places
  <2>2. Counts(c, "retry", n, calls[c], switched[c])
    BY <1>1, <1>2, <1>3, <1>5, SameEntry DEF Counts
  <2>3. ASSUME pc'[c] = "retry" /\ attempt'[c] = n PROVE Sound(c)'
    BY <1>1, <1>3, <1>5, <2>3, HandlerTyped
       DEF Sound, Opening, Recorded, Looped, Routed, Budget, Entering,
           HasWayOut, Recording, Looping, AtLeastOne
  <2>4. calls[c] \in 0..MaxAttempts /\ switched[c] \in 0..2
    BY HandlerTyped
  <2>5. QED BY <2>1, <2>2, <2>3, <2>4, CountsKeep
<1>6. QED BY <1>4, <1>5

LEMMA CountKeeps ==
  ASSUME HandlersTyped, HandlersSound, NEW c \in Callers, Count(c)
  PROVE  HandlersTyped' /\ HandlersSound'
<1>1. Sound(c) /\ pc[c] = "count" /\ UNCHANGED <<job, error, calls, switched>>
  BY DEF HandlersSound, Count, Elsewhere
<1>2. error' \in [Callers -> Errors]
  BY <1>1 DEF HandlersTyped
<1>3. CASE \E place \in {"returned", "raised"} : Goto(c, place) /\ attempt' = attempt
  <2>1. PICK place \in {"returned", "raised"} : Walk(c, place) /\ place \in Places
    BY <1>1, <1>3 DEF Walk, Places
  <2>2. ASSUME pc'[c] = place PROVE Sound(c)'
    BY <1>1, <2>1, <2>2, HandlerTyped
       DEF Walk, Sound, Opening, Recorded, Looped, Routed, Budget, Entering,
           HasWayOut, Recording, Looping, AtLeastOne
  <2>3. QED BY <2>1, <2>2, WalkKeeps
<1>4. CASE Entering(c) /\ Goto(c, "gate") /\ attempt' = attempt
  <2>1. Walk(c, "gate") /\ "gate" \in Places
    BY <1>1, <1>4 DEF Walk, Places
  <2>2. ASSUME pc'[c] = "gate" PROVE Sound(c)'
    BY <1>1, <1>4, <2>1, <2>2, HandlerTyped
       DEF Walk, Sound, Opening, Recorded, Looped, Routed, Budget, Entering,
           HasWayOut, Recording, Looping, AtLeastOne
  <2>3. QED BY <2>1, <2>2, WalkKeeps
<1>5. CASE /\ ~Entering(c) /\ attempt' = [attempt EXCEPT ![c] = @ + 1]
           /\ Goto(c, IF GivesWay(c) THEN "fallback" ELSE "retry")
  <2> DEFINE place == IF GivesWay(c) THEN "fallback" ELSE "retry"
             n == attempt[c] + 1
  <2>1. n \in 1..MaxAttempts + 1 /\ place \in Places
    BY <1>1, HandlerTyped, RecoveryAssumption
       DEF Sound, Recorded, Recording, Places
  <2>2. Counts(c, place, n, calls[c], switched[c])
    BY <1>1, <1>2, <1>5, SameEntry DEF Counts
  <2>3. ASSUME pc'[c] = place /\ attempt'[c] = n PROVE Sound(c)'
    BY <1>1, <1>5, <2>3, HandlerTyped, HalfType
       DEF Sound, Opening, Recorded, Looped, Routed, Budget, Entering,
           HasWayOut, Recording, Looping, AtLeastOne, GivesWay
  <2>4. calls[c] \in 0..MaxAttempts /\ switched[c] \in 0..2
    BY HandlerTyped
  <2>5. QED BY <2>1, <2>2, <2>3, <2>4, CountsKeep
<1>6. QED BY <1>3, <1>4, <1>5 DEF Count

LEMMA RequeueKeeps ==
  ASSUME HandlersTyped, HandlersSound, NEW c \in Callers, Requeue(c)
  PROVE  HandlersTyped' /\ HandlersSound'
<1>1. /\ Sound(c) /\ pc[c] = "retry" /\ job[c].kind = "limit"
      /\ attempt[c] <= MaxAttempts
      /\ UNCHANGED <<job, error, calls, switched, pc>>
      /\ attempt' = [attempt EXCEPT ![c] = attempt[c] + 1]
  BY DEF HandlersSound, Requeue, Elsewhere
<1>2. attempt[c] + 1 \in 1..MaxAttempts + 1 /\ "retry" \in Places
  BY <1>1, HandlerTyped, RecoveryAssumption DEF Places
<1>3. Counts(c, "retry", attempt[c] + 1, calls[c], switched[c])
  BY <1>1, SameEntry DEF Counts, Goto, HandlersTyped
<1>4. ASSUME pc'[c] = "retry" /\ attempt'[c] = attempt[c] + 1 PROVE Sound(c)'
  BY <1>1, <1>4, HandlerTyped
     DEF Sound, Opening, Recorded, Looped, Routed, Budget, Entering,
         HasWayOut, Recording, Looping, AtLeastOne
<1>5. calls[c] \in 0..MaxAttempts /\ switched[c] \in 0..2
  BY HandlerTyped
<1>6. QED BY <1>2, <1>3, <1>4, <1>5, CountsKeep

LEMMA CallKeeps ==
  ASSUME HandlersTyped, HandlersSound, NEW c \in Callers, Call(c)
  PROVE  HandlersTyped' /\ HandlersSound'
<1>1. /\ Sound(c) /\ pc[c] = "call" /\ UNCHANGED <<job, attempt, switched>>
      /\ calls' = [calls EXCEPT ![c] = calls[c] + 1]
  BY DEF HandlersSound, Call, Elsewhere
<1>2. error' \in [Callers -> Errors]
  BY HandlerTyped DEF Call, HandlersTyped, Errors, Failures, Retried, Kinds, Jobs
<1>3. PICK place \in {"check", "raised", "count"} :
        /\ Goto(c, place)
        /\ place = "count" => job[c].kind # "other"
  BY DEF Call
<1>4. /\ calls[c] + 1 \in 0..MaxAttempts /\ place \in Places
      /\ job[c].kind \in {"limit", "network", "unavailable", "other"}
  BY <1>1, HandlerTyped, RecoveryAssumption
     DEF Sound, Looped, Looping, Places, Jobs, Kinds
<1>5. Counts(c, place, attempt[c], calls[c] + 1, switched[c])
  BY <1>1, <1>2, <1>3, SameEntry DEF Counts
<1>6. ASSUME pc'[c] = place /\ calls'[c] = calls[c] + 1 PROVE Sound(c)'
  BY <1>1, <1>3, <1>4, <1>6, HandlerTyped
     DEF Sound, Opening, Recorded, Looped, Routed, Budget, Entering,
         HasWayOut, Recording, Looping, AtLeastOne
<1>7. attempt[c] \in 1..MaxAttempts + 1 /\ switched[c] \in 0..2
  BY HandlerTyped
<1>8. QED BY <1>4, <1>5, <1>6, <1>7, CountsKeep

LEMMA SwitchKeeps ==
  ASSUME HandlersTyped, HandlersSound, NEW c \in Callers, Switch(c) \/ Fallback(c)
  PROVE  HandlersTyped' /\ HandlersSound'
<1>1. PICK place \in {"returned", "check", "raised"} :
        /\ Goto(c, place) /\ pc[c] \in {"switch", "fallback", "locked"}
        /\ place = "check" => pc[c] = "switch"
        /\ UNCHANGED <<job, attempt, calls>>
        /\ switched' = [switched EXCEPT ![c] = switched[c] + 1]
  BY DEF Switch, Fallback, Elsewhere
<1>2. error' \in [Callers -> Errors]
  BY DEF Switch, Fallback, HandlersTyped, Errors, Kinds
<1>3. Sound(c) /\ place \in Places
  BY DEF HandlersSound, Places
<1>4. switched[c] + 1 \in 0..2
  BY <1>1, <1>3, HandlerTyped DEF Sound, Opening, Looped, Routed, Looping, Entering
<1>5. Counts(c, place, attempt[c], calls[c], switched[c] + 1)
  BY <1>1, <1>2, SameEntry DEF Counts
<1>6. ASSUME pc'[c] = place /\ switched'[c] = switched[c] + 1 PROVE Sound(c)'
  BY <1>1, <1>3, <1>6, HandlerTyped, RecoveryAssumption
     DEF Sound, Opening, Recorded, Looped, Routed, Budget, Entering,
         HasWayOut, Recording, Looping, AtLeastOne
<1>7. attempt[c] \in 1..MaxAttempts + 1 /\ calls[c] \in 0..MaxAttempts
  BY HandlerTyped
<1>8. QED BY <1>3, <1>4, <1>5, <1>6, <1>7, CountsKeep
-----------------------------------------------------------------------------
(* The monitor's records.                                                  *)

\* StatusAgrees and the first half of BreaksKnown, of one record.
RecordSound(m) ==
  /\ m \in Monitors
  /\ m.status = "healthy" => m.wins = 2 /\ m.fails = 0
  /\ m.status = "unavailable" => m.broken
  /\ m.status = "unknown" => m = Fresh
  /\ ~m.broken => m.breakLeft = 0

LEMMA MonitorSound == ServiceInv => RecordSound(monitor)
BY DEF ServiceInv, ServiceTyped, StatusAgrees, BreaksKnown, RecordSound

LEMMA FreshSound == RecordSound(Fresh) /\ ~Fresh.broken
BY RecoveryAssumption DEF RecordSound, Fresh, Monitors, Statuses

LEMMA SameRecord ==
  ASSUME NEW m \in Monitors, NEW k \in Monitors,
         m.status = k.status, m.fails = k.fails, m.wins = k.wins,
         m.broken = k.broken, m.breakLeft = k.breakLeft, m.limitLeft = k.limitLeft
  PROVE  m = k
BY DEF Monitors

\* A success leaves a break as it is.
LEMMA SuccessSound ==
  ASSUME NEW m, RecordSound(m)
  PROVE  RecordSound(NotedSuccess(m)) /\ (m.broken => NotedSuccess(m).broken)
<1> DEFINE n == Capped(m.wins + 1, 2)
           s == NotedSuccess(m)
<1>1. m \in Monitors
  BY DEF RecordSound
<1>2. n \in 1..2
  BY <1>1 DEF Capped, Monitors
<1>3. /\ s.wins = n /\ s.fails = 0 /\ s.broken = m.broken
      /\ s.breakLeft = m.breakLeft /\ s.limitLeft = m.limitLeft
      /\ s.status = IF m.status = "limited" \/ Breaking(m) THEN m.status ELSE AfterWins(n)
  BY <1>1 DEF NotedSuccess, Monitors
<1>4. s \in Monitors
  <2> DEFINE x == IF m.status = "limited" \/ Breaking(m) THEN m.status ELSE AfterWins(n)
  <2>1. s = [m EXCEPT !.wins = n, !.fails = 0, !.status = x]
    BY DEF NotedSuccess
  <2>2. x \in Statuses
    BY <1>1 DEF Monitors, Statuses, AfterWins
  <2>3. n \in 0..2 /\ 0 \in 0..BreakThreshold
    BY <1>2, RecoveryAssumption
  <2> HIDE DEF x, n, s
  <2>4. QED BY <1>1, <2>1, <2>2, <2>3 DEF Monitors
<1>5. s.status # "unknown"
  BY <1>1, <1>3, FreshSound DEF RecordSound, AfterWins, Breaking
<1>6. s.status = "healthy" => s.wins = 2
  BY <1>2, <1>3 DEF RecordSound, AfterWins, n, Capped
<1>7. s.status = "unavailable" => s.broken
  BY <1>3 DEF RecordSound, AfterWins, Breaking
<1>8. QED BY <1>1, <1>3, <1>4, <1>5, <1>6, <1>7 DEF RecordSound

\* A failure never ends a break.
LEMMA FailureSound ==
  ASSUME NEW m, RecordSound(m), NEW kind
  PROVE  RecordSound(NotedFailure(m, kind)) /\ (m.broken => NotedFailure(m, kind).broken)
<1> DEFINE n == Capped(m.fails + 1, BreakThreshold)
           f == NotedFailure(m, kind)
<1>1. m \in Monitors
  BY DEF RecordSound
<1>2. n \in 0..BreakThreshold
  BY <1>1, RecoveryAssumption DEF Capped, Monitors
<1>3. /\ f.status \in {"limited", "unavailable", "degraded"}
      /\ f.status = "unavailable" => f.broken
      /\ m.broken => f.broken
      /\ ~f.broken => ~m.broken /\ f.breakLeft = m.breakLeft
  BY <1>1 DEF NotedFailure, Monitors
<1>4. f \in Monitors
  <2> DEFINE g == [m EXCEPT !.fails = n, !.wins = 0]
  <2>1. g \in Monitors
    <3>1. 0 \in 0..2
      OBVIOUS
    <3> HIDE DEF n
    <3>2. QED BY <1>1, <1>2, <3>1 DEF Monitors
  <2>2. /\ {"limited", "unavailable", "degraded"} \subseteq Statuses
        /\ LimitTime \in 0..LimitTime /\ RecoveryTime \in 0..RecoveryTime
        /\ TRUE \in BOOLEAN
    BY RecoveryAssumption DEF Statuses
  <2>3. f = IF kind = "limit" THEN [g EXCEPT !.limitLeft = LimitTime, !.status = "limited"]
            ELSE IF n = BreakThreshold /\ kind # "bareLimit"
              THEN [g EXCEPT !.broken = TRUE, !.breakLeft = RecoveryTime,
                             !.status = "unavailable"]
            ELSE [g EXCEPT !.status = "degraded"]
    BY DEF NotedFailure
  <2> HIDE DEF n, f, g
  <2>4. /\ [g EXCEPT !.limitLeft = LimitTime, !.status = "limited"] \in Monitors
        /\ [g EXCEPT !.broken = TRUE, !.breakLeft = RecoveryTime,
                     !.status = "unavailable"] \in Monitors
        /\ [g EXCEPT !.status = "degraded"] \in Monitors
    BY <2>1, <2>2 DEF Monitors
  <2>5. QED BY <2>3, <2>4
<1>5. QED BY <1>3, <1>4 DEF RecordSound

LEMMA ProbedSound ==
  ASSUME NEW m, RecordSound(m)
  PROVE  RecordSound(ProbedOk(m))
<1> DEFINE n == Capped(m.wins + 1, 2)
           s == ProbedOk(m)
<1>1. m \in Monitors
  BY DEF RecordSound
<1>2. n \in 1..2
  BY <1>1 DEF Capped, Monitors
<1>3. /\ s.wins = n /\ s.fails = 0 /\ s.broken = FALSE /\ s.breakLeft = 0
      /\ s.status = IF m.status = "limited" /\ Limiting(m) THEN m.status ELSE AfterWins(n)
  BY <1>1 DEF ProbedOk, Monitors
<1>4. s \in Monitors
  <2> DEFINE x == IF m.status = "limited" /\ Limiting(m) THEN m.status ELSE AfterWins(n)
  <2>1. s = [m EXCEPT !.wins = n, !.fails = 0, !.broken = FALSE, !.breakLeft = 0,
                      !.status = x]
    BY DEF ProbedOk
  <2>2. x \in Statuses
    BY <1>1 DEF Monitors, Statuses, AfterWins
  <2>3. /\ n \in 0..2 /\ 0 \in 0..BreakThreshold /\ 0 \in 0..RecoveryTime
        /\ FALSE \in BOOLEAN
    BY <1>2, RecoveryAssumption
  <2> HIDE DEF x, n, s
  <2>4. QED BY <1>1, <2>1, <2>2, <2>3 DEF Monitors
<1>5. s.status \in {"limited", "degraded", "healthy"} /\ (s.status = "healthy" => n = 2)
  BY <1>2, <1>3 DEF AfterWins
<1>6. QED BY <1>3, <1>4, <1>5 DEF RecordSound
-----------------------------------------------------------------------------
(* The service's invariant is kept.                                        *)

\* Nothing is noted of the service.
ServiceRests == /\ UNCHANGED <<monitor, probe, broke>>
                /\ checked' \in BOOLEAN /\ known' \in BOOLEAN /\ up' \in BOOLEAN
                /\ circuit' \in [count : 0..CircuitThreshold, tripped : BOOLEAN,
                                 left : 0..ResetTime]

LEMMA RestKeeps ==
  ASSUME ServiceInv, ServiceRests
  PROVE  ServiceInv'
BY DEF ServiceInv, ServiceRests, ServiceTyped, StatusAgrees, BreaksKnown, Breaking

\* Something is noted of it: a break that begins is noticed by a probe.
Noting(m) == /\ Note(m) /\ UNCHANGED <<checked, up, probe, circuit>> /\ known' \in BOOLEAN

LEMMA NotingKeeps ==
  ASSUME ServiceInv, NEW m, RecordSound(m), Noting(m)
  PROVE  ServiceInv'
<1>1. monitor' = m /\ broke' = (broke \/ (probe # "idle" /\ m.breakLeft > monitor.breakLeft))
  BY DEF Noting, Note
<1>2. ServiceTyped'
  BY <1>1 DEF ServiceInv, ServiceTyped, Noting, RecordSound
<1>3. StatusAgrees'
  BY <1>1 DEF RecordSound, StatusAgrees
<1>4. BreaksKnown'
  <2>1. monitor.breakLeft \in Nat /\ m.breakLeft \in Nat
    BY DEF ServiceInv, ServiceTyped, Monitors, RecordSound
  <2>2. Breaking(m) /\ ~Breaking(monitor) => m.breakLeft > monitor.breakLeft
    BY <2>1 DEF Breaking, ServiceInv, BreaksKnown
  <2>3. probe # "idle" /\ Breaking(m) => broke'
    BY <1>1, <2>2 DEF ServiceInv, BreaksKnown
  <2>4. QED BY <1>1, <2>3 DEF BreaksKnown, RecordSound, Noting
<1>5. QED BY <1>2, <1>3, <1>4 DEF ServiceInv

LEMMA CountedTyped ==
  ASSUME ServiceTyped, NEW e
  PROVE  Counted(e) \in [count : 0..CircuitThreshold, tripped : BOOLEAN, left : 0..ResetTime]
<1> DEFINE n == Capped(circuit.count + 1, CircuitThreshold)
<1>1. n \in 0..CircuitThreshold /\ Less(circuit.count) \in 0..CircuitThreshold
  BY RecoveryAssumption DEF ServiceTyped, Capped, Less
<1>2. CASE e = "none"
  BY <1>1, <1>2 DEF Counted, ServiceTyped
<1>3. CASE e # "unavailable" /\ e # "none"
  BY <1>3 DEF Counted, ServiceTyped
<1>4. CASE e = "unavailable"
  BY <1>1, <1>4, RecoveryAssumption DEF Counted, ServiceTyped
<1>5. QED BY <1>2, <1>3, <1>4

\* What a handler notes, if it notes anything.
LEMMA HandlerNotes ==
  ASSUME NEW c \in Callers, Fail(c) \/ Handle(c)
  PROVE  \/ /\ UNCHANGED <<monitor, broke, known, checked, up, probe>>
            /\ circuit' \in {circuit, Counted(error[c])}
         \/ Initialize(c)
         \/ NoteResult(c)
BY DEF Handle, Fail, CheckKnown, Count, Gate, Requeue, Retry, GiveUp, Ping, Look,
       Call, Switch, Fallback, MonitorSame, Elsewhere

LEMMA HandlerKeepsService ==
  ASSUME ServiceInv, NEW c \in Callers, Fail(c) \/ Handle(c)
  PROVE  ServiceInv'
<1>1. CASE /\ UNCHANGED <<monitor, broke, known, checked, up, probe>>
           /\ circuit' \in {circuit, Counted(error[c])}
  BY <1>1, CountedTyped, RestKeeps DEF ServiceRests, ServiceInv, ServiceTyped
<1>2. CASE Initialize(c)
  BY <1>2, FreshSound, NotingKeeps DEF Initialize, Noting, Elsewhere
<1>3. CASE NoteResult(c)
  <2>1. PICK m : RecordSound(m) /\ Noting(m)
    BY <1>3, MonitorSound, SuccessSound, FailureSound
       DEF NoteResult, Noting, Elsewhere, ServiceInv, ServiceTyped
  <2>2. QED BY <2>1, NotingKeeps
<1>4. QED BY <1>1, <1>2, <1>3, HandlerNotes

LEMMA HandlerKeepsSetUp ==
  ASSUME HandlersTyped, SetUpOnce, NEW c \in Callers, Fail(c) \/ Handle(c)
  PROVE  SetUpOnce'
<1>1. checked' = checked /\ (known => known')
  BY DEF Handle, Fail, CheckKnown, Initialize, NoteResult, Count, Gate, Requeue, Retry,
         GiveUp, Ping, Look, Call, Switch, Fallback, MonitorSame, Elsewhere
<1>2. PICK place : Goto(c, place) \/ pc' = pc
  BY DEF Handle, Fail, CheckKnown, Initialize, NoteResult, Count, Gate, Requeue, Retry,
         GiveUp, Ping, Look, Call, Switch, Fallback
<1>3. \A d \in Callers : d # c => pc'[d] = pc[d]
  BY <1>2 DEF Goto, HandlersTyped
<1>4. pc'[c] = "init" => ~known \/ pc[c] = "init"
  BY DEF Handle, Fail, CheckKnown, Initialize, NoteResult, Count, Gate, Requeue, Retry,
         GiveUp, Ping, Look, Call, Switch, Fallback, Goto, HandlersTyped
<1>5. QED BY <1>1, <1>3, <1>4 DEF SetUpOnce

LEMMA ProbeKeepsService ==
  ASSUME ServiceInv, Probe
  PROVE  ServiceInv'
<1> USE DEF ServiceInv
<1>1. CASE StartProbe
  BY <1>1 DEF StartProbe, HandlersSame, ServiceTyped, StatusAgrees, BreaksKnown, Breaking
<1>2. CASE ProbeAnswers
  <2>1. /\ probe = "out" /\ probe' \in {"ok", "failed", "idle"}
        /\ broke' = (broke /\ probe' # "idle")
        /\ UNCHANGED <<checked, known, monitor, circuit, up>>
    BY <1>2 DEF ProbeAnswers, HandlersSame
  <2>2. broke' \in BOOLEAN
    BY <2>1
  <2>3. ServiceTyped' /\ StatusAgrees'
    BY <2>1, <2>2 DEF ServiceTyped, StatusAgrees
  <2>4. BreaksKnown'
    BY <2>1 DEF BreaksKnown, Breaking
  <2>5. QED BY <2>3, <2>4
<1>3. CASE ApplyProbe
  <2>1. /\ RecordSound(monitor') /\ probe' = "idle" /\ broke' = FALSE
        /\ UNCHANGED <<checked, known, circuit, up>>
    BY <1>3, MonitorSound, ProbedSound, FailureSound DEF ApplyProbe, HandlersSame
  <2>2. QED BY <2>1 DEF ServiceTyped, StatusAgrees, BreaksKnown, RecordSound
<1>4. QED BY <1>1, <1>2, <1>3 DEF Probe

LEMMA TickKeepsService ==
  ASSUME ServiceInv, Tick
  PROVE  ServiceInv'
<1> USE DEF ServiceInv
<1>1. monitor \in Monitors /\ Less(0) = 0
  BY DEF ServiceTyped, Less
<1>2. /\ monitor' = [monitor EXCEPT !.breakLeft = Less(@), !.limitLeft = Less(@)]
      /\ circuit' = [circuit EXCEPT !.left = Less(@)]
      /\ UNCHANGED <<checked, known, up, probe, broke>>
  BY DEF Tick, HandlersSame
<1>3. /\ monitor'.status = monitor.status /\ monitor'.wins = monitor.wins
      /\ monitor'.fails = monitor.fails /\ monitor'.broken = monitor.broken
      /\ monitor'.breakLeft = Less(monitor.breakLeft)
      /\ monitor'.limitLeft = Less(monitor.limitLeft)
  BY <1>1, <1>2 DEF Monitors
<1>4. ServiceTyped'
  <2>1. monitor' \in Monitors
    <3>1. /\ Less(monitor.breakLeft) \in 0..RecoveryTime
          /\ Less(monitor.limitLeft) \in 0..LimitTime
      BY <1>1, RecoveryAssumption DEF Monitors, Less
    <3>2. QED BY <1>1, <1>2, <3>1 DEF Monitors
  <2>2. circuit' \in [count : 0..CircuitThreshold, tripped : BOOLEAN, left : 0..ResetTime]
    <3>1. Less(circuit.left) \in 0..ResetTime
      BY RecoveryAssumption DEF ServiceTyped, Less
    <3>2. QED BY <1>2, <3>1 DEF ServiceTyped
  <2>3. QED BY <1>2, <2>1, <2>2 DEF ServiceTyped
<1>5. StatusAgrees'
  <2>1. monitor' \in Monitors /\ Fresh \in Monitors
    BY <1>4, FreshSound DEF ServiceTyped, RecordSound
  <2>2. monitor = Fresh => monitor' = Fresh
    <3>1. ASSUME monitor = Fresh
          PROVE  monitor'.breakLeft = Fresh.breakLeft /\ monitor'.limitLeft = Fresh.limitLeft
      BY <1>1, <1>3, <3>1 DEF Fresh
    <3>2. QED BY <1>3, <2>1, <3>1, SameRecord
  <2>3. QED BY <1>3, <2>2 DEF StatusAgrees
<1>6. BreaksKnown'
  BY <1>1, <1>2, <1>3 DEF BreaksKnown, Breaking, Less, Monitors
<1>7. QED BY <1>4, <1>5, <1>6
-----------------------------------------------------------------------------
LEMMA InitIInv == Init => IInv
<1> SUFFICES ASSUME Init PROVE IInv
  OBVIOUS
<1>1. PICK start \in Cases : checked = start.checked /\ job = start.job
  BY DEF Init
<1>2. checked \in BOOLEAN /\ job \in [Callers -> Jobs]
  BY <1>1, RecoveryAssumption
<1>3. HandlersTyped
  <2>1. error \in [Callers -> Errors]
    BY <1>2 DEF Init, Errors, Jobs
  <2>2. pc \in [Callers -> Places]
    BY DEF Init, Places
  <2>3. /\ attempt \in [Callers -> 1..MaxAttempts + 1]
        /\ calls \in [Callers -> 0..MaxAttempts] /\ switched \in [Callers -> 0..2]
    BY RecoveryAssumption DEF Init
  <2>4. QED BY <1>2, <2>1, <2>2, <2>3 DEF HandlersTyped
<1>4. HandlersSound
  <2> SUFFICES ASSUME NEW c \in Callers PROVE Sound(c)
    BY DEF HandlersSound
  <2>1. /\ pc[c] = "calling" /\ attempt[c] = 1 /\ calls[c] = 0 /\ switched[c] = 0
    BY DEF Init
  <2>2. QED
    BY <2>1, HalfType, RecoveryAssumption
       DEF Sound, Opening, Recorded, Looped, Routed, Budget, Entering, HasWayOut,
           Recording, Looping, AtLeastOne
<1>5. ServiceInv
  <2>1. monitor = Fresh /\ probe = "idle" /\ broke = FALSE /\ known = checked
    BY DEF Init
  <2>2. circuit \in [count : 0..CircuitThreshold, tripped : BOOLEAN, left : 0..ResetTime]
    BY RecoveryAssumption DEF Init
  <2>3. up \in BOOLEAN
    BY Zenon DEF Init
  <2>4. QED
    BY <1>2, <2>1, <2>2, <2>3, FreshSound
       DEF ServiceInv, ServiceTyped, StatusAgrees, BreaksKnown, RecordSound
<1>6. SetUpOnce
  BY DEF Init, SetUpOnce
<1>7. QED BY <1>3, <1>4, <1>5, <1>6 DEF IInv

LEMMA HandleIInv ==
  ASSUME IInv, NEW c \in Callers, Fail(c) \/ Handle(c)
  PROVE  IInv'
<1> USE DEF IInv
<1>1. ServiceInv'
  BY HandlerKeepsService
<1>2. HandlersTyped' /\ HandlersSound'
  BY EnterKeeps, NoteKeeps, CountKeeps, GateKeeps, RequeueKeeps, LoopKeeps, CallKeeps,
     SwitchKeeps DEF Handle
<1>3. SetUpOnce'
  BY HandlerKeepsSetUp
<1>4. QED BY <1>1, <1>2, <1>3

LEMMA NextIInv == IInv /\ [Next]_vars => IInv'
<1> SUFFICES ASSUME IInv, [Next]_vars PROVE IInv'
  OBVIOUS
<1>1. ASSUME NEW c \in Callers, Fail(c) \/ Handle(c) PROVE IInv'
  BY <1>1, HandleIInv
<1>2. ASSUME HandlersSame, known => known', ServiceInv' PROVE IInv'
  BY <1>2 DEF HandlersSame, IInv, HandlersTyped, HandlersSound, Sound, Opening, Recorded,
              Looped, Routed, Budget, Entering, HasWayOut, SetUpOnce
<1>3. CASE Probe
  BY <1>2, <1>3, ProbeKeepsService
     DEF Probe, StartProbe, ProbeAnswers, ApplyProbe, IInv
<1>4. CASE Register
  BY <1>2, <1>4, FreshSound, NotingKeeps DEF Register, Noting, HandlersSame, IInv
<1>5. CASE Tick
  BY <1>2, <1>5, TickKeepsService DEF Tick, IInv
<1>6. CASE Flip
  <2>1. up' \in BOOLEAN
    BY <1>6 DEF Flip
  <2>2. QED
    BY <1>2, <1>6, <2>1, RestKeeps
       DEF Flip, HandlersSame, ServiceRests, IInv, ServiceInv, ServiceTyped
<1>7. CASE UNCHANGED vars
  BY <1>2, <1>7, RestKeeps
     DEF vars, HandlersSame, ServiceRests, IInv, ServiceInv, ServiceTyped
<1>8. QED BY <1>1, <1>3, <1>4, <1>5, <1>6, <1>7 DEF Next

LEMMA Inductive == Spec => []IInv
BY InitIInv, NextIInv, PTL DEF Spec
-----------------------------------------------------------------------------
\* The types; no handler starts an attempt past max_attempts, and no counter of
\* the monitor or of the circuit passes its threshold.
THEOREM TypeCorrect == Spec => []TypeOK
<1>1. IInv => TypeOK
  BY TypeParts DEF IInv, ServiceInv
<1>2. QED BY <1>1, Inductive, PTL

\* No handler calls the service, or its fallback, more often than its budget
\* allows, whatever the service, the monitor and the other handlers do.
THEOREM BudgetRespected == Spec => []RetryBudget
<1>1. IInv => RetryBudget
  BY BudgetsKept DEF IInv
<1>2. QED BY <1>1, Inductive, PTL

\* Whoever notes what in which order, the status agrees with the metrics.
THEOREM StatusIsHonest == Spec => []StatusAgrees
<1>1. IInv => StatusAgrees
  BY DEF IInv, ServiceInv
<1>2. QED BY <1>1, Inductive, PTL

\* No result that a caller notes ends a break before its time: only a new
\* registration does, a probe that went out before the break began or was
\* extended, or a handler that sets up a service it took for unknown, which was
\* not registered when the calls began.
THEOREM BreaksRunTheirTime == Spec => BreaksLast
<1> DEFINE A == Breaking(monitor) /\ ~monitor'.broken
                  => Registered \/ (probe = "ok" /\ broke) \/ (~checked /\ SetUpLate)
<1>1. IInv /\ [Next]_vars => [A]_vars
  <2> SUFFICES ASSUME IInv, Next, Breaking(monitor), ~monitor'.broken
               PROVE  Registered \/ (probe = "ok" /\ broke) \/ (~checked /\ SetUpLate)
    OBVIOUS
  <2>1. RecordSound(monitor) /\ monitor.broken
    BY MonitorSound DEF IInv, Breaking
  <2>2. ASSUME NEW c \in Callers, Fail(c) \/ Handle(c) PROVE ~checked /\ SetUpLate
    <3>1. CASE UNCHANGED monitor
      BY <2>1, <3>1
    <3>2. CASE Initialize(c)
      <4>1. pc[c] = "init" /\ pc'[c] = "note"
        BY <3>2 DEF Initialize, Goto, IInv, HandlersTyped
      <4>2. QED BY <4>1 DEF SetUpLate, IInv, SetUpOnce
    <3>3. CASE NoteResult(c)
      BY <2>1, <3>3, SuccessSound, FailureSound DEF NoteResult, Note
    <3>4. QED BY <2>2, <3>1, <3>2, <3>3, HandlerNotes
  <2>3. CASE Probe
    <3>1. CASE UNCHANGED monitor
      BY <2>1, <3>1
    <3>2. CASE ApplyProbe
      <4>1. probe = "ok"
        BY <2>1, <3>2, FailureSound DEF ApplyProbe
      <4>2. broke
        BY <4>1 DEF IInv, ServiceInv, BreaksKnown
      <4>3. QED BY <4>1, <4>2
    <3>3. QED BY <2>3, <3>1, <3>2 DEF Probe, StartProbe, ProbeAnswers
  <2>4. CASE Register
    BY <2>4 DEF Register, Note, HandlersSame, Registered
  <2>5. CASE Tick \/ Flip
    BY <2>1, <2>5 DEF Tick, Flip, RecordSound, Monitors
  <2>6. QED BY <2>2, <2>3, <2>4, <2>5 DEF Next
<1>2. QED BY <1>1, Inductive, PTL DEF Spec, BreaksLast
=============================================================================
